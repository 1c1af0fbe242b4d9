---------------------------- MODULE RouterProofs ----------------------------
(***************************************************************************)
(* Proofs about the router's six pages, for any bounds: the way from a     *)
(* room to a paid booking (module Checkout), where the stay on the page is *)
(* the one that was clicked, and who pays for what; the guest panel        *)
(* (GuestPanel), whom it shows and when its flags are the server's; the    *)
(* search for hotels and rooms (HotelSearch) and the pages that only show  *)
(* what they read (ReportViews), what comes to stand under what heading;   *)
(* the profile (ProfilePhoto), when its photo, file and copies agree; and  *)
(* the activity log (ActivityFeed), when its list doubles, mixes or loses  *)
(* entries.                                                                *)
(***************************************************************************)
EXTENDS Router, FiniteSetTheorems, TLAPS

StayTyped ==
    /\ checkIn \in Int \cup {None} /\ checkOut \in Int \cup {None}
    /\ picked \in [in : Int \cup {None}, out : Int \cup {None}]
    /\ east \in BOOLEAN /\ step \in 1..3

(* A second click is awaited only with a check-in and no check-out, and    *)
(* the third step of the booking is reached with both.                     *)
Chosen ==
    /\ pickingEnd => checkIn # None /\ checkOut = None
    /\ place = "booking" /\ step = 3 => checkIn # None /\ checkOut # None

StayInv == StayTyped /\ Chosen /\ StayExplained

-----------------------------------------------------------------------------
Ats == {"book", "checked", "booked", "pay", "loaded", "paid", "failed"}
Attempt == [no : Int, visit : Int, at : Ats, awaited : BOOLEAN, in : Int, out : Int, rooms : Int,
            quoted : Int, shown : Int, saw : SUBSET Int, night : Int, booking : Int \cup {None}]
Booking == [id : Int, visit : Int, in : Int, out : Int, st : {"pending", "confirmed", "cancelled"},
            night : Int, price : Int, charged : Int, revived : BOOLEAN, rooms : Int, quoted : Int,
            shown : Int, saw : SUBSET Int]

CountsTyped == visit \in Int /\ counter \in Int /\ roomCount \in Int /\ quoted \in Int /\ rate \in {1, 2}

(* A use of "Confirm" has a number of its own, and what the page showed    *)
(* for one room is a price for each night.                                 *)
TryGood(a) ==
    /\ a.no \in 1..tried /\ a.visit <= visit
    /\ a.rooms = 1 => a.shown = C!nights(a.in, a.out) * a.quoted
    /\ a.at = "checked" => a.in < a.out /\ a.night \in {1, 2}
AttemptsTyped ==
    /\ attempts \subseteq Attempt /\ tried \in Nat
    /\ \A a \in attempts : TryGood(a)
    /\ \A a, b \in attempts : a.no = b.no => a = b

(* A booking has the number of its attempt; it is charged its price, once. *)
BookingGood(b) ==
    /\ b.id \in 1..tried /\ b.visit <= visit
    /\ b.in < b.out /\ b.price > 0
    /\ b.rooms = 1 /\ b.night = b.quoted => b.price = b.shown
    /\ b.charged \in {0, b.price}
BookingsTyped ==
    /\ bookings \subseteq Booking
    /\ \A b \in bookings : BookingGood(b)
    /\ \A b, c \in bookings : b.id = c.id => b = c

(* Where a use of "Confirm" stands, and what is at the server of it. *)
Unbooked(a) == a.booking = None /\ \A b \in bookings : b.id # a.no
BookedAs(a, b) ==
    /\ b.id = a.no /\ b.in = a.in /\ b.out = a.out /\ b.visit = a.visit
    /\ a.at # "paid" => b.charged = 0
    /\ a.at = "paid" => b.charged > 0 /\ b.st # "pending"
AttemptGood(a) ==
    /\ a.booking \in {None, a.no}
    /\ a.at \in {"book", "checked"} => Unbooked(a)
    /\ a.at \in {"booked", "pay", "loaded", "paid"} =>
         a.booking = a.no /\ \E b \in bookings : BookedAs(a, b)
Linked == \A a \in attempts : AttemptGood(a)

(* The page waits for one use of "Confirm", its last. *)
Newest ==
    \A a \in attempts : a.awaited =>
        /\ \A x \in attempts : x.visit = a.visit => x.no <= a.no
        /\ \A b \in bookings : b.visit = a.visit => b.id <= a.no
Waiting == \A a \in attempts : C!Mine(a) /\ a.awaited => loading

(* What was there when the server looked for a try (its number, mount and  *)
(* nights) did not stand in its way, unless it was brought back since; and *)
(* a booking made from the same mount that is, or may yet be, paid was     *)
(* there if it is the older.                                               *)
Hopeful(b) == b.charged > 0 \/ \E p \in attempts : p.at \in {"pay", "loaded"} /\ p.booking = b.id
LookGood(b, no, mount, in, out, saw) ==
    /\ b.id \in saw /\ b.in < out /\ in < b.out => b.st = "cancelled" \/ b.revived
    /\ b.visit = mount /\ b.id < no /\ Hopeful(b) => b.id \in saw
Checked == {a \in attempts : a.at = "checked"}
Looked ==
    /\ \A b \in bookings : /\ \A a \in Checked : LookGood(b, a.no, a.visit, a.in, a.out, a.saw)
                           /\ \A c \in bookings : LookGood(b, c.id, c.visit, c.in, c.out, c.saw)
    /\ \A a \in Checked : \A i \in a.saw : \E b \in bookings : b.id = i
    /\ \A c \in bookings : \A i \in c.saw : \E b \in bookings : b.id = i

Confirmed ==
    place = "confirmation" =>
        \E b \in bookings : /\ b.charged > 0 /\ b.id = confirmation.booking
                            /\ b.in = confirmation.in /\ b.out = confirmation.out

HoldInv == /\ CountsTyped /\ AttemptsTyped /\ BookingsTyped /\ Linked
           /\ Newest /\ Waiting /\ Looked /\ Confirmed

-----------------------------------------------------------------------------
(* The stay on the page. *)

LEMMA NoneAssumption ==
    /\ None \notin Int /\ None \notin {"card", "failed"}
    /\ LastDay \in Nat /\ MaxRooms \in Nat
  BY RouterAssumption DEF C!CheckoutAssumption

LEMMA StayPickDay ==
    ASSUME StayInv, NEW d \in 1..LastDay, C!PickDay(d)
    PROVE  StayInv'
  <1>1. d \in Int /\ None \notin Int
    BY NoneAssumption
  <1>2. ~ (place = "booking" /\ step = 3) /\ UNCHANGED <<place, step, east>>
    BY DEF C!PickDay, C!PickerShown, C!userVars, C!formVars
  <1>3. CASE checkIn = None \/ ~ pickingEnd \/ d < checkIn
    BY <1>1, <1>2, <1>3
    DEF C!PickDay, StayInv, StayTyped, Chosen, StayExplained, C!StayExplained, C!toStr
  <1>4. CASE ~ (checkIn = None \/ ~ pickingEnd \/ d < checkIn)
    BY <1>1, <1>2, <1>4
    DEF C!PickDay, StayInv, StayTyped, Chosen, StayExplained, C!StayExplained, C!toStr
  <1>5. QED
    BY <1>3, <1>4

(* Every other step keeps the dates or forgets them. *)
(* A step that keeps the dates, and one that forgets them. *)
LEMMA StayKept ==
    ASSUME StayInv, UNCHANGED <<checkIn, checkOut, picked, east>>,
           pickingEnd' => pickingEnd, step' \in 1..3,
           place' = "booking" /\ step' = 3 =>
              \/ place = "booking" /\ step = 3
              \/ checkIn # None /\ checkOut # None
    PROVE  StayInv'
  <1>1. StayTyped'
    BY DEF StayInv, StayTyped
  <1>2. Chosen'
    BY DEF StayInv, Chosen
  <1>3. StayExplained'
    BY DEF StayInv, StayExplained, C!StayExplained
  <1>4. QED
    BY <1>1, <1>2, <1>3 DEF StayInv

LEMMA StayCleared ==
    ASSUME StayInv, checkIn' = None, checkOut' = None, pickingEnd' = FALSE, east' = east,
           picked' = [in |-> None, out |-> None], step' \in 1..3,
           ~ (place' = "booking" /\ step' = 3)
    PROVE  StayInv'
  <1>1. StayTyped'
    <2>1. picked' \in [in : Int \cup {None}, out : Int \cup {None}]
      OBVIOUS
    <2>2. QED
      BY <2>1 DEF StayInv, StayTyped
  <1>2. Chosen'
    BY DEF Chosen
  <1>3. StayExplained'
    BY DEF StayExplained, C!StayExplained
  <1>4. QED
    BY <1>1, <1>2, <1>3 DEF StayInv

LEMMA StayOthers ==
    ASSUME StayInv,
           \/ UNCHANGED checkoutVars
           \/ C!ClearDays \/ C!CountDone \/ C!BookNow \/ C!Prompted \/ C!ToRoom \/ C!SignOut
           \/ C!NameGiven \/ C!TypeCard \/ C!Confirm \/ C!Reprice
           \/ \E n \in 1..MaxRooms : C!CountRooms(n)
           \/ \E n \in 1..3 : C!ToStep(n)
           \/ \E b \in bookings : C!Cancelled(b)
           \/ \E a \in attempts : \/ C!Query(a) \/ C!Insert(a) \/ C!LoadPayment(a) \/ C!Charge(a)
                                  \/ C!BookingMade(a) \/ C!PaymentMade(a)
                                  \/ C!AttemptFails(a) \/ C!CallEnds(a)
    PROVE  StayInv'
  <1>1. step \in 1..3
    BY DEF StayInv, StayTyped
  <1>2. CASE C!ClearDays \/ C!ToRoom
    <2>1. /\ checkIn' = None /\ checkOut' = None /\ pickingEnd' = FALSE /\ east' = east
          /\ picked' = [in |-> None, out |-> None] /\ step' = step
          /\ ~ (place' = "booking" /\ step' = 3)
      BY <1>2 DEF C!ClearDays, C!ToRoom, C!PickerShown, C!userVars, C!formVars, C!NoDays
    <2>2. QED
      BY <1>1, <2>1, StayCleared
  <1>3. CASE \/ UNCHANGED checkoutVars
             \/ C!CountDone \/ C!Prompted \/ C!SignOut \/ C!NameGiven
             \/ C!TypeCard \/ C!Confirm \/ C!Reprice
             \/ \E n \in 1..MaxRooms : C!CountRooms(n)
    <2>1. /\ UNCHANGED <<checkIn, checkOut, picked, east, pickingEnd, step>>
          /\ place' = "booking" => place = "booking"
      BY <1>3 DEF checkoutVars, C!CountDone, C!Prompted, C!SignOut, C!NameGiven,
                  C!TypeCard, C!Confirm, C!Reprice, C!CountRooms,
                  C!userVars, C!pickVars, C!formVars
    <2>2. QED
      BY <1>1, <2>1, StayKept
  <1>4. CASE C!BookNow
    <2>1. UNCHANGED <<checkIn, checkOut, picked, east>> /\ ~ pickingEnd' /\ step' = 1
      BY <1>4 DEF C!BookNow, C!userVars
    <2>2. QED
      BY <2>1, StayKept
  <1>5. CASE \E n \in 1..3 : C!ToStep(n)
    <2>1. PICK n \in 1..3 : C!ToStep(n)
      BY <1>5
    <2>2. UNCHANGED <<checkIn, checkOut, picked, east>> /\ ~ pickingEnd' /\ step' = n
      BY <2>1 DEF C!ToStep, C!userVars
    <2>3. n = 3 => checkIn # None /\ checkOut # None
      BY <1>1, <2>1 DEF C!ToStep
    <2>4. QED
      BY <2>2, <2>3, StayKept
  <1>6. CASE \/ \E b \in bookings : C!Cancelled(b)
             \/ \E a \in attempts : \/ C!Query(a) \/ C!Insert(a) \/ C!LoadPayment(a) \/ C!Charge(a)
                                    \/ C!BookingMade(a) \/ C!PaymentMade(a)
                                    \/ C!AttemptFails(a) \/ C!CallEnds(a)
    <2>1. /\ UNCHANGED <<checkIn, checkOut, picked, east, pickingEnd, step>>
          /\ place' = "booking" => place = "booking"
      BY <1>6 DEF C!Cancelled, C!Query, C!Insert, C!LoadPayment, C!Charge, C!BookingMade,
                  C!PaymentMade, C!AttemptFails, C!CallEnds, C!serverKeeps, C!userVars,
                  C!pickVars, C!formVars
    <2>2. QED
      BY <1>1, <2>1, StayKept
  <1>7. QED
    BY <1>2, <1>3, <1>4, <1>5, <1>6

(* A step of the router is one of the page that is mounted. *)
LEMMA StayNext ==
    ASSUME StayInv, [Next]_vars
    PROVE  StayInv'
  <1>1. C!CheckoutNext \/ UNCHANGED checkoutVars
    BY DEF Next, vars
  <1>2. CASE \E d \in 1..LastDay : C!PickDay(d)
    BY <1>2, StayPickDay
  <1>3. CASE ~ \E d \in 1..LastDay : C!PickDay(d)
    BY <1>1, <1>3, StayOthers DEF C!CheckoutNext
  <1>4. QED
    BY <1>2, <1>3

LEMMA StayInit ==
    ASSUME Init
    PROVE  StayInv
  <1>1. /\ checkIn = None /\ checkOut = None /\ picked = [in |-> None, out |-> None]
        /\ pickingEnd = FALSE /\ step = 1 /\ place = "room" /\ east \in BOOLEAN
    BY DEF Init, C!CheckoutInit, C!NoDays
  <1>2. StayTyped
    <2>1. picked \in [in : Int \cup {None}, out : Int \cup {None}]
      BY <1>1
    <2>2. QED
      BY <1>1, <2>1 DEF StayTyped
  <1>3. Chosen
    BY <1>1 DEF Chosen
  <1>4. StayExplained
    BY <1>1 DEF StayExplained, C!StayExplained
  <1>5. QED
    BY <1>2, <1>3, <1>4 DEF StayInv

(* However the calendar is clicked, cleared, mounted and left, the stay on *)
(* the page is the one that was clicked, less the days that its trips      *)
(* through toISOString lose, and it never ends before it begins            *)
(* (DateRangePicker.jsx:79-92, for every last day and number of clicks).   *)
THEOREM StaysExplained == Spec => []StayExplained
  <1>1. StayInv => StayExplained
    BY DEF StayInv
  <1>2. QED
    BY <1>1, StayInit, StayNext, PTL DEF Spec

-----------------------------------------------------------------------------
(* The booking and its payment. *)

LEMMA TryFacts ==
    ASSUME HoldInv, NEW a \in attempts
    PROVE  /\ a \in Attempt /\ a.at \in Ats /\ a.awaited \in BOOLEAN
           /\ a.no \in Int /\ a.visit \in Int /\ a.in \in Int /\ a.out \in Int /\ a.saw \subseteq Int
           /\ 1 <= a.no /\ a.no <= tried /\ a.visit <= visit /\ a.booking \in {None, a.no}
           /\ TryGood(a) /\ AttemptGood(a)
  <1>1. a \in Attempt
    BY DEF HoldInv, AttemptsTyped
  <1>2. TryGood(a) /\ AttemptGood(a) /\ tried \in Int
    BY DEF HoldInv, AttemptsTyped, Linked
  <1>3. a.at \in Ats /\ a.awaited \in BOOLEAN /\ a.no \in Int /\ a.visit \in Int
    BY <1>1 DEF Attempt
  <1>4. a.in \in Int /\ a.out \in Int /\ a.saw \subseteq Int
    BY <1>1 DEF Attempt
  <1>5. a.no \in 1..tried /\ a.visit <= visit /\ a.booking \in {None, a.no}
    BY <1>2 DEF TryGood, AttemptGood
  <1>6. 1 <= a.no /\ a.no <= tried
    BY <1>2, <1>3, <1>5
  <1>7. QED
    BY <1>1, <1>2, <1>3, <1>4, <1>5, <1>6

LEMMA BookingFacts ==
    ASSUME HoldInv, NEW b \in bookings
    PROVE  /\ b \in Booking /\ b.id \in Int /\ b.visit \in Int /\ b.in \in Int /\ b.out \in Int
           /\ b.st \in {"pending", "confirmed", "cancelled"} /\ b.revived \in BOOLEAN
           /\ b.price \in Int /\ b.charged \in Int /\ b.saw \subseteq Int
           /\ 1 <= b.id /\ b.id <= tried /\ b.visit <= visit /\ b.price > 0
           /\ BookingGood(b)
  <1>1. b \in Booking /\ BookingGood(b) /\ tried \in Int
    BY DEF HoldInv, BookingsTyped, AttemptsTyped
  <1>2. b.id \in Int /\ b.visit \in Int /\ b.in \in Int /\ b.out \in Int /\ b.revived \in BOOLEAN
    BY <1>1 DEF Booking
  <1>3. /\ b.st \in {"pending", "confirmed", "cancelled"} /\ b.price \in Int
        /\ b.charged \in Int /\ b.saw \subseteq Int
    BY <1>1 DEF Booking
  <1>4. b.id \in 1..tried /\ b.visit <= visit /\ b.price > 0
    BY <1>1 DEF BookingGood
  <1>5. 1 <= b.id /\ b.id <= tried
    BY <1>1, <1>2, <1>4
  <1>6. QED
    BY <1>1, <1>2, <1>3, <1>4, <1>5

LEMMA OneTry ==
    ASSUME HoldInv, NEW a \in attempts, NEW b \in attempts, a.no = b.no
    PROVE  a = b
  BY DEF HoldInv, AttemptsTyped

LEMMA OneBooking ==
    ASSUME HoldInv, NEW b \in bookings, NEW c \in bookings, b.id = c.id
    PROVE  b = c
  BY DEF HoldInv, BookingsTyped

(* A try that moves on, or is forgotten. *)
SameTry(a, n) ==
    /\ n.no = a.no /\ n.visit = a.visit /\ n.in = a.in /\ n.out = a.out
    /\ n.rooms = a.rooms /\ n.quoted = a.quoted /\ n.shown = a.shown
    /\ n.awaited => a.awaited
    /\ n.at \in {"pay", "loaded"} => a.awaited \/ a.at \in {"pay", "loaded"}
LookedWell(n) ==
    n.at = "checked" =>
        /\ n.in < n.out /\ n.night \in {1, 2}
        /\ \A b \in bookings : LookGood(b, n.no, n.visit, n.in, n.out, n.saw)
        /\ \A i \in n.saw : \E b \in bookings : b.id = i
Moves(a, n) ==
    /\ n \in Attempt /\ SameTry(a, n) /\ AttemptGood(n) /\ LookedWell(n)
    /\ attempts' \subseteq (attempts \ {a}) \cup {n}
Still == UNCHANGED <<bookings, visit, tried, counter, roomCount, quoted, rate>>

LEMMA MovesTyped ==
    ASSUME HoldInv, NEW a \in attempts, NEW n, Moves(a, n), Still
    PROVE  CountsTyped' /\ AttemptsTyped' /\ BookingsTyped'
  <1>1. CountsTyped'
    BY DEF HoldInv, CountsTyped, Still
  <1>2. BookingsTyped'
    BY DEF HoldInv, BookingsTyped, BookingGood, Still
  <1>3. TryGood(n)
    BY TryFacts DEF Moves, SameTry, LookedWell, TryGood
  <1>4. AttemptsTyped'
    <2>1. attempts' \subseteq Attempt /\ tried' \in Nat
      BY DEF HoldInv, AttemptsTyped, Moves, Still
    <2>2. \A x \in attempts' : TryGood(x)'
      BY <1>3 DEF HoldInv, AttemptsTyped, Moves, Still, TryGood
    <2>3. ASSUME NEW x \in attempts', NEW y \in attempts', x.no = y.no
          PROVE  x = y
      BY <2>3 DEF HoldInv, AttemptsTyped, Moves, SameTry
    <2>4. QED
      BY <2>1, <2>2, <2>3 DEF AttemptsTyped
  <1>5. QED
    BY <1>1, <1>2, <1>4

LEMMA MovesLinked ==
    ASSUME HoldInv, NEW a \in attempts, NEW n, Moves(a, n), Still
    PROVE  Linked' /\ Newest'
  <1>1. Linked'
    BY DEF HoldInv, Linked, Moves, Still, AttemptGood, Unbooked, BookedAs
  <1>2. ASSUME NEW x \in attempts', x.awaited
        PROVE  \E y \in attempts : y.no = x.no /\ y.visit = x.visit /\ y.awaited
    BY <1>2 DEF Moves, SameTry
  <1>3. ASSUME NEW x \in attempts'
        PROVE  \E y \in attempts : y.no = x.no /\ y.visit = x.visit
    BY DEF Moves, SameTry
  <1>4. Newest'
    BY <1>2, <1>3 DEF HoldInv, Newest, Still
  <1>5. QED
    BY <1>1, <1>4

LEMMA MovesLooked ==
    ASSUME HoldInv, NEW a \in attempts, NEW n, Moves(a, n), Still
    PROVE  Looked'
  <1>1. ASSUME NEW b \in bookings, Hopeful(b)'
        PROVE  Hopeful(b) \/ (b.id = a.no /\ b.visit = a.visit /\ a.awaited)
    <2>1. CASE b.charged > 0
      BY <2>1 DEF Hopeful
    <2>2. CASE ~ (b.charged > 0)
      <3>1. PICK p \in attempts' : p.at \in {"pay", "loaded"} /\ p.booking = b.id
        BY <1>1, <2>2 DEF Hopeful
      <3>2. CASE p \in attempts
        BY <3>1, <3>2 DEF Hopeful
      <3>3. CASE p = n
        <4>1. n.booking = n.no /\ \E c \in bookings : BookedAs(n, c)
          BY <3>1, <3>3 DEF Moves, AttemptGood
        <4>2. PICK c \in bookings : BookedAs(n, c)
          BY <4>1
        <4>3. c = b
          BY <3>1, <3>3, <4>1, <4>2, OneBooking DEF BookedAs
        <4>4. b.id = a.no /\ b.visit = a.visit
          BY <4>2, <4>3 DEF BookedAs, Moves, SameTry
        <4>5. CASE a.awaited
          BY <4>4, <4>5
        <4>6. CASE a.at \in {"pay", "loaded"}
          <5>1. a.booking = a.no
            BY <4>6, TryFacts DEF AttemptGood
          <5>2. QED
            BY <4>4, <4>6, <5>1 DEF Hopeful
        <4>7. QED
          BY <3>1, <3>3, <4>5, <4>6 DEF Moves, SameTry
      <3>4. QED
        BY <3>1, <3>2, <3>3 DEF Moves
    <2>3. QED
      BY <2>1, <2>2
  <1>2. ASSUME NEW b \in bookings, NEW no \in Int, NEW mount, NEW in, NEW out, NEW saw,
               LookGood(b, no, mount, in, out, saw), mount = a.visit /\ a.awaited => no <= a.no
        PROVE  LookGood(b, no, mount, in, out, saw)'
    <2>1. b.id \in Int /\ a.no \in Int
      BY BookingFacts, TryFacts
    <2>2. QED
      BY <1>1, <1>2, <2>1 DEF LookGood
  <1>3. ASSUME NEW b \in bookings, NEW c \in bookings
        PROVE  LookGood(b, c.id, c.visit, c.in, c.out, c.saw)'
    <2>1. LookGood(b, c.id, c.visit, c.in, c.out, c.saw)
      BY DEF HoldInv, Looked
    <2>2. c.visit = a.visit /\ a.awaited => c.id <= a.no
      BY DEF HoldInv, Newest
    <2>3. c.id \in Int
      BY BookingFacts
    <2>4. QED
      BY <1>2, <2>1, <2>2, <2>3
  <1>4. ASSUME NEW x \in Checked'
        PROVE  /\ \A b \in bookings : LookGood(b, x.no, x.visit, x.in, x.out, x.saw)
               /\ \A i \in x.saw : \E b \in bookings : b.id = i
               /\ x.visit = a.visit /\ a.awaited => x.no <= a.no
               /\ x.no \in Int
    <2>1. x \in attempts' /\ x.at = "checked"
      BY <1>4 DEF Checked
    <2>2. CASE x = n
      <3>1. x.no = a.no /\ a.no \in Int
        BY <2>2, TryFacts DEF Moves, SameTry
      <3>2. QED
        BY <2>1, <2>2, <3>1 DEF Moves, LookedWell
    <2>3. CASE x # n
      <3>1. x \in attempts /\ x \in Checked
        BY <2>1, <2>3 DEF Moves, Checked
      <3>2. QED
        BY <3>1, TryFacts DEF HoldInv, Looked, Newest
    <2>4. QED
      BY <2>2, <2>3
  <1>5. ASSUME NEW b \in bookings, NEW x \in Checked'
        PROVE  LookGood(b, x.no, x.visit, x.in, x.out, x.saw)'
    BY <1>2, <1>4
  <1>6. QED
    BY <1>3, <1>4, <1>5 DEF HoldInv, Looked, Still

LEMMA MovesInv ==
    ASSUME HoldInv, NEW a \in attempts, NEW n, Moves(a, n), Still,
           UNCHANGED <<place, loading, confirmation>>
    PROVE  HoldInv'
  <1>1. ASSUME NEW x \in attempts', C!Mine(x)', x.awaited
        PROVE  loading'
    BY <1>1 DEF HoldInv, Waiting, C!Mine, Moves, SameTry, Still
  <1>2. Confirmed'
    BY DEF HoldInv, Confirmed, Still
  <1>3. QED
    BY <1>1, <1>2, MovesTyped, MovesLinked, MovesLooked DEF HoldInv, Waiting

-----------------------------------------------------------------------------
(* The steps of a try that leave the bookings alone. *)

LEMMA BecomesMoves ==
    ASSUME NEW a, NEW n, C!Becomes(a, n)
    PROVE  /\ attempts' \subseteq (attempts \ {a}) \cup {n}
           /\ attempts \ {a} \subseteq attempts'
           /\ n.awaited => n \in attempts'
  BY DEF C!Becomes

LEMMA HoldQuery ==
    ASSUME HoldInv, NEW a \in attempts, C!Query(a)
    PROVE  HoldInv' /\ \E n \in Attempt : SameTry(a, n) /\ C!Becomes(a, n)
  <1>1. /\ a \in Attempt /\ a.at = "book" /\ Unbooked(a)
        /\ a.no \in Int /\ a.in \in Int /\ a.out \in Int /\ rate \in {1, 2}
    BY TryFacts DEF C!Query, AttemptGood, HoldInv, CountsTyped
  <1>2. Still /\ UNCHANGED <<place, loading, confirmation>>
    BY DEF C!Query, C!serverKeeps, C!userVars, C!countVars, Still
  <1>3. CASE C!Taken(a) \/ a.out <= a.in
    <2>1. PICK n : n = [a EXCEPT !.at = "failed"]
      OBVIOUS
    <2>2. n \in Attempt
      BY <1>1, <2>1 DEF Attempt, Ats
    <2>3. SameTry(a, n) /\ n.at = "failed" /\ n.booking = a.booking
      BY <1>1, <2>1 DEF Attempt, SameTry
    <2>4. C!Becomes(a, n)
      BY <1>3, <2>1 DEF C!Query
    <2>5. Moves(a, n)
      BY <1>1, <2>2, <2>3, <2>4, BecomesMoves DEF Moves, AttemptGood, LookedWell, Unbooked
    <2>6. QED
      BY <1>2, <2>2, <2>3, <2>4, <2>5, MovesInv
  <1>4. CASE ~ (C!Taken(a) \/ a.out <= a.in)
    <2>1. PICK s : s = {b.id : b \in bookings}
      OBVIOUS
    <2>2. s \in SUBSET Int /\ rate \in Int
      BY <1>1, <2>1, BookingFacts
    <2>12. PICK n : n = [a EXCEPT !.at = "checked", !.saw = s, !.night = rate]
      OBVIOUS
    <2>3. n \in Attempt
      BY <1>1, <2>2, <2>12 DEF Attempt, Ats
    <2>4. /\ SameTry(a, n) /\ n.at = "checked" /\ n.booking = a.booking
          /\ n.saw = {b.id : b \in bookings} /\ n.night = rate
      BY <1>1, <2>1, <2>12 DEF Attempt, SameTry
    <2>5. C!Becomes(a, n)
      BY <1>4, <2>1, <2>12 DEF C!Query
    <2>6. ASSUME NEW b \in bookings, b.in < n.out, n.in < b.out
          PROVE  b.st = "cancelled"
      BY <1>4, <2>4, <2>6 DEF C!Taken, C!Overlaps, SameTry
    <2>7. \A b \in bookings : LookGood(b, n.no, n.visit, n.in, n.out, n.saw)
      BY <2>4, <2>6 DEF LookGood
    <2>8. n.in < n.out
      BY <1>1, <1>4, <2>4 DEF SameTry
    <2>9. LookedWell(n)
      BY <1>1, <2>4, <2>7, <2>8 DEF LookedWell
    <2>10. AttemptGood(n)
      BY <1>1, <2>4 DEF AttemptGood, Unbooked, SameTry
    <2>11. QED
      BY <1>2, <2>3, <2>4, <2>5, <2>9, <2>10, BecomesMoves, MovesInv DEF Moves
  <1>5. QED
    BY <1>3, <1>4

LEMMA HoldLoad ==
    ASSUME HoldInv, NEW a \in attempts, C!LoadPayment(a)
    PROVE  HoldInv' /\ \E n \in Attempt : SameTry(a, n) /\ n.booking = a.booking
                                          /\ n.awaited = a.awaited /\ C!Becomes(a, n)
  <1>1. PICK b \in bookings :
            /\ b.id = a.booking
            /\ C!Becomes(a, [a EXCEPT !.at = IF b.st = "cancelled" THEN "failed" ELSE "loaded"])
    BY DEF C!LoadPayment
  <1>2. PICK n : n = [a EXCEPT !.at = IF b.st = "cancelled" THEN "failed" ELSE "loaded"]
    OBVIOUS
  <1>3. a \in Attempt /\ a.at = "pay" /\ a.booking = a.no /\ \E c \in bookings : BookedAs(a, c)
    BY TryFacts DEF C!LoadPayment, AttemptGood
  <1>4. n \in Attempt
    BY <1>2, <1>3 DEF Attempt, Ats
  <1>5. /\ SameTry(a, n) /\ n.at \in {"failed", "loaded"} /\ n.booking = a.booking
        /\ n.awaited = a.awaited
    BY <1>2, <1>3 DEF Attempt, SameTry
  <1>6. AttemptGood(n) /\ LookedWell(n)
    BY <1>3, <1>5 DEF AttemptGood, LookedWell, BookedAs, SameTry
  <1>7. Moves(a, n)
    BY <1>1, <1>2, <1>4, <1>5, <1>6, BecomesMoves DEF Moves
  <1>8. Still /\ UNCHANGED <<place, loading, confirmation>>
    BY DEF C!LoadPayment, C!serverKeeps, C!userVars, C!countVars, Still
  <1>9. QED
    BY <1>1, <1>2, <1>4, <1>5, <1>7, <1>8, MovesInv

LEMMA HoldBooked ==
    ASSUME HoldInv, NEW a \in attempts, C!BookingMade(a)
    PROVE  HoldInv' /\ \E n \in Attempt : SameTry(a, n) /\ n.booking = a.booking
                                          /\ n.awaited /\ C!Becomes(a, n)
  <1>1. PICK n : n = [a EXCEPT !.at = "pay"]
    OBVIOUS
  <1>2. /\ a \in Attempt /\ a.at = "booked" /\ a.awaited
        /\ a.booking = a.no /\ \E c \in bookings : BookedAs(a, c)
    BY TryFacts DEF C!BookingMade, AttemptGood
  <1>3. n \in Attempt
    BY <1>1, <1>2 DEF Attempt, Ats
  <1>4. SameTry(a, n) /\ n.at = "pay" /\ n.booking = a.booking /\ n.awaited
    BY <1>1, <1>2 DEF Attempt, SameTry
  <1>5. AttemptGood(n) /\ LookedWell(n)
    BY <1>2, <1>4 DEF AttemptGood, LookedWell, BookedAs, SameTry
  <1>6. C!Becomes(a, n)
    BY <1>1 DEF C!BookingMade
  <1>7. Moves(a, n)
    BY <1>3, <1>4, <1>5, <1>6, BecomesMoves DEF Moves
  <1>8. Still /\ UNCHANGED <<place, loading, confirmation>>
    BY DEF C!BookingMade, C!serverKeeps, C!userVars, C!countVars, Still
  <1>9. QED
    BY <1>3, <1>4, <1>6, <1>7, <1>8, MovesInv

LEMMA Forgotten ==
    ASSUME HoldInv, NEW a \in attempts, attempts' = attempts \ {a}
    PROVE  Moves(a, a)
  BY TryFacts DEF Moves, SameTry, LookedWell, TryGood, HoldInv, Looked, Checked

LEMMA HoldEnds ==
    ASSUME HoldInv, NEW a \in attempts, C!CallEnds(a)
    PROVE  HoldInv'
  <1>1. Still /\ UNCHANGED <<place, loading, confirmation>>
    BY DEF C!CallEnds, C!serverKeeps, C!userVars, C!countVars, Still
  <1>2. attempts' = attempts \ {a}
    BY DEF C!CallEnds
  <1>3. QED
    BY <1>1, <1>2, Forgotten, MovesInv

LEMMA HoldPaid ==
    ASSUME HoldInv, NEW a \in attempts, C!PaymentMade(a)
    PROVE  HoldInv' /\ \E b \in bookings : BookedAs(a, b) /\ b.charged > 0 /\ b.st # "pending"
                                           /\ confirmation' = [booking |-> b.id, in |-> b.in, out |-> b.out]
  <1>1. a.booking = a.no /\ a.at = "paid" /\ \E b \in bookings : BookedAs(a, b)
    BY TryFacts DEF C!PaymentMade, AttemptGood
  <1>2. PICK b \in bookings : BookedAs(a, b)
    BY <1>1
  <1>3. confirmation' = [booking |-> b.id, in |-> b.in, out |-> b.out]
    BY <1>1, <1>2 DEF C!PaymentMade, BookedAs
  <1>4. b.charged > 0 /\ b.st # "pending"
    BY <1>1, <1>2 DEF BookedAs
  <1>5. Still /\ attempts' = attempts \ {a} /\ place' = "confirmation"
    BY DEF C!PaymentMade, C!userVars, C!countVars, Still
  <1>6. Confirmed'
    BY <1>3, <1>4, <1>5 DEF Confirmed, Still
  <1>7. Waiting'
    BY <1>5 DEF Waiting, C!Mine
  <1>8. CountsTyped' /\ AttemptsTyped' /\ BookingsTyped' /\ Linked' /\ Newest' /\ Looked'
    BY <1>5, Forgotten, MovesTyped, MovesLinked, MovesLooked
  <1>9. QED
    BY <1>2, <1>3, <1>4, <1>6, <1>7, <1>8 DEF HoldInv

LEMMA HoldFails ==
    ASSUME HoldInv, NEW a \in attempts, C!AttemptFails(a)
    PROVE  HoldInv' /\ attempts \ {a} \subseteq attempts'
  <1>1. PICK n : n = [a EXCEPT !.awaited = FALSE]
    OBVIOUS
  <1>2. a \in Attempt /\ a.awaited /\ AttemptGood(a) /\ TryGood(a)
    BY TryFacts DEF C!AttemptFails
  <1>3. n \in Attempt
    BY <1>1, <1>2 DEF Attempt
  <1>4. /\ SameTry(a, n) /\ n.at = a.at /\ n.booking = a.booking /\ ~ n.awaited
        /\ n.saw = a.saw /\ n.night = a.night
    BY <1>1, <1>2 DEF Attempt, SameTry
  <1>5. AttemptGood(n)
    BY <1>2, <1>4 DEF AttemptGood, BookedAs, Unbooked, SameTry
  <1>6. LookedWell(n)
    BY <1>2, <1>4 DEF LookedWell, SameTry, TryGood, HoldInv, Looked, Checked
  <1>7. C!Becomes(a, n)
    BY <1>1 DEF C!AttemptFails
  <1>8. Moves(a, n)
    BY <1>3, <1>4, <1>5, <1>6, <1>7, BecomesMoves DEF Moves
  <1>9. Still /\ UNCHANGED <<place, confirmation>>
    BY DEF C!AttemptFails, C!userVars, C!countVars, Still
  <1>10. Confirmed'
    BY <1>9 DEF HoldInv, Confirmed, Still
  <1>11. ASSUME NEW x \in attempts', C!Mine(x)', x.awaited
         PROVE  loading'
    <2>1. x \in attempts /\ x # a
      BY <1>4, <1>8, <1>11 DEF Moves
    <2>2. C!Mine(x) /\ loading
      BY <1>9, <1>11, <2>1 DEF HoldInv, Waiting, C!Mine, Still
    <2>3. CASE C!Mine(a)
      <3>1. x.visit = a.visit
        BY <2>2, <2>3 DEF C!Mine
      <3>2. x.no <= a.no /\ a.no <= x.no /\ x.no \in Int /\ a.no \in Int
        BY <1>2, <1>11, <2>1, <3>1, TryFacts DEF HoldInv, Newest
      <3>3. x.no = a.no
        BY <3>2
      <3>4. QED
        BY <2>1, <3>3, OneTry
    <2>4. CASE ~ C!Mine(a)
      BY <2>2, <2>4 DEF C!AttemptFails
    <2>5. QED
      BY <2>3, <2>4
  <1>12. CountsTyped' /\ AttemptsTyped' /\ BookingsTyped' /\ Linked' /\ Newest' /\ Looked'
    BY <1>8, <1>9, MovesTyped, MovesLinked, MovesLooked
  <1>13. QED
    BY <1>7, <1>10, <1>11, <1>12, BecomesMoves DEF HoldInv, Waiting

-----------------------------------------------------------------------------
(* The steps that change the bookings. *)

LEMMA HoldInsert ==
    ASSUME HoldInv, NEW a \in attempts, C!Insert(a)
    PROVE  /\ HoldInv' /\ attempts \ {a} \subseteq attempts'
           /\ a.awaited => \E n \in attempts' : n.awaited /\ n.booking = a.no
           /\ \E c \in Booking : c.id = a.no /\ c.charged = 0 /\ bookings' = bookings \cup {c}
  <1>1. /\ a \in Attempt /\ a.at = "checked" /\ Unbooked(a) /\ TryGood(a) /\ a.visit <= visit
        /\ a.no \in Int /\ a.visit \in Int /\ a.in \in Int /\ a.out \in Int /\ a.saw \subseteq Int
    BY TryFacts DEF C!Insert, AttemptGood
  <1>2. PICK n : n = [a EXCEPT !.at = "booked", !.booking = a.no]
    OBVIOUS
  <1>3. n \in Attempt
    BY <1>1, <1>2 DEF Attempt, Ats
  <1>4. SameTry(a, n) /\ n.at = "booked" /\ n.booking = a.no /\ n.awaited = a.awaited
    BY <1>1, <1>2 DEF Attempt, SameTry
  <1>5. C!Becomes(a, n)
    BY <1>2 DEF C!Insert
  <1>6. /\ attempts' \subseteq (attempts \ {a}) \cup {n} /\ attempts \ {a} \subseteq attempts'
        /\ n.awaited => n \in attempts'
    BY <1>5, BecomesMoves
  <1>7. PICK p : p = (a.out - a.in) * a.night
    OBVIOUS
  <1>8. /\ p \in Int /\ p > 0 /\ a.in < a.out
        /\ a.rooms = 1 /\ a.night = a.quoted => p = a.shown
    <2>1. a.in < a.out /\ a.night \in {1, 2} /\ a.rooms = 1 => a.shown = C!nights(a.in, a.out) * a.quoted
      BY <1>1 DEF TryGood
    <2>2. a.in < a.out /\ (a.night = 1 \/ a.night = 2)
          /\ (a.rooms = 1 => a.shown = C!nights(a.in, a.out) * a.quoted)
      BY <1>1 DEF TryGood
    <2>3. C!nights(a.in, a.out) = a.out - a.in
      BY <1>1, <2>2 DEF C!nights
    <2>4. CASE a.night = 1
      BY <1>1, <1>7, <2>2, <2>3, <2>4
    <2>5. CASE a.night = 2
      BY <1>1, <1>7, <2>2, <2>3, <2>5
    <2>6. QED
      BY <2>2, <2>4, <2>5
  <1>9. PICK c : c = C!Booked(a)
    OBVIOUS
  <1>10. c \in Booking
    BY <1>1, <1>7, <1>8, <1>9 DEF C!Booked, Booking, Attempt
  <1>11. /\ c.id = a.no /\ c.visit = a.visit /\ c.in = a.in /\ c.out = a.out /\ c.st = "pending"
         /\ c.price = p /\ c.charged = 0 /\ c.saw = a.saw /\ c.rooms = a.rooms
         /\ c.night = a.night /\ c.quoted = a.quoted /\ c.shown = a.shown
    BY <1>7, <1>9 DEF C!Booked
  <1>12. bookings' = bookings \cup {c}
    BY <1>9 DEF C!Insert
  <1>13. UNCHANGED <<place, loading, confirmation, visit, tried, counter, roomCount, quoted, rate>>
    BY DEF C!Insert, C!serverKeeps, C!userVars, C!countVars
  <1>14. \A b \in bookings : b.id # a.no
    BY <1>1 DEF Unbooked
  <1>15. BookingsTyped'
    <2>1. BookingGood(c)
      BY <1>1, <1>8, <1>11 DEF BookingGood, TryGood
    <2>2. \A b \in bookings' : BookingGood(b)'
      BY <1>12, <1>13, <2>1 DEF HoldInv, BookingsTyped, BookingGood
    <2>3. bookings' \subseteq Booking
      BY <1>10, <1>12 DEF HoldInv, BookingsTyped
    <2>4. \A b, d \in bookings' : b.id = d.id => b = d
      BY <1>11, <1>12, <1>14 DEF HoldInv, BookingsTyped
    <2>5. QED
      BY <2>2, <2>3, <2>4 DEF BookingsTyped
  <1>16. AttemptsTyped' /\ CountsTyped'
    <2>1. TryGood(n)
      BY <1>1, <1>4 DEF TryGood, SameTry
    <2>2. \A x \in attempts' : TryGood(x)'
      BY <1>6, <1>13, <2>1 DEF HoldInv, AttemptsTyped, TryGood
    <2>3. \A x, y \in attempts' : x.no = y.no => x = y
      BY <1>4, <1>6 DEF HoldInv, AttemptsTyped, SameTry
    <2>4. QED
      BY <1>3, <1>6, <1>13, <2>2, <2>3 DEF HoldInv, AttemptsTyped, CountsTyped
  <1>17. Linked'
    <2>1. AttemptGood(n)'
      BY <1>4, <1>11, <1>12 DEF AttemptGood, BookedAs, SameTry
    <2>2. ASSUME NEW x \in attempts, x # a
          PROVE  AttemptGood(x)'
      <3>1. AttemptGood(x) /\ x.no # a.no
        BY <2>2, TryFacts, OneTry
      <3>2. QED
        BY <1>11, <1>12, <3>1 DEF AttemptGood, Unbooked, BookedAs
    <2>3. QED
      BY <1>6, <2>1, <2>2 DEF Linked
  <1>18. Newest'
    <2>1. ASSUME NEW x \in attempts', x.awaited
          PROVE  \E y \in attempts : y.no = x.no /\ y.visit = x.visit /\ y.awaited
      BY <1>4, <1>6, <2>1 DEF SameTry
    <2>2. ASSUME NEW x \in attempts'
          PROVE  \E y \in attempts : y.no = x.no /\ y.visit = x.visit
      BY <1>4, <1>6 DEF SameTry
    <2>3. QED
      BY <1>11, <1>12, <2>1, <2>2 DEF HoldInv, Newest
  <1>19. Waiting'
    BY <1>4, <1>6, <1>13 DEF HoldInv, Waiting, C!Mine, SameTry
  <1>20. Confirmed'
    BY <1>12, <1>13 DEF HoldInv, Confirmed
  <1>21. Looked'
    <2>1. ASSUME NEW b \in bookings, Hopeful(b)'
          PROVE  Hopeful(b)
      BY <1>4, <1>6, <2>1 DEF Hopeful
    <2>2. ~ Hopeful(c)'
      <3>1. ASSUME NEW x \in attempts', x.at \in {"pay", "loaded"}, x.booking = c.id
            PROVE  FALSE
        <4>1. x \in attempts /\ x # a
          BY <1>4, <1>6, <3>1
        <4>2. x.no = a.no
          BY <1>11, <3>1, <4>1, TryFacts DEF AttemptGood
        <4>3. QED
          BY <4>1, <4>2, OneTry
      <3>2. QED
        BY <1>11, <3>1 DEF Hopeful
    <2>3. ASSUME NEW x \in Checked'
          PROVE  x \in Checked
      BY <1>4, <1>6 DEF Checked
    <2>4. a \in Checked
      BY <1>1 DEF Checked
    <2>5. ASSUME NEW b \in bookings, NEW d \in bookings
          PROVE  LookGood(b, d.id, d.visit, d.in, d.out, d.saw)'
      BY <2>1 DEF HoldInv, Looked, LookGood
    <2>6. ASSUME NEW b \in bookings
          PROVE  LookGood(b, c.id, c.visit, c.in, c.out, c.saw)'
      BY <1>11, <2>1, <2>4 DEF HoldInv, Looked, LookGood
    <2>7. ASSUME NEW b \in bookings, NEW x \in Checked'
          PROVE  LookGood(b, x.no, x.visit, x.in, x.out, x.saw)'
      BY <2>1, <2>3 DEF HoldInv, Looked, LookGood
    <2>8. ASSUME NEW x \in Checked'
          PROVE  c.id \notin x.saw
      BY <1>11, <1>14, <2>3 DEF HoldInv, Looked
    <2>9. ASSUME NEW d \in bookings
          PROVE  c.id \notin d.saw
      BY <1>11, <1>14 DEF HoldInv, Looked
    <2>10. c.id \notin c.saw
      BY <1>11, <1>14, <2>4 DEF HoldInv, Looked
    <2>11. ASSUME NEW d \in bookings'
           PROVE  LookGood(c, d.id, d.visit, d.in, d.out, d.saw)'
      BY <1>12, <2>2, <2>9, <2>10 DEF LookGood
    <2>12. ASSUME NEW x \in Checked'
           PROVE  LookGood(c, x.no, x.visit, x.in, x.out, x.saw)'
      BY <2>2, <2>8 DEF LookGood
    <2>13. \A x \in Checked' : \A i \in x.saw : \E b \in bookings' : b.id = i
      BY <1>12, <2>3 DEF HoldInv, Looked
    <2>14. \A d \in bookings' : \A i \in d.saw : \E b \in bookings' : b.id = i
      BY <1>11, <1>12, <2>4 DEF HoldInv, Looked
    <2>15. \A b \in bookings' : \A x \in Checked' : LookGood(b, x.no, x.visit, x.in, x.out, x.saw)'
      BY <1>12, <2>7, <2>12
    <2>16. \A b, d \in bookings' : LookGood(b, d.id, d.visit, d.in, d.out, d.saw)'
      BY <1>12, <2>5, <2>6, <2>11
    <2>17. QED
      BY <2>13, <2>14, <2>15, <2>16 DEF Looked
  <1>22. HoldInv'
    BY <1>15, <1>16, <1>17, <1>18, <1>19, <1>20, <1>21 DEF HoldInv
  <1>23. QED
    BY <1>4, <1>6, <1>10, <1>11, <1>12, <1>22

SameRow(b, d) ==
    /\ d.id = b.id /\ d.visit = b.visit /\ d.in = b.in /\ d.out = b.out /\ d.price = b.price
    /\ d.rooms = b.rooms /\ d.night = b.night /\ d.quoted = b.quoted /\ d.shown = b.shown
    /\ d.saw = b.saw
    /\ b.charged > 0 => d.charged > 0
    /\ b.st = "cancelled" \/ b.revived => d.st = "cancelled" \/ d.revived

LEMMA RowMoves ==
    ASSUME HoldInv, NEW b \in bookings, NEW d \in Booking, SameRow(b, d), d.charged \in {0, d.price},
           d.charged > 0 => Hopeful(b),
           bookings' = (bookings \ {b}) \cup {d},
           \A x \in attempts' : x.at \in {"checked", "pay", "loaded"} => x \in attempts,
           UNCHANGED <<visit, tried, place, confirmation>>
    PROVE  BookingsTyped' /\ Looked' /\ Confirmed'
  <1>1. BookingsTyped'
    <2>1. BookingGood(d)
      BY BookingFacts DEF BookingGood, SameRow
    <2>2. \A x \in bookings' : BookingGood(x)'
      BY <2>1 DEF HoldInv, BookingsTyped, BookingGood
    <2>3. \A x, y \in bookings' : x.id = y.id => x = y
      BY DEF HoldInv, BookingsTyped, SameRow
    <2>4. QED
      BY <2>2, <2>3 DEF HoldInv, BookingsTyped
  <1>2. ASSUME NEW x \in bookings'
        PROVE  \E y \in bookings :
                 /\ y.id = x.id /\ y.visit = x.visit /\ y.in = x.in /\ y.out = x.out /\ y.saw = x.saw
                 /\ y.charged > 0 => x.charged > 0
                 /\ y.st = "cancelled" \/ y.revived => x.st = "cancelled" \/ x.revived
                 /\ Hopeful(x)' => Hopeful(y)
    <2>1. CASE x \in bookings
      <3>1. Hopeful(x)' => Hopeful(x)
        BY DEF Hopeful
      <3>2. QED
        BY <2>1, <3>1
    <2>2. CASE x = d
      <3>1. Hopeful(x)' => Hopeful(b)
        BY <2>2 DEF Hopeful, SameRow
      <3>2. QED
        BY <2>2, <3>1 DEF SameRow
    <2>3. QED
      BY <2>1, <2>2
  <1>3. ASSUME NEW y \in bookings
        PROVE  \E x \in bookings' : /\ x.id = y.id /\ x.in = y.in /\ x.out = y.out
                                    /\ y.charged > 0 => x.charged > 0
    BY DEF SameRow
  <1>4. Confirmed'
    BY <1>3 DEF HoldInv, Confirmed
  <1>5. ASSUME NEW x \in Checked'
        PROVE  x \in Checked
    BY DEF Checked
  <1>6. ASSUME NEW x \in bookings', NEW z \in bookings'
        PROVE  LookGood(x, z.id, z.visit, z.in, z.out, z.saw)'
    <2>1. PICK y \in bookings :
                 /\ y.id = x.id /\ y.visit = x.visit /\ y.in = x.in /\ y.out = x.out
                 /\ y.st = "cancelled" \/ y.revived => x.st = "cancelled" \/ x.revived
                 /\ Hopeful(x)' => Hopeful(y)
      BY <1>2
    <2>2. PICK w \in bookings :
                 /\ w.id = z.id /\ w.visit = z.visit /\ w.in = z.in /\ w.out = z.out /\ w.saw = z.saw
      BY <1>2
    <2>3. LookGood(y, w.id, w.visit, w.in, w.out, w.saw)
      BY DEF HoldInv, Looked
    <2>4. QED
      BY <2>1, <2>2, <2>3 DEF LookGood
  <1>7. ASSUME NEW x \in bookings', NEW z \in Checked'
        PROVE  LookGood(x, z.no, z.visit, z.in, z.out, z.saw)'
    <2>1. PICK y \in bookings :
                 /\ y.id = x.id /\ y.visit = x.visit /\ y.in = x.in /\ y.out = x.out
                 /\ y.st = "cancelled" \/ y.revived => x.st = "cancelled" \/ x.revived
                 /\ Hopeful(x)' => Hopeful(y)
      BY <1>2
    <2>2. LookGood(y, z.no, z.visit, z.in, z.out, z.saw)
      BY <1>5 DEF HoldInv, Looked
    <2>3. QED
      BY <2>1, <2>2 DEF LookGood
  <1>8. ASSUME NEW z \in bookings', NEW i \in z.saw
        PROVE  \E x \in bookings' : x.id = i
    <2>1. PICK w \in bookings : w.saw = z.saw
      BY <1>2
    <2>2. PICK y \in bookings : y.id = i
      BY <2>1 DEF HoldInv, Looked
    <2>3. QED
      BY <1>3, <2>2
  <1>9. ASSUME NEW z \in Checked', NEW i \in z.saw
        PROVE  \E x \in bookings' : x.id = i
    <2>1. PICK y \in bookings : y.id = i
      BY <1>5 DEF HoldInv, Looked
    <2>2. QED
      BY <1>3, <2>1
  <1>10. QED
    BY <1>1, <1>4, <1>6, <1>7, <1>8, <1>9 DEF Looked

LEMMA HoldCancelled ==
    ASSUME HoldInv, NEW b \in bookings, C!Cancelled(b)
    PROVE  HoldInv' /\ \E d \in Booking : SameRow(b, d) /\ d.st = "cancelled" /\ d.charged = b.charged
                                          /\ d.revived = b.revived
                                          /\ bookings' = (bookings \ {b}) \cup {d}
  <1>1. PICK d : d = [b EXCEPT !.st = "cancelled"]
    OBVIOUS
  <1>2. b \in Booking /\ BookingGood(b)
    BY BookingFacts
  <1>3. d \in Booking
    BY <1>1, <1>2 DEF Booking
  <1>4. SameRow(b, d) /\ d.st = "cancelled" /\ d.charged = b.charged /\ d.revived = b.revived
    BY <1>1, <1>2 DEF Booking, SameRow
  <1>5. bookings' = (bookings \ {b}) \cup {d}
    BY <1>1 DEF C!Cancelled
  <1>6. UNCHANGED <<place, loading, confirmation, visit, tried, counter, roomCount, quoted, rate, attempts>>
    BY DEF C!Cancelled, C!userVars, C!countVars
  <1>7. d.charged \in {0, d.price} /\ (d.charged > 0 => Hopeful(b))
    BY <1>2, <1>4 DEF BookingGood, SameRow, Hopeful
  <1>8. BookingsTyped' /\ Looked' /\ Confirmed'
    BY <1>3, <1>4, <1>5, <1>6, <1>7, RowMoves
  <1>9. CountsTyped' /\ AttemptsTyped' /\ Waiting'
    BY <1>6 DEF HoldInv, CountsTyped, AttemptsTyped, TryGood, Waiting, C!Mine
  <1>10. Newest'
    BY <1>4, <1>5, <1>6 DEF HoldInv, Newest, SameRow
  <1>11. Linked'
    BY <1>4, <1>5, <1>6 DEF HoldInv, Linked, AttemptGood, Unbooked, BookedAs, SameRow
  <1>12. QED
    BY <1>3, <1>4, <1>5, <1>8, <1>9, <1>10, <1>11 DEF HoldInv

LEMMA HoldCharge ==
    ASSUME HoldInv, NEW a \in attempts, C!Charge(a)
    PROVE  /\ HoldInv' /\ attempts \ {a} \subseteq attempts' /\ a.booking = a.no
           /\ \E b \in bookings, d \in Booking :
                /\ SameRow(b, d) /\ d.charged = d.price /\ bookings' = (bookings \ {b}) \cup {d}
                /\ b.id = a.no /\ (d.st = "pending" => b.st = "pending")
                /\ d.st = "pending" /\ a.awaited => \E n \in attempts' : n.awaited /\ n.booking = b.id
  <1>1. /\ a \in Attempt /\ a.at = "loaded" /\ a.booking = a.no /\ \E b \in bookings : BookedAs(a, b)
        /\ a.no \in Int
    BY TryFacts DEF C!Charge, AttemptGood
  <1>2. PICK b \in bookings, dies \in BOOLEAN :
            /\ b.id = a.booking
            /\ C!Becomes(a, [a EXCEPT !.at = IF dies THEN "failed" ELSE "paid"])
            /\ bookings' = (bookings \ {b}) \cup
                 {IF dies THEN [b EXCEPT !.charged = @ + b.price]
                  ELSE [b EXCEPT !.charged = @ + b.price, !.st = "confirmed",
                                 !.revived = @ \/ b.st = "cancelled"]}
    BY DEF C!Charge
  <1>3. BookedAs(a, b)
    <2>1. PICK c \in bookings : BookedAs(a, c)
      BY <1>1
    <2>2. c.id = b.id
      BY <1>1, <1>2, <2>1 DEF BookedAs
    <2>3. QED
      BY <2>1, <2>2, OneBooking
  <1>4. b \in Booking /\ b.charged = 0 /\ b.price \in Int /\ b.price > 0 /\ b.revived \in BOOLEAN
    BY <1>1, <1>3, BookingFacts DEF BookedAs
  <1>5. PICK n : n = [a EXCEPT !.at = IF dies THEN "failed" ELSE "paid"]
    OBVIOUS
  <1>6. n \in Attempt
    BY <1>1, <1>5 DEF Attempt, Ats
  <1>7. SameTry(a, n) /\ n.at = (IF dies THEN "failed" ELSE "paid") /\ n.booking = a.booking
        /\ n.awaited = a.awaited
    BY <1>1, <1>5 DEF Attempt, SameTry
  <1>8. /\ attempts' \subseteq (attempts \ {a}) \cup {n} /\ attempts \ {a} \subseteq attempts'
        /\ n.awaited => n \in attempts'
    <2>1. C!Becomes(a, n)
      BY <1>2, <1>5
    <2>2. QED
      BY <2>1, BecomesMoves
  <1>9. PICK d : d = IF dies THEN [b EXCEPT !.charged = @ + b.price]
                     ELSE [b EXCEPT !.charged = @ + b.price, !.st = "confirmed",
                                    !.revived = @ \/ b.st = "cancelled"]
    OBVIOUS
  <1>10. b.charged + b.price = b.price
    BY <1>4
  <1>11. PICK back \in BOOLEAN : back = (b.revived \/ b.st = "cancelled")
    BY <1>4
  <1>12. d = IF dies THEN [b EXCEPT !.charged = b.price]
             ELSE [b EXCEPT !.charged = b.price, !.st = "confirmed", !.revived = back]
    BY <1>9, <1>10, <1>11
  <1>13. d \in Booking
    BY <1>4, <1>12 DEF Booking
  <1>14. /\ SameRow(b, d) /\ d.charged = d.price /\ d.charged > 0
         /\ d.st = IF dies THEN b.st ELSE "confirmed"
    <2>1. CASE dies
      BY <1>4, <1>12, <2>1 DEF Booking, SameRow
    <2>2. CASE ~ dies
      BY <1>4, <1>11, <1>12, <2>2 DEF Booking, SameRow
    <2>3. QED
      BY <2>1, <2>2
  <1>15. bookings' = (bookings \ {b}) \cup {d}
    BY <1>2, <1>9
  <1>16. UNCHANGED <<place, loading, confirmation, visit, tried, counter, roomCount, quoted, rate>>
    BY DEF C!Charge, C!serverKeeps, C!userVars, C!countVars
  <1>17. Hopeful(b)
    BY <1>1, <1>2 DEF Hopeful
  <1>18. \A x \in attempts' : x.at \in {"checked", "pay", "loaded"} => x \in attempts
    BY <1>7, <1>8
  <1>19. BookingsTyped' /\ Looked' /\ Confirmed'
    BY <1>13, <1>14, <1>15, <1>16, <1>17, <1>18, RowMoves
  <1>20. AttemptsTyped' /\ CountsTyped'
    <2>1. TryGood(n)
      BY <1>7, TryFacts DEF TryGood, SameTry
    <2>2. \A x \in attempts' : TryGood(x)'
      BY <1>8, <1>16, <2>1 DEF HoldInv, AttemptsTyped, TryGood
    <2>3. \A x, y \in attempts' : x.no = y.no => x = y
      BY <1>7, <1>8 DEF HoldInv, AttemptsTyped, SameTry
    <2>4. QED
      BY <1>6, <1>8, <1>16, <2>2, <2>3 DEF HoldInv, AttemptsTyped, CountsTyped
  <1>21. Linked'
    <2>1. AttemptGood(n)'
      BY <1>1, <1>3, <1>7, <1>14, <1>15 DEF AttemptGood, BookedAs, SameTry, SameRow
    <2>2. ASSUME NEW x \in attempts, x # a
          PROVE  AttemptGood(x)'
      <3>1. AttemptGood(x) /\ x.no # b.id
        BY <1>1, <1>2, <2>2, TryFacts, OneTry
      <3>2. QED
        BY <1>14, <1>15, <3>1 DEF AttemptGood, Unbooked, BookedAs, SameRow
    <2>3. QED
      BY <1>8, <2>1, <2>2 DEF Linked
  <1>22. Newest'
    <2>1. ASSUME NEW x \in attempts', x.awaited
          PROVE  \E y \in attempts : y.no = x.no /\ y.visit = x.visit /\ y.awaited
      BY <1>7, <1>8, <2>1 DEF SameTry
    <2>2. ASSUME NEW x \in attempts'
          PROVE  \E y \in attempts : y.no = x.no /\ y.visit = x.visit
      BY <1>7, <1>8 DEF SameTry
    <2>3. ASSUME NEW x \in bookings'
          PROVE  \E y \in bookings : y.id = x.id /\ y.visit = x.visit
      BY <1>14, <1>15 DEF SameRow
    <2>4. QED
      BY <2>1, <2>2, <2>3 DEF HoldInv, Newest
  <1>23. Waiting'
    BY <1>7, <1>8, <1>16 DEF HoldInv, Waiting, C!Mine, SameTry
  <1>24. HoldInv'
    BY <1>19, <1>20, <1>21, <1>22, <1>23 DEF HoldInv
  <1>25. d.st = "pending" /\ a.awaited => \E x \in attempts' : x.awaited /\ x.booking = b.id
    BY <1>2, <1>7, <1>8
  <1>26. QED
    BY <1>1, <1>2, <1>8, <1>13, <1>14, <1>15, <1>24, <1>25

-----------------------------------------------------------------------------
(* The rest of what the guest does touches no try and no booking. *)
LEMMA HoldKept ==
    ASSUME HoldInv, CountsTyped', Waiting', UNCHANGED <<attempts, bookings, tried>>, visit <= visit',
           place' = "confirmation" => place = "confirmation" /\ confirmation' = confirmation
    PROVE  HoldInv'
  <1>1. visit \in Int /\ visit' \in Int
    BY DEF HoldInv, CountsTyped
  <1>2. ASSUME NEW a \in attempts
        PROVE  TryGood(a)'
    <2>1. a.visit <= visit /\ a.visit \in Int /\ TryGood(a)
      BY TryFacts
    <2>2. a.visit <= visit'
      BY <1>1, <2>1
    <2>3. QED
      BY <2>1, <2>2 DEF TryGood
  <1>3. ASSUME NEW b \in bookings
        PROVE  BookingGood(b)'
    <2>1. b.visit <= visit /\ b.visit \in Int /\ BookingGood(b)
      BY BookingFacts
    <2>2. b.visit <= visit'
      BY <1>1, <2>1
    <2>3. QED
      BY <2>1, <2>2 DEF BookingGood
  <1>4. AttemptsTyped' /\ BookingsTyped'
    BY <1>2, <1>3 DEF HoldInv, AttemptsTyped, BookingsTyped
  <1>5. Linked' /\ Newest' /\ Confirmed'
    BY DEF HoldInv, Linked, AttemptGood, Unbooked, BookedAs, Newest, Confirmed
  <1>6. Looked'
    BY DEF HoldInv, Looked, LookGood, Hopeful, Checked
  <1>7. QED
    BY <1>4, <1>5, <1>6 DEF HoldInv

LEMMA HoldConfirm ==
    ASSUME StayInv, HoldInv, C!Confirm
    PROVE  /\ HoldInv' /\ attempts \subseteq attempts'
           /\ UNCHANGED <<bookings, place, confirmation>>
  <1> USE NoneAssumption
  <1>1. /\ UNCHANGED <<bookings, place, confirmation, visit, counter, roomCount, quoted, rate>>
        /\ CountsTyped'
    BY DEF C!Confirm, C!userVars, C!countVars, HoldInv, CountsTyped
  <1>2. CASE ~ cardOk
    <2>1. UNCHANGED <<tried, attempts, loading>>
      BY <1>2 DEF C!Confirm
    <2>2. visit <= visit' /\ Waiting'
      BY <1>1, <2>1 DEF HoldInv, Waiting, C!Mine, CountsTyped
    <2>3. QED
      BY <1>1, <2>1, <2>2, HoldKept
  <1>3. CASE cardOk
    <2>1. PICK r : r = [no |-> tried + 1, visit |-> visit, at |-> "book", awaited |-> TRUE,
                        in |-> checkIn, out |-> checkOut, rooms |-> roomCount, quoted |-> quoted,
                        shown |-> C!total, saw |-> {}, night |-> 0, booking |-> None]
      OBVIOUS
    <2>2. attempts' = attempts \cup {r} /\ tried' = tried + 1 /\ loading' = TRUE
      BY <1>3, <2>1 DEF C!Confirm
    <2>3. /\ checkIn \in Int /\ checkOut \in Int /\ tried \in Nat
          /\ visit \in Int /\ roomCount \in Int /\ quoted \in Int
          /\ place = "booking" /\ ~ loading
      BY DEF C!Confirm, StayInv, StayTyped, Chosen, HoldInv, AttemptsTyped, CountsTyped
    <2>4. PICK k : k = C!nights(checkIn, checkOut)
      OBVIOUS
    <2>5. k \in Int
      BY <2>3, <2>4 DEF C!nights
    <2>6. C!total = k * roomCount * quoted
      BY <2>4 DEF C!total
    <2>7. C!total \in Int
      BY <2>3, <2>5, <2>6
    <2>8. roomCount = 1 => C!total = k * quoted
      BY <2>3, <2>5, <2>6
    <2>9. r \in Attempt
      BY <2>1, <2>3, <2>7 DEF Attempt, Ats
    <2>10. /\ r.no = tried + 1 /\ r.at = "book" /\ r.awaited /\ r.visit = visit
           /\ r.booking = None /\ r.in = checkIn /\ r.out = checkOut /\ r.quoted = quoted
           /\ r.shown = C!total /\ r.rooms = roomCount
      BY <2>1
    <2>11. r.rooms = 1 => r.shown = C!nights(r.in, r.out) * r.quoted
      BY <2>4, <2>8, <2>10
    <2>12. AttemptsTyped'
      <3>1. attempts' \subseteq Attempt /\ tried' \in Nat
        BY <2>2, <2>3, <2>9 DEF HoldInv, AttemptsTyped
      <3>2. \A x, y \in attempts' : x.no = y.no => x = y
        BY <2>2, <2>3, <2>10 DEF HoldInv, AttemptsTyped, TryGood
      <3>3. ASSUME NEW x \in attempts PROVE TryGood(x)'
        <4>1. TryGood(x)
          BY TryFacts
        <4>2. x.no \in 1..tried'
          BY <2>2, <2>3, <4>1 DEF TryGood
        <4>3. QED
          BY <1>1, <4>1, <4>2 DEF TryGood
      <3>4. TryGood(r)'
        <4>1. r.no \in 1..tried' /\ r.visit <= visit'
          BY <1>1, <2>2, <2>3, <2>10
        <4>2. QED
          BY <2>10, <2>11, <4>1 DEF TryGood
      <3>5. QED
        BY <2>2, <3>1, <3>2, <3>3, <3>4 DEF AttemptsTyped
    <2>13. BookingsTyped'
      <3>1. ASSUME NEW b \in bookings PROVE BookingGood(b)'
        <4>1. BookingGood(b) /\ b.id \in 1..tried'
          BY <2>2, <2>3, BookingFacts DEF BookingGood
        <4>2. QED
          BY <1>1, <4>1 DEF BookingGood
      <3>2. QED
        BY <1>1, <3>1 DEF HoldInv, BookingsTyped
    <2>14. ASSUME NEW x \in attempts' PROVE AttemptGood(x)'
      <3>1. CASE x = r
        <4>1. \A b \in bookings : b.id # r.no
          BY <2>3, <2>10, BookingFacts
        <4>2. QED
          BY <1>1, <2>10, <3>1, <4>1 DEF AttemptGood, Unbooked
      <3>2. CASE x \in attempts
        BY <1>1, <3>2 DEF HoldInv, Linked, AttemptGood, Unbooked, BookedAs
      <3>3. QED
        BY <2>2, <3>1, <3>2
    <2>15. Newest'
      <3>1. ASSUME NEW x \in attempts, x.visit = visit
            PROVE  ~ x.awaited /\ x.no <= r.no
        BY <2>3, <2>10, <3>1, TryFacts DEF HoldInv, Waiting, C!Mine
      <3>2. ASSUME NEW b \in bookings
            PROVE  b.id <= r.no
        BY <2>3, <2>10, BookingFacts
      <3>3. r.no <= r.no
        BY <2>3, <2>10
      <3>4. QED
        BY <1>1, <2>2, <2>10, <3>1, <3>2, <3>3 DEF HoldInv, Newest
    <2>16. Waiting' /\ Confirmed'
      BY <1>1, <2>2 DEF HoldInv, Waiting, Confirmed
    <2>17. Looked'
      <3>1. \A b \in bookings : Hopeful(b)' => Hopeful(b)
        BY <1>1, <2>2, <2>10 DEF Hopeful
      <3>2. Checked' = Checked
        BY <2>2, <2>10 DEF Checked
      <3>3. ASSUME NEW b \in bookings, NEW c \in bookings
            PROVE  LookGood(b, c.id, c.visit, c.in, c.out, c.saw)'
        BY <3>1 DEF HoldInv, Looked, LookGood
      <3>4. ASSUME NEW b \in bookings, NEW x \in Checked
            PROVE  LookGood(b, x.no, x.visit, x.in, x.out, x.saw)'
        BY <3>1 DEF HoldInv, Looked, LookGood
      <3>5. QED
        BY <1>1, <3>2, <3>3, <3>4 DEF HoldInv, Looked
    <2>18. QED
      BY <1>1, <2>2, <2>12, <2>13, <2>14, <2>15, <2>16, <2>17 DEF HoldInv, Linked
  <1>4. QED
    BY <1>2, <1>3

ElsewhereStep ==
    \/ UNCHANGED checkoutVars
    \/ C!ClearDays \/ C!CountDone \/ C!BookNow \/ C!Prompted \/ C!ToRoom \/ C!SignOut
    \/ C!NameGiven \/ C!TypeCard \/ C!Reprice
    \/ \E d \in 1..LastDay : C!PickDay(d)
    \/ \E n \in 1..MaxRooms : C!CountRooms(n)
    \/ \E n \in 1..3 : C!ToStep(n)

LEMMA HoldElsewhere ==
    ASSUME StayInv, HoldInv, ElsewhereStep
    PROVE  HoldInv' /\ UNCHANGED <<attempts, bookings, confirmation>>
           /\ (place' = "confirmation" => place = "confirmation")
  <1>1. /\ visit \in Int /\ counter \in Int /\ roomCount \in Int
        /\ quoted \in Int /\ rate \in {1, 2} /\ rate \in Int
    BY DEF HoldInv, CountsTyped
  <1>2. UNCHANGED <<attempts, bookings, tried, confirmation>>
    BY DEF ElsewhereStep, checkoutVars, C!ClearDays, C!CountDone, C!BookNow, C!Prompted, C!ToRoom,
           C!SignOut, C!NameGiven, C!TypeCard, C!Reprice, C!PickDay, C!CountRooms, C!ToStep
  <1>3. place' = "confirmation" => place = "confirmation"
    BY DEF ElsewhereStep, checkoutVars, C!ClearDays, C!CountDone, C!BookNow, C!Prompted, C!ToRoom,
           C!SignOut, C!NameGiven, C!TypeCard, C!Reprice, C!PickDay, C!CountRooms, C!ToStep
  <1>4. quoted' \in {quoted, rate} /\ rate' \in {1, 2}
    BY <1>1 DEF ElsewhereStep, checkoutVars, C!ClearDays, C!CountDone, C!BookNow, C!Prompted, C!ToRoom,
           C!SignOut, C!NameGiven, C!TypeCard, C!Reprice, C!PickDay, C!CountRooms, C!ToStep, C!userVars
  <1>5. counter' \in Int /\ roomCount' \in Int
    <2>1. CASE \E n \in 1..MaxRooms : C!CountRooms(n)
      BY <1>1, <2>1, NoneAssumption DEF C!CountRooms
    <2>2. CASE ~ \E n \in 1..MaxRooms : C!CountRooms(n)
      BY <1>1, <2>2
      DEF ElsewhereStep, checkoutVars, C!ClearDays, C!CountDone, C!BookNow, C!Prompted, C!ToRoom,
          C!SignOut, C!NameGiven, C!TypeCard, C!Reprice, C!PickDay, C!ToStep, C!countVars
    <2>3. QED
      BY <2>1, <2>2
  <1>6. CASE C!BookNow
    <2>1. visit' = visit + 1
      BY <1>6 DEF C!BookNow
    <2>2. visit' \in Int /\ visit <= visit'
      BY <1>1, <2>1
    <2>3. Waiting'
      BY <1>1, <1>2, <2>1, TryFacts DEF Waiting, C!Mine
    <2>4. QED
      BY <1>1, <1>2, <1>3, <1>4, <1>5, <2>2, <2>3, HoldKept DEF CountsTyped
  <1>7. CASE ~ C!BookNow
    <2>1. /\ UNCHANGED <<visit, loading>>
          /\ place' = "booking" => place = "booking"
      BY <1>7 DEF ElsewhereStep, checkoutVars, C!ClearDays, C!CountDone, C!Prompted, C!ToRoom,
           C!SignOut, C!NameGiven, C!TypeCard, C!Reprice, C!PickDay, C!CountRooms, C!ToStep
    <2>2. visit' \in Int /\ visit <= visit'
      BY <1>1, <2>1
    <2>3. Waiting'
      BY <1>2, <2>1 DEF HoldInv, Waiting, C!Mine
    <2>4. QED
      BY <1>1, <1>2, <1>3, <1>4, <1>5, <2>2, <2>3, HoldKept DEF CountsTyped
  <1>8. QED
    BY <1>6, <1>7

LEMMA HoldInit ==
    ASSUME Init
    PROVE  HoldInv
  <1>1. /\ attempts = {} /\ bookings = {} /\ tried = 0 /\ visit = 0 /\ counter = 1
        /\ roomCount = 1 /\ place = "room" /\ quoted = 1 /\ rate \in {1, 2}
    BY DEF Init, C!CheckoutInit
  <1>2. QED
    BY <1>1 DEF HoldInv, CountsTyped, AttemptsTyped, BookingsTyped, Linked, Newest, Waiting, Looked,
                Checked, Confirmed

TryStep(a) ==
    \/ C!Query(a) \/ C!Insert(a) \/ C!LoadPayment(a) \/ C!Charge(a)
    \/ C!BookingMade(a) \/ C!PaymentMade(a) \/ C!AttemptFails(a) \/ C!CallEnds(a)

LEMMA CheckoutSteps ==
    ASSUME [Next]_vars
    PROVE  \/ ElsewhereStep \/ C!Confirm \/ (\E b \in bookings : C!Cancelled(b))
           \/ \E a \in attempts : TryStep(a)
  <1>1. C!CheckoutNext \/ UNCHANGED checkoutVars
    BY DEF Next, vars
  <1>2. QED
    BY <1>1 DEF C!CheckoutNext, ElsewhereStep, TryStep

LEMMA HoldNext ==
    ASSUME StayInv, HoldInv, [Next]_vars
    PROVE  HoldInv'
  BY CheckoutSteps, HoldElsewhere, HoldConfirm, HoldCancelled, HoldQuery, HoldInsert, HoldLoad,
     HoldCharge, HoldBooked, HoldPaid, HoldFails, HoldEnds DEF TryStep

HoldAction ==
    /\ \A b \in bookings' :
         C!Orphan(b, attempts') /\ ~(\E c \in bookings : c.id = b.id /\ C!Orphan(c, attempts)) =>
         \E a \in attempts :
             a.no = b.id /\ (a.awaited => place' = place /\ (C!Mine(a) => error' # None))
    /\ \A b \in C!Paid' :
         /\ b.charged = b.price
         /\ b.rooms = 1 /\ b.night = b.quoted => b.charged = b.shown
    /\ \A b, c \in (C!Paid \cap C!Live)' :
         C!Overlaps(b, c) => b = c \/ b.revived \/ c.revived \/ C!Unseen(b, c)
    /\ place' = "confirmation" => \E b \in C!Paid' :
         b.id = confirmation'.booking /\ b.in = confirmation'.in /\ b.out = confirmation'.out

(* A booking loses the try that would pay it only by a step of that try.   *)
LEMMA OrphanOf ==
    ASSUME HoldInv, NEW a \in attempts, attempts \ {a} \subseteq attempts', NEW b,
           C!Orphan(b, attempts'), ~ \E c \in bookings : c.id = b.id /\ C!Orphan(c, attempts),
           \E c \in bookings : c.id = b.id /\ c.st = "pending"
    PROVE  a.booking = b.id /\ a.no = b.id /\ C!Pays(a)
  <1>1. PICK c \in bookings : c.id = b.id /\ c.st = "pending"
    OBVIOUS
  <1>2. PICK x \in attempts : x.booking = b.id /\ C!Pays(x)
    BY <1>1 DEF C!Orphan
  <1>3. x = a
    BY <1>2 DEF C!Orphan
  <1>4. b.id \in Int
    BY <1>1, BookingFacts
  <1>5. QED
    BY <1>2, <1>3, <1>4, TryFacts, NoneAssumption

LEMMA OrphansOfTry ==
    ASSUME HoldInv, NEW a \in attempts, TryStep(a), NEW b \in bookings', C!Orphan(b, attempts'),
           ~ \E c \in bookings : c.id = b.id /\ C!Orphan(c, attempts)
    PROVE  a.no = b.id /\ (a.awaited => place' = place /\ (C!Mine(a) => error' # None))
  <1>1. b.st = "pending" /\ \A x \in attempts' : x.booking = b.id => ~ x.awaited
    BY DEF C!Orphan, C!Pays
  <1>2. CASE C!Query(a)
    <2>1. b \in bookings /\ attempts \ {a} \subseteq attempts' /\ a.at = "book"
      BY <1>2 DEF C!Query, C!Becomes
    <2>2. a.booking = b.id /\ a.no = b.id
      BY <1>1, <2>1, OrphanOf
    <2>3. QED
      BY <2>1, <2>2, TryFacts DEF AttemptGood, Unbooked
  <1>3. CASE C!LoadPayment(a) \/ C!BookingMade(a)
    <2>1. b \in bookings
      BY <1>3 DEF C!LoadPayment, C!BookingMade
    <2>2. PICK n \in Attempt : n.booking = a.booking /\ (a.awaited => n.awaited) /\ C!Becomes(a, n)
      BY <1>3, HoldLoad, HoldBooked
    <2>3. attempts \ {a} \subseteq attempts' /\ (n.awaited => n \in attempts')
      BY <2>2, BecomesMoves
    <2>4. a.booking = b.id /\ a.no = b.id
      BY <1>1, <2>1, <2>3, OrphanOf
    <2>5. QED
      BY <1>1, <2>2, <2>3, <2>4
  <1>4. CASE C!Insert(a)
    <2>1. PICK c \in Booking : c.id = a.no /\ bookings' = bookings \cup {c}
      BY <1>4, HoldInsert
    <2>2. attempts \ {a} \subseteq attempts'
      BY <1>4, HoldInsert
    <2>3. b.id = a.no
      BY <1>1, <2>1, <2>2, OrphanOf
    <2>4. ~ a.awaited
      BY <1>1, <1>4, <2>3, HoldInsert
    <2>5. QED
      BY <2>3, <2>4
  <1>5. CASE C!Charge(a)
    <2>1. attempts \ {a} \subseteq attempts'
      BY <1>5, HoldCharge
    <2>2. PICK c \in bookings, d \in Booking :
            /\ SameRow(c, d) /\ bookings' = (bookings \ {c}) \cup {d}
            /\ c.id = a.no /\ (d.st = "pending" => c.st = "pending")
            /\ d.st = "pending" /\ a.awaited => \E n \in attempts' : n.awaited /\ n.booking = c.id
      BY <1>5, HoldCharge
    <2>3. \E x \in bookings : x.id = b.id /\ x.st = "pending"
      BY <1>1, <2>2 DEF SameRow
    <2>4. a.no = b.id
      BY <2>1, <2>3, OrphanOf
    <2>5. d \in bookings' /\ d.id = b.id
      BY <2>2, <2>4 DEF SameRow
    <2>6. b = d
      BY <1>5, <2>5, HoldCharge DEF HoldInv, BookingsTyped
    <2>7. ~ a.awaited
      BY <1>1, <2>2, <2>4, <2>6
    <2>8. QED
      BY <2>4, <2>7
  <1>6. CASE C!PaymentMade(a)
    <2>1. b \in bookings /\ attempts' = attempts \ {a}
      BY <1>6 DEF C!PaymentMade
    <2>2. a.no = b.id
      BY <1>1, <2>1, OrphanOf
    <2>3. PICK c \in bookings : BookedAs(a, c) /\ c.st # "pending"
      BY <1>6, HoldPaid
    <2>4. c = b
      BY <2>1, <2>2, <2>3, OneBooking DEF BookedAs
    <2>5. QED
      BY <1>1, <2>3, <2>4
  <1>7. CASE C!AttemptFails(a)
    <2>1. b \in bookings /\ place' = place /\ (C!Mine(a) => error' # None)
      BY <1>7, NoneAssumption DEF C!AttemptFails
    <2>2. attempts \ {a} \subseteq attempts'
      BY <1>7, HoldFails
    <2>3. QED
      BY <1>1, <2>1, <2>2, OrphanOf
  <1>8. CASE C!CallEnds(a)
    <2>1. b \in bookings /\ attempts' = attempts \ {a} /\ ~ a.awaited
      BY <1>8 DEF C!CallEnds
    <2>2. QED
      BY <1>1, <2>1, OrphanOf
  <1>9. QED
    BY <1>2, <1>3, <1>4, <1>5, <1>6, <1>7, <1>8 DEF TryStep

LEMMA OrphansExplained ==
    ASSUME StayInv, HoldInv, [Next]_vars, NEW b \in bookings', C!Orphan(b, attempts'),
           ~ \E c \in bookings : c.id = b.id /\ C!Orphan(c, attempts)
    PROVE  \E a \in attempts :
             a.no = b.id /\ (a.awaited => place' = place /\ (C!Mine(a) => error' # None))
  <1>1. CASE ElsewhereStep \/ C!Confirm \/ \E c \in bookings : C!Cancelled(c)
    <2>1. attempts \subseteq attempts'
      BY <1>1, HoldElsewhere, HoldConfirm DEF C!Cancelled
    <2>2. b.st = "pending"
      BY DEF C!Orphan
    <2>3. b \in bookings
      <3>1. CASE ElsewhereStep \/ C!Confirm
        BY <3>1, HoldElsewhere, HoldConfirm
      <3>2. CASE \E c \in bookings : C!Cancelled(c)
        BY <2>2, <3>2, HoldCancelled
      <3>3. QED
        BY <1>1, <3>1, <3>2
    <2>4. C!Orphan(b, attempts)
      BY <2>1 DEF C!Orphan
    <2>5. QED
      BY <2>3, <2>4
  <1>2. CASE \E a \in attempts : TryStep(a)
    BY <1>2, OrphansOfTry
  <1>3. QED
    BY <1>1, <1>2, CheckoutSteps

(* Of two bookings for one night that are both paid and both stand, one    *)
(* was brought back, or neither was there when the server looked for the   *)
(* other, which was booked from another mount of the page.                 *)
LEMMA ClashesExplained ==
    ASSUME HoldInv, NEW b \in bookings, NEW c \in bookings, b.charged > 0, c.charged > 0,
           b.st # "cancelled", c.st # "cancelled", C!Overlaps(b, c)
    PROVE  b = c \/ b.revived \/ c.revived \/ C!Unseen(b, c)
  <1>1. /\ LookGood(b, c.id, c.visit, c.in, c.out, c.saw)
        /\ LookGood(c, b.id, b.visit, b.in, b.out, b.saw)
    BY DEF HoldInv, Looked
  <1>2. b.id \in c.saw => b.revived
    BY <1>1 DEF LookGood, C!Overlaps
  <1>3. c.id \in b.saw => c.revived
    BY <1>1 DEF LookGood, C!Overlaps
  <1>4. b.visit = c.visit /\ b.id < c.id => b.revived
    BY <1>1, <1>2 DEF LookGood, Hopeful
  <1>5. b.visit = c.visit /\ c.id < b.id => c.revived
    BY <1>1, <1>3 DEF LookGood, Hopeful
  <1>6. b.id = c.id \/ b.id < c.id \/ c.id < b.id
    BY BookingFacts
  <1>7. QED
    BY <1>2, <1>3, <1>4, <1>5, <1>6, OneBooking DEF C!Unseen

ChargesFine ==
    /\ \A b \in C!Paid :
         /\ b.charged = b.price
         /\ b.rooms = 1 /\ b.night = b.quoted => b.charged = b.shown
    /\ \A b, c \in C!Paid \cap C!Live :
         C!Overlaps(b, c) => b = c \/ b.revived \/ c.revived \/ C!Unseen(b, c)
    /\ place = "confirmation" => \E b \in C!Paid :
         b.id = confirmation.booking /\ b.in = confirmation.in /\ b.out = confirmation.out

LEMMA ChargesExplained ==
    ASSUME HoldInv
    PROVE  ChargesFine
  <1>1. ASSUME NEW b \in C!Paid
        PROVE  b \in bookings /\ b.charged > 0 /\ b.charged = b.price
               /\ (b.rooms = 1 /\ b.night = b.quoted => b.charged = b.shown)
    <2>1. b \in bookings /\ b.charged > 0
      BY DEF C!Paid
    <2>2. BookingGood(b)
      BY <2>1, BookingFacts
    <2>3. QED
      BY <2>1, <2>2 DEF BookingGood
  <1>2. ASSUME NEW b \in C!Paid \cap C!Live, NEW c \in C!Paid \cap C!Live, C!Overlaps(b, c)
        PROVE  b = c \/ b.revived \/ c.revived \/ C!Unseen(b, c)
    BY <1>1, <1>2, ClashesExplained DEF C!Live
  <1>3. place = "confirmation" => \E b \in C!Paid :
          b.id = confirmation.booking /\ b.in = confirmation.in /\ b.out = confirmation.out
    BY DEF HoldInv, Confirmed, C!Paid
  <1>4. QED
    BY <1>1, <1>2, <1>3 DEF ChargesFine

LEMMA HoldStep ==
    ASSUME StayInv, HoldInv, [Next]_vars
    PROVE  HoldAction
  <1>1. HoldInv'
    BY HoldNext
  <1>2. ChargesFine'
    BY <1>1, ChargesExplained, PTL
  <1>3. QED
    BY <1>2, OrphansExplained DEF HoldAction, ChargesFine

(* A booking that holds the room and that nobody is about to pay is left   *)
(* only by a step of its own try: by its failure, with the page saying so  *)
(* when it is still there, or by what the server did of it after it had    *)
(* been given up.  No guest pays twice for one booking, nor for one night  *)
(* unless a payment brought a cancelled booking back or the server looked  *)
(* for each of two bookings, made from two mounts of the page, before the  *)
(* other was there; nor other than what the page showed for one room at an *)
(* unchanged price; and the confirmation page shows a booking that was     *)
(* charged (Booking.jsx:92-126, user/bookings.py:39-63, payment.py:34-78,  *)
(* for any number of days, rooms, clicks and tries).                       *)
THEOREM HoldsAlwaysExplained == Spec => HoldsExplained
  <1>1. Init => StayInv /\ HoldInv
    BY StayInit, HoldInit
  <1>2. StayInv /\ HoldInv /\ [Next]_vars => (StayInv /\ HoldInv)'
    BY StayNext, HoldNext
  <1>3. StayInv /\ HoldInv /\ [Next]_vars => [HoldAction]_(C!checkoutVars)
    BY HoldStep
  <1>4. QED
    BY <1>1, <1>2, <1>3, PTL DEF Spec, HoldsExplained, C!HoldsExplained, HoldAction

-----------------------------------------------------------------------------
(* The guest panel. *)

(* Calls that change a guest's flags or read them for the panel. *)
OnFlags(c) == c.kind \in P!Changes \cup P!QuickChanges \cup {"profile"}

PanelCall(c) ==
    /\ c = [no |-> c.no, kind |-> c.kind, id |-> c.id, arg |-> c.arg, filter |-> c.filter,
            done |-> c.done, note |-> c.note, rows |-> c.rows, ids |-> c.ids]
    /\ c.no \in 1..sent

Numbered ==
    /\ sent \in Nat /\ \A c \in calls : PanelCall(c)
    /\ \A c, d \in calls : c.no = d.no => c = d

(* Two calls about the flags of one guest put the guest into doubt. *)
OneEach ==
    \A c, d \in calls : OnFlags(c) /\ OnFlags(d) /\ c.id = d.id /\ c.id \notin doubt \cup {None} => c = d

(* A profile on its way is of its guest, and as the server has it. *)
ProfileGood(c) ==
    c.kind = "profile" =>
        /\ c.id \in Guests
        /\ c.done => \E f : /\ c.rows = {[id |-> c.id, flags |-> f]}
                            /\ c.id \in doubt \/ f = record[c.id]

(* The flags shown are the server's until a change is carried out, and what *)
(* its answer will make of them are from then on.                          *)
FlagsGood ==
    /\ (\A c \in calls : OnFlags(c) => c.id # sel.id) => sel.flags = record[sel.id]
    /\ \A c \in calls : OnFlags(c) /\ c.kind # "profile" /\ c.id = sel.id =>
          /\ ~ c.done => sel.flags = record[sel.id]
          /\ c.done /\ c.kind \in P!Changes => P!Flagged(sel.flags, c) = record[sel.id]
SelGood ==
    sel # None =>
        /\ sel = [id |-> sel.id, flags |-> sel.flags] /\ sel.id \in Guests \cup {None}
        /\ sel.id \notin doubt \cup {None} => FlagsGood

PanelInv ==
    /\ Numbered /\ OneEach /\ (\A c \in calls : ProfileGood(c)) /\ SelGood
    /\ record = [g \in Guests |-> record[g]]
    /\ spinner => panelTab = "profile"

LEMMA NoGuest == None \notin Guests
  BY RouterAssumption DEF P!GuestPanelAssumption

LEMMA PanelRests ==
    ASSUME PanelInv, UNCHANGED <<record, calls, sent, doubt>>, sel' = sel \/ sel' = None,
           spinner' => panelTab' = "profile"
    PROVE  PanelInv'
  BY DEF PanelInv, Numbered, PanelCall, OneEach, OnFlags, ProfileGood, SelGood, FlagsGood, P!Flagged

(* Calls are sent: a second one about a guest's flags puts the guest into  *)
(* doubt, and only the reading of a profile alone takes it out.            *)
LEMMA PanelSends ==
    ASSUME PanelInv, UNCHANGED <<record, sel>>, sent' \in Nat, sent <= sent',
           calls \subseteq calls',
           \A n \in calls' : n \notin calls =>
              PanelCall(n)' /\ n.no > sent /\ ~ n.done /\ (n.kind = "profile" => n.id \in Guests),
           \A m, n \in calls' :
              m.no > sent /\ (m.no = n.no \/ (n.no > sent /\ OnFlags(m) /\ OnFlags(n))) => m = n,
           \A n \in calls' : n.no > sent /\ OnFlags(n) /\ n.id \notin doubt' \cup {None} =>
              \A c \in calls : OnFlags(c) => c.id # n.id,
           \A g \in doubt : g \in doubt' \/ \E n \in calls' : n.no > sent /\ n.kind = "profile" /\ n.id = g,
           spinner' => panelTab' = "profile"
    PROVE  PanelInv'
  <1> DEFINE New(n) == n \in calls' /\ n.no > sent
  <1>0. \A c \in calls' :
           \/ c \in calls /\ ~ New(c) /\ PanelCall(c)'
           \/ /\ c \notin calls /\ New(c) /\ PanelCall(c)' /\ ~ c.done
              /\ c.kind = "profile" => c.id \in Guests
    BY DEF PanelInv, Numbered, PanelCall
  <1>1. Numbered'
    <2>1. ASSUME NEW c \in calls', NEW d \in calls', c.no = d.no PROVE c = d
      BY <1>0, <2>1 DEF PanelInv, Numbered
    <2>2. QED
      BY <1>0, <2>1 DEF Numbered
  <1>2. \A c \in calls : OnFlags(c) /\ c.id \notin doubt' \cup {None} => c.id \notin doubt
    <2>1. \A n \in calls' : n.kind = "profile" => OnFlags(n)
      BY DEF OnFlags
    <2>2. QED
      BY <2>1
  <1>3. OneEach'
    <2>1. SUFFICES ASSUME NEW c \in calls', NEW d \in calls', OnFlags(c), OnFlags(d),
                          c.id = d.id, c.id \notin doubt' \cup {None}
          PROVE  c = d
      BY DEF OneEach, OnFlags, P!Changes, P!QuickChanges
    <2>2. CASE ~ New(c) /\ ~ New(d)
      BY <1>0, <1>2, <2>1, <2>2 DEF PanelInv, OneEach
    <2>3. CASE New(c) /\ New(d)
      BY <2>1, <2>3
    <2>4. CASE New(c) /\ ~ New(d)
      BY <1>0, <2>1, <2>4
    <2>5. CASE ~ New(c) /\ New(d)
      BY <1>0, <2>1, <2>5
    <2>6. QED
      BY <2>2, <2>3, <2>4, <2>5
  <1>4. ASSUME NEW c \in calls' PROVE ProfileGood(c)'
    <2>1. CASE New(c)
      BY <1>0, <2>1 DEF ProfileGood
    <2>2. CASE c \in calls
      <3>1. ProfileGood(c)
        BY <2>2 DEF PanelInv
      <3>2. c.kind = "profile" => OnFlags(c) /\ (c.id \in doubt => c.id \in doubt')
        BY <1>2, <2>2, <3>1, NoGuest DEF OnFlags, ProfileGood
      <3>3. QED
        BY <3>1, <3>2 DEF ProfileGood
    <2>3. QED
      BY <1>0, <2>1, <2>2
  <1>5. SelGood'
    <2>1. SUFFICES ASSUME sel # None, sel.id \notin doubt' \cup {None} PROVE FlagsGood'
      BY DEF PanelInv, SelGood
    <2>2. CASE sel.id \in doubt
      <3>1. PICK n \in calls' : n.no > sent /\ n.kind = "profile" /\ n.id = sel.id
        BY <2>1, <2>2
      <3>2. \A c \in calls' : OnFlags(c) /\ c.id = sel.id => c = n
        <4>1. OnFlags(n)
          BY <3>1 DEF OnFlags
        <4>2. QED
          BY <1>0, <2>1, <3>1, <4>1
      <3>3. OnFlags(n)
        BY <3>1 DEF OnFlags
      <3>4. QED
        BY <3>1, <3>2, <3>3 DEF FlagsGood, OnFlags, P!Changes, P!QuickChanges
    <2>3. CASE sel.id \notin doubt
      <3>1. FlagsGood
        BY <2>1, <2>3 DEF PanelInv, SelGood
      <3>2. \A n \in calls' : n \notin calls /\ OnFlags(n) /\ n.id = sel.id =>
               sel.flags = record[sel.id] /\ ~ n.done
        BY <1>0, <2>1, <3>1 DEF FlagsGood
      <3>3. QED
        BY <3>1, <3>2 DEF FlagsGood, OnFlags, P!Changes, P!QuickChanges, P!Flagged
    <2>4. QED
      BY <2>2, <2>3
  <1>6. QED
    BY <1>1, <1>3, <1>4, <1>5 DEF PanelInv

(* A call that is sent has the next number and has not been answered. *)
LEMMA NewCall ==
    ASSUME sent \in Nat, sent' \in Nat, NEW i \in {1, 2}, sent + i <= sent',
           NEW kind, NEW g, NEW arg, NEW f, NEW c, c = P!Call(i, kind, g, arg, f)
    PROVE  PanelCall(c)' /\ c.no = sent + i /\ c.no > sent /\ c.kind = kind /\ c.id = g /\ ~ c.done
  BY DEF P!Call, PanelCall

(* One call is sent that neither changes nor reads a guest's flags. *)
LEMMA PanelSendsOne ==
    ASSUME PanelInv, UNCHANGED <<record, sel, doubt>>, sent' = sent + 1, spinner' => panelTab' = "profile",
           NEW n, calls' = calls \cup {n}, PanelCall(n)', n.no > sent, ~ n.done,
           n.kind \notin P!Changes \cup P!QuickChanges \cup {"profile"}
    PROVE  PanelInv'
  <1>1. sent \in Nat /\ \A c \in calls : c.no \in 1..sent
    BY DEF PanelInv, Numbered, PanelCall
  <1>2. ~ OnFlags(n) /\ n.kind # "profile"
    BY DEF OnFlags
  <1>3. \A m, k \in calls' : m.no > sent /\ (m.no = k.no \/ (k.no > sent /\ OnFlags(m) /\ OnFlags(k))) => m = k
    BY <1>1, <1>2
  <1>4. \A k \in calls' : k \notin calls =>
           PanelCall(k)' /\ k.no > sent /\ ~ k.done /\ (k.kind = "profile" => k.id \in Guests)
    BY <1>2
  <1>5. \A k \in calls' : k.no > sent => ~ OnFlags(k)
    BY <1>1, <1>2
  <1>6. QED
    BY <1>1, <1>3, <1>4, <1>5, PanelSends

(* A click that asks for a list, notes or bookings, or sends a note. *)
LEMMA PanelAsks ==
    ASSUME PanelInv,
           \/ P!AddNote
           \/ \E f \in {None, "vip"} : P!SetFilter(f)
           \/ \E t \in {"profile", "timeline", "notes"} : P!PanelTabChange(t)
           \/ \E n \in notes.got : P!DeleteNote(n)
    PROVE  PanelInv'
  <1>1. sent \in Nat /\ UNCHANGED <<record, sel, doubt>>
    BY DEF PanelInv, Numbered, P!SetFilter, P!PanelTabChange, P!AddNote, P!DeleteNote, P!Click
  <1>2. spinner' => panelTab' = "profile"
    BY DEF PanelInv, P!SetFilter, P!PanelTabChange, P!AddNote, P!DeleteNote, P!Panel
  <1>3. CASE \/ P!AddNote \/ \E f \in {None, "vip"} : P!SetFilter(f)
             \/ \E t \in {"timeline", "notes"} : P!PanelTabChange(t)
    <2>1. PICK kind, g, f :
             /\ kind \in {"addNote", "list", "timeline", "notes"}
             /\ calls' = calls \cup {P!Call(1, kind, g, None, f)}
      BY <1>3 DEF P!AddNote, P!SetFilter, P!PanelTabChange, P!Send
    <2>2. sent' = sent + 1
      BY <1>3 DEF P!AddNote, P!SetFilter, P!PanelTabChange, P!Send
    <2>3. PICK n : n = P!Call(1, kind, g, None, f)
      OBVIOUS
    <2>4. PanelCall(n)' /\ n.no > sent /\ n.kind = kind /\ ~ n.done
      BY <1>1, <2>2, <2>3, NewCall
    <2>5. n.kind \notin P!Changes \cup P!QuickChanges \cup {"profile"}
      BY <2>1, <2>4 DEF P!Changes, P!QuickChanges
    <2>6. calls' = calls \cup {n}
      BY <2>1, <2>3
    <2>7. QED
      BY <1>1, <1>2, <2>2, <2>4, <2>5, <2>6, PanelSendsOne
  <1>4. CASE P!PanelTabChange("profile")
    BY <1>1, <1>2, <1>4, PanelRests DEF P!PanelTabChange
  <1>5. CASE \E n \in notes.got : P!DeleteNote(n)
    <2>1. PICK k : calls' = calls \cup {[P!Call(1, "deleteNote", sel.id, None, segmentFilter) EXCEPT !.note = k]}
      BY <1>5 DEF P!DeleteNote
    <2>2. sent' = sent + 1
      BY <1>5 DEF P!DeleteNote
    <2>3. PICK n : n = [P!Call(1, "deleteNote", sel.id, None, segmentFilter) EXCEPT !.note = k]
      OBVIOUS
    <2>4. PanelCall(n)' /\ n.no > sent /\ n.kind = "deleteNote" /\ ~ n.done
      <3>1. n = [no |-> sent + 1, kind |-> "deleteNote", id |-> sel.id, arg |-> None, filter |-> segmentFilter,
                 done |-> FALSE, note |-> k, rows |-> {}, ids |-> {}]
        BY <2>3 DEF P!Call
      <3>2. QED
        BY <1>1, <2>2, <3>1 DEF PanelCall
    <2>5. n.kind \notin P!Changes \cup P!QuickChanges \cup {"profile"}
      BY <2>4 DEF P!Changes, P!QuickChanges
    <2>6. calls' = calls \cup {n}
      BY <2>1, <2>3
    <2>7. QED
      BY <1>1, <1>2, <2>2, <2>4, <2>5, <2>6, PanelSendsOne
  <1>6. QED
    BY <1>3, <1>4, <1>5

(* The figures and the list are read, on opening the page or again. *)
LEMMA PanelReads ==
    ASSUME PanelInv, P!GuestMount \/ P!Retry
    PROVE  PanelInv'
  <1>1. /\ sent \in Nat /\ UNCHANGED <<record, sel, doubt>> /\ sent' = sent + 2
        /\ \A c \in calls : c.no \in 1..sent
    <2>1. sent \in Nat /\ \A c \in calls : c.no \in 1..sent
      BY DEF PanelInv, Numbered, PanelCall
    <2>2. UNCHANGED <<record, sel>> /\ sent' = sent + 2
      BY DEF P!GuestMount, P!Retry
    <2>3. doubt' = doubt
      BY DEF P!GuestMount, P!Retry, P!Click
    <2>4. QED
      BY <2>1, <2>2, <2>3
  <1>2. PICK e, n, f : /\ e = P!Call(1, "overview", None, None, None)
                       /\ n = P!Call(2, "list", None, None, f)
                       /\ calls' = calls \cup {e, n}
    <2>1. P!GuestMount => calls = {}
      BY <1>1 DEF P!GuestMount
    <2>2. QED
      BY <2>1 DEF P!GuestMount, P!Retry
  <1>3. PanelCall(e)' /\ e.no = sent + 1 /\ e.kind = "overview" /\ ~ e.done
    BY <1>1, <1>2, NewCall
  <1>4. PanelCall(n)' /\ n.no = sent + 2 /\ n.kind = "list" /\ ~ n.done
    BY <1>1, <1>2, NewCall
  <1>5. ~ OnFlags(e) /\ ~ OnFlags(n)
    BY <1>3, <1>4 DEF OnFlags, P!Changes, P!QuickChanges
  <1>6. spinner' => panelTab' = "profile"
    BY DEF PanelInv, P!GuestMount, P!Retry
  <1>7. \A k \in calls' : (k \in calls /\ ~ (k.no > sent)) \/ k = e \/ k = n
    BY <1>1, <1>2
  <1>8. \A k \in calls' : k.no > sent => ~ OnFlags(k)
    BY <1>5, <1>7
  <1>9. \A k \in calls' : k \notin calls =>
           PanelCall(k)' /\ k.no > sent /\ ~ k.done /\ (k.kind = "profile" => k.id \in Guests)
    BY <1>1, <1>3, <1>4, <1>7
  <1>10. \A m, k \in calls' : m.no > sent /\ (m.no = k.no \/ (k.no > sent /\ OnFlags(m) /\ OnFlags(k))) => m = k
    BY <1>1, <1>3, <1>4, <1>7, <1>8
  <1>11. calls \subseteq calls' /\ sent' \in Nat /\ sent <= sent'
    BY <1>1, <1>2
  <1>12. QED
    BY <1>1, <1>6, <1>8, <1>9, <1>10, <1>11, PanelSends

(* A click that changes a guest's flags or opens the panel. *)
LEMMA PanelChanges ==
    ASSUME PanelInv,
           \/ \E g \in Guests : P!SelectGuest(g)
           \/ \E kind \in P!Changes : P!Change(kind)
           \/ \E kind \in P!QuickChanges, row \in guests : P!QuickChange(kind, row)
    PROVE  PanelInv'
  <1>1. sent \in Nat /\ UNCHANGED <<record, sel>> /\ sent' = sent + 1
    BY DEF PanelInv, Numbered, P!SelectGuest, P!Change, P!QuickChange, P!Send
  <1>2. PICK kind, g, arg :
           /\ calls' = calls \cup {P!Call(1, kind, g, arg, segmentFilter)}
           /\ \/ kind = "profile" /\ g \in Guests
                 /\ doubt' = IF P!About(g) # {} THEN doubt \cup {g} ELSE doubt \ {g}
              \/ kind \in P!Changes \cup P!QuickChanges
                 /\ doubt' = IF P!About(g) # {} THEN doubt \cup ({g} \ {None}) ELSE doubt
    <2>1. CASE \E g \in Guests : P!SelectGuest(g)
      BY <2>1 DEF P!SelectGuest, P!Send
    <2>2. CASE \E kind \in P!Changes : P!Change(kind)
      <3>1. PICK kind \in P!Changes : P!Change(kind)
        BY <2>2
      <3>2. \E arg : calls' = calls \cup {P!Call(1, kind, sel.id, arg, segmentFilter)}
        BY <3>1 DEF P!Change, P!Send
      <3>3. doubt' = IF P!About(sel.id) # {} THEN doubt \cup ({sel.id} \ {None}) ELSE doubt
        BY <3>1 DEF P!Change, P!Click
      <3>4. QED
        BY <3>1, <3>2, <3>3
    <2>3. CASE \E kind \in P!QuickChanges, row \in guests : P!QuickChange(kind, row)
      BY <2>3 DEF P!QuickChange, P!Send, P!Click
    <2>4. QED
      BY <2>1, <2>2, <2>3
  <1>3. spinner' => panelTab' = "profile"
    BY DEF PanelInv, P!SelectGuest, P!Change, P!QuickChange
  <1>4. PICK n : n = P!Call(1, kind, g, arg, segmentFilter)
    OBVIOUS
  <1>5. PanelCall(n)' /\ n.no > sent /\ n.kind = kind /\ n.id = g /\ ~ n.done
    BY <1>1, <1>4, NewCall
  <1>6. g \notin doubt' \cup {None} => \A c \in calls : OnFlags(c) => c.id # g
    <2>1. g \notin doubt' \cup {None} => P!About(g) = {}
      BY <1>2
    <2>2. QED
      BY <2>1 DEF P!About, OnFlags
  <1>7. n.kind = "profile" => n.id \in Guests
    BY <1>2, <1>5 DEF P!Changes, P!QuickChanges
  <1>8. \A h \in doubt : h \in doubt' \/ (n.kind = "profile" /\ n.id = h)
    BY <1>2, <1>5
  <1>9. calls' = calls \cup {n} /\ \A c \in calls : c.no <= sent
    BY <1>2, <1>4 DEF PanelInv, Numbered, PanelCall
  <1>10. \A k \in calls' : k.no > sent => k = n
    BY <1>1, <1>9 DEF PanelInv, Numbered, PanelCall
  <1>11. \A k \in calls' : k \notin calls =>
            PanelCall(k)' /\ k.no > sent /\ ~ k.done /\ (k.kind = "profile" => k.id \in Guests)
    BY <1>5, <1>7, <1>9
  <1>12. \A m, k \in calls' : m.no > sent /\ (m.no = k.no \/ (k.no > sent /\ OnFlags(m) /\ OnFlags(k))) => m = k
    BY <1>10
  <1>13. \A k \in calls' : k.no > sent /\ OnFlags(k) /\ k.id \notin doubt' \cup {None} =>
            \A c \in calls : OnFlags(c) => c.id # k.id
    BY <1>5, <1>6, <1>10
  <1>14. \A h \in doubt : h \in doubt' \/ \E k \in calls' : k.no > sent /\ k.kind = "profile" /\ k.id = h
    BY <1>5, <1>8, <1>9
  <1>15. QED
    BY <1>1, <1>3, <1>9, <1>11, <1>12, <1>13, <1>14, PanelSends

(* Nothing is sent that is about a guest's flags, and a call may end.      *)
LEMMA PanelEnds ==
    ASSUME PanelInv, NEW c \in calls, record' = record, doubt \subseteq doubt', SelGood',
           sent' \in {sent, sent + 1}, spinner' => spinner, panelTab' = panelTab,
           \A k \in calls' : \/ k \in calls /\ k # c
                             \/ PanelCall(k)' /\ k.no > sent /\ ~ OnFlags(k),
           \A k, m \in calls' : k.no > sent /\ m.no > sent => k = m
    PROVE  PanelInv'
  <1>1. sent \in Nat /\ sent' \in Nat /\ \A k \in calls : PanelCall(k)' /\ k.no \in 1..sent
    BY DEF PanelInv, Numbered, PanelCall
  <1>2. Numbered'
    <2>1. ASSUME NEW k \in calls', NEW m \in calls', k.no = m.no PROVE k = m
      <3>1. CASE k.no > sent
        BY <2>1, <3>1
      <3>2. CASE ~ k.no > sent
        BY <1>1, <2>1, <3>2 DEF PanelInv, Numbered
      <3>3. QED
        BY <3>1, <3>2
    <2>2. QED
      BY <1>1, <2>1 DEF Numbered
  <1>3. \A k \in calls' : OnFlags(k) => k \in calls
    OBVIOUS
  <1>4. OneEach'
    BY <1>3 DEF PanelInv, OneEach, OnFlags, P!Changes, P!QuickChanges
  <1>5. ASSUME NEW k \in calls' PROVE ProfileGood(k)'
    <2>1. CASE OnFlags(k)
      BY <1>3, <2>1 DEF PanelInv, ProfileGood
    <2>2. CASE ~ OnFlags(k)
      BY <2>2 DEF OnFlags, ProfileGood
    <2>3. QED
      BY <2>1, <2>2
  <1>6. QED
    BY <1>2, <1>4, <1>5 DEF PanelInv

LEMMA PanelFails ==
    ASSUME PanelInv, NEW c \in calls, P!Fail(c)
    PROVE  PanelInv'
  <1>1. /\ calls' = calls \ {c} /\ UNCHANGED <<record, sel, sent, panelTab>> /\ (spinner' => spinner)
        /\ doubt \subseteq doubt'
        /\ c.kind = "profile" \/ (c.done /\ c.kind \in P!Changes \cup P!QuickChanges) => c.id \in doubt'
    BY DEF P!Fail
  <1>2. SelGood'
    <2>1. SUFFICES ASSUME sel # None, sel.id \notin doubt' \cup {None} PROVE FlagsGood'
      BY <1>1 DEF PanelInv, SelGood
    <2>2. FlagsGood
      BY <1>1, <2>1 DEF PanelInv, SelGood
    <2>3. CASE OnFlags(c) /\ c.id = sel.id
      <3>1. \A k \in calls' : OnFlags(k) => k.id # sel.id
        BY <1>1, <2>1, <2>3 DEF PanelInv, OneEach
      <3>2. sel.flags = record[sel.id]
        BY <1>1, <2>1, <2>2, <2>3 DEF FlagsGood, OnFlags
      <3>3. QED
        BY <1>1, <3>1, <3>2 DEF FlagsGood, OnFlags, P!Changes, P!QuickChanges
    <2>4. CASE ~ (OnFlags(c) /\ c.id = sel.id)
      BY <1>1, <2>2, <2>4 DEF FlagsGood, OnFlags, P!Changes, P!QuickChanges, P!Flagged
    <2>5. QED
      BY <2>3, <2>4
  <1>3. \A k, m \in calls' : k.no > sent /\ m.no > sent => k = m
    BY <1>1 DEF PanelInv, Numbered, PanelCall
  <1>4. QED
    BY <1>1, <1>2, <1>3, PanelEnds

(* What the panel makes of an answer. *)
LEMMA AnswerOfProfile ==
    ASSUME PanelInv, NEW c \in calls, P!Answer(c), c.kind = "profile"
    PROVE  \E f : /\ sel' = [id |-> c.id, flags |-> f] /\ c.id \in Guests
                  /\ c.id \in doubt \/ f = record[c.id]
                  /\ sel'.id = c.id /\ notes'.of = c.id
  <1>1. ProfileGood(c) /\ c.done
    BY DEF PanelInv, P!Answer
  <1>2. PICK f : c.rows = {[id |-> c.id, flags |-> f]} /\ (c.id \in doubt \/ f = record[c.id])
    BY <1>1 DEF ProfileGood
  <1>3. sel' = CHOOSE row \in c.rows : TRUE
    BY DEF P!Answer, P!Changes
  <1>4. (CHOOSE row \in c.rows : TRUE) \in c.rows
    BY <1>2
  <1>5. sel' = [id |-> c.id, flags |-> f]
    BY <1>2, <1>3, <1>4
  <1>6. notes' = [of |-> c.id, got |-> c.ids]
    BY DEF P!Answer
  <1>7. QED
    BY <1>1, <1>2, <1>5, <1>6 DEF ProfileGood

LEMMA AnswerOfChange ==
    ASSUME PanelInv, NEW c \in calls, P!Answer(c), c.kind \in P!Changes, sel # None
    PROVE  /\ sel' = [id |-> sel.id, flags |-> P!Flagged(sel.flags, c)]
           /\ sel'.id = sel.id /\ sel'.flags = P!Flagged(sel.flags, c)
  <1>1. sel' = P!Patched(c)
    BY DEF P!Answer, P!Changes
  <1>2. sel = [id |-> sel.id, flags |-> sel.flags]
    BY DEF PanelInv, SelGood
  <1>3. sel' = [sel EXCEPT !.flags = P!Flagged(@, c)]
    BY <1>1 DEF P!Patched
  <1>4. QED
    BY <1>2, <1>3

LEMMA AnswerSelects ==
    ASSUME PanelInv, NEW c \in calls, P!Answer(c),
           \A k \in calls' : OnFlags(k) => k \in calls /\ k # c
    PROVE  SelGood'
  <1>1. /\ c.done /\ record' = record
        /\ doubt' = IF sel = None THEN doubt
                    ELSE doubt \cup {g \in {sel.id} \ {None} :
                                       c.kind \in (IF g = c.id THEN P!QuickChanges ELSE P!Changes)}
    BY DEF P!Answer
  <1>2. CASE c.kind = "profile"
    <2>1. OnFlags(c)
      BY <1>2 DEF OnFlags
    <2>2. PICK f : /\ sel' = [id |-> c.id, flags |-> f] /\ c.id \in Guests
                   /\ c.id \in doubt \/ f = record[c.id]
      BY <1>2, AnswerOfProfile
    <2>3. sel'.id = c.id /\ sel'.flags = f
      BY <2>2
    <2>4. c.id \notin doubt' \cup {None} => f = record[c.id] /\ \A k \in calls' : OnFlags(k) => k.id # c.id
      BY <1>1, <2>1, <2>2 DEF PanelInv, OneEach
    <2>5. QED
      BY <1>1, <2>2, <2>3, <2>4 DEF SelGood, FlagsGood, OnFlags, P!Changes, P!QuickChanges
  <1>3. CASE c.kind \in P!Changes
    <2>1. sel' = P!Patched(c) /\ c.kind # "profile"
      BY <1>3 DEF P!Answer, P!Changes, P!QuickChanges
    <2>2. CASE sel = None
      <3>1. sel' = [id |-> None, flags |-> P!Flagged(P!NewGuest, c)]
        BY <2>1, <2>2 DEF P!Patched
      <3>2. QED
        BY <3>1 DEF SelGood
    <2>3. CASE sel # None
      <3>1. /\ sel' = [id |-> sel.id, flags |-> P!Flagged(sel.flags, c)]
            /\ sel'.id = sel.id /\ sel'.flags = P!Flagged(sel.flags, c)
        BY <1>3, <2>3, AnswerOfChange
      <3>2. sel' = [id |-> sel'.id, flags |-> sel'.flags]
        BY <3>1
      <3>3. ASSUME sel.id \notin doubt' \cup {None} PROVE FlagsGood'
        <4>1. c.id = sel.id /\ sel.id \notin doubt /\ OnFlags(c)
          BY <1>1, <1>3, <2>3, <3>3 DEF OnFlags
        <4>2. P!Flagged(sel.flags, c) = record[sel.id]
          BY <1>1, <1>3, <2>1, <2>3, <3>3, <4>1 DEF PanelInv, SelGood, FlagsGood
        <4>3. \A k \in calls' : OnFlags(k) => k.id # sel.id
          BY <3>3, <4>1 DEF PanelInv, OneEach
        <4>4. QED
          BY <1>1, <3>1, <4>2, <4>3 DEF FlagsGood, OnFlags, P!Changes, P!QuickChanges
      <3>4. sel.id \in Guests \cup {None}
        BY <2>3 DEF PanelInv, SelGood
      <3>5. QED
        BY <3>1, <3>2, <3>3, <3>4 DEF SelGood
    <2>4. QED
      BY <2>2, <2>3
  <1>4. CASE c.kind \notin P!Changes \cup {"profile"}
    <2>1. sel' = sel
      BY <1>4 DEF P!Answer
    <2>2. SUFFICES ASSUME sel # None, sel.id \notin doubt' \cup {None} PROVE FlagsGood'
      BY <2>1 DEF PanelInv, SelGood
    <2>3. FlagsGood
      BY <1>1, <2>2 DEF PanelInv, SelGood
    <2>4. OnFlags(c) => c.id # sel.id
      BY <1>1, <1>4, <2>2 DEF OnFlags
    <2>5. \A k \in calls : OnFlags(k) /\ k.id = sel.id => k \in calls'
      BY <2>4 DEF P!Answer
    <2>6. QED
      BY <1>1, <2>1, <2>3, <2>4, <2>5 DEF FlagsGood, OnFlags, P!Changes, P!QuickChanges, P!Flagged
  <1>5. QED
    BY <1>2, <1>3, <1>4

LEMMA PanelAnswers ==
    ASSUME PanelInv, NEW c \in calls, P!Answer(c)
    PROVE  PanelInv'
  <1>1. sent \in Nat /\ \A k \in calls : k.no \in 1..sent
    BY DEF PanelInv, Numbered, PanelCall
  <1>2. /\ record' = record /\ panelTab' = panelTab /\ (spinner' => spinner) /\ doubt \subseteq doubt'
        /\ sent' \in {sent, sent + 1}
    BY DEF P!Answer
  <1>3. \/ calls' = calls \ {c}
        \/ \E n : calls' = (calls \ {c}) \cup {n} /\ PanelCall(n)' /\ n.no > sent /\ ~ OnFlags(n)
    <2>1. CASE c.kind \in P!Changes \cup P!QuickChanges \cup {"addNote"}
      <3>1. PICK kind, g : /\ kind \in {"list", "added"}
                           /\ calls' = (calls \ {c}) \cup {P!Call(1, kind, g, None, c.filter)}
        BY <2>1 DEF P!Answer, P!Changes, P!QuickChanges
      <3>2. sent' = sent + 1
        BY <2>1 DEF P!Answer
      <3>3. PICK n : n = P!Call(1, kind, g, None, c.filter)
        OBVIOUS
      <3>4. PanelCall(n)' /\ n.no > sent /\ n.kind = kind
        BY <1>1, <3>2, <3>3, NewCall
      <3>5. ~ OnFlags(n)
        BY <3>1, <3>4 DEF OnFlags, P!Changes, P!QuickChanges
      <3>6. calls' = (calls \ {c}) \cup {n}
        BY <3>1, <3>3
      <3>7. QED
        BY <3>4, <3>5, <3>6
    <2>2. CASE c.kind \notin P!Changes \cup P!QuickChanges \cup {"addNote"}
      BY <2>2 DEF P!Answer
    <2>3. QED
      BY <2>1, <2>2
  <1>4. \A k \in calls' : \/ k \in calls /\ k # c
                          \/ PanelCall(k)' /\ k.no > sent /\ ~ OnFlags(k)
    BY <1>3
  <1>5. \A k, m \in calls' : k.no > sent /\ m.no > sent => k = m
    BY <1>1, <1>3
  <1>6. SelGood'
    BY <1>4, AnswerSelects
  <1>7. QED
    BY <1>2, <1>4, <1>5, <1>6, PanelEnds

(* The server carries a call out. *)
LEMMA PanelServes ==
    ASSUME PanelInv, NEW c \in calls, P!Serve(c)
    PROVE  PanelInv'
  <1>1. PICK d : /\ calls' = (calls \ {c}) \cup {d}
                 /\ d = [c EXCEPT !.done = TRUE, !.rows = P!Rows(c), !.ids = P!Ids(c)]
    BY DEF P!Serve
  <1>2. /\ ~ c.done /\ UNCHANGED <<sel, sent, doubt, spinner, panelTab>>
        /\ record' = IF c.id = None THEN record ELSE [record EXCEPT ![c.id] = P!Flagged(@, c)]
    BY DEF P!Serve
  <1>3. PanelCall(c) /\ sent \in Nat
    BY DEF PanelInv, Numbered
  <1>4. /\ d.no = c.no /\ d.kind = c.kind /\ d.id = c.id /\ d.arg = c.arg /\ d.done /\ d.rows = P!Rows(c)
        /\ PanelCall(d)'
    <2>1. d = [no |-> c.no, kind |-> c.kind, id |-> c.id, arg |-> c.arg, filter |-> c.filter,
               done |-> TRUE, note |-> c.note, rows |-> P!Rows(c), ids |-> P!Ids(c)]
      <3>1. c = [no |-> c.no, kind |-> c.kind, id |-> c.id, arg |-> c.arg, filter |-> c.filter,
                 done |-> c.done, note |-> c.note, rows |-> c.rows, ids |-> c.ids]
        BY <1>3 DEF PanelCall
      <3>2. QED
        BY <1>1, <3>1
    <2>2. QED
      BY <1>2, <1>3, <2>1 DEF PanelCall
  <1>5. \A k \in calls' : k = d \/ (k \in calls /\ k # c)
    BY <1>1
  <1>6. Numbered'
    BY <1>2, <1>3, <1>4, <1>5 DEF PanelInv, Numbered, PanelCall
  <1>7. OneEach'
    BY <1>2, <1>4, <1>5 DEF PanelInv, OneEach, OnFlags, P!Changes, P!QuickChanges
  <1>8. /\ record' = [g \in Guests |-> record'[g]]
        /\ \A g \in Guests : g # c.id \/ ~ OnFlags(c) \/ c.kind = "profile" => record'[g] = record[g]
        /\ c.id \in Guests => record'[c.id] = P!Flagged(record[c.id], c)
    <2>1. record = [g \in Guests |-> record[g]]
      BY DEF PanelInv
    <2>2. ~ OnFlags(c) \/ c.kind = "profile" => P!Flagged(record[c.id], c) = record[c.id]
      BY DEF OnFlags, P!Flagged, P!Changes, P!QuickChanges
    <2>3. QED
      BY <1>2, <2>1, <2>2, NoGuest
  <1>9. ASSUME NEW k \in calls' PROVE ProfileGood(k)'
    <2>1. CASE k = d /\ c.kind = "profile"
      <3>1. c.id \in Guests
        BY <2>1 DEF PanelInv, ProfileGood
      <3>2. d.rows = {[id |-> c.id, flags |-> record[c.id]]}
        BY <1>4, <2>1 DEF P!Rows, P!Selected
      <3>3. QED
        BY <1>4, <1>8, <2>1, <3>1, <3>2 DEF ProfileGood
    <2>2. CASE k # d /\ k.kind = "profile"
      <3>1. k \in calls /\ k # c /\ ProfileGood(k) /\ OnFlags(k) /\ k.id \in Guests
        BY <1>5, <2>2 DEF PanelInv, ProfileGood, OnFlags
      <3>2. k.id \notin doubt => record'[k.id] = record[k.id]
        BY <1>8, <3>1, NoGuest DEF PanelInv, OneEach
      <3>3. QED
        BY <1>2, <2>2, <3>1, <3>2 DEF ProfileGood
    <2>3. QED
      BY <1>4, <2>1, <2>2 DEF ProfileGood
  <1>10. SelGood'
    <2>1. SUFFICES ASSUME sel # None, sel.id \notin doubt \cup {None} PROVE FlagsGood'
      BY <1>2 DEF PanelInv, SelGood
    <2>2. FlagsGood /\ sel.id \in Guests
      BY <2>1 DEF PanelInv, SelGood
    <2>3. CASE OnFlags(c) /\ c.id = sel.id /\ c.kind # "profile"
      <3>1. sel.flags = record[sel.id]
        BY <1>2, <2>2, <2>3 DEF FlagsGood
      <3>2. P!Flagged(sel.flags, d) = record'[sel.id]
        BY <1>4, <1>8, <2>2, <2>3, <3>1 DEF P!Flagged
      <3>3. \A k \in calls' : OnFlags(k) /\ k.id = sel.id => k = d
        BY <1>5, <2>1, <2>3 DEF PanelInv, OneEach
      <3>4. d \in calls' /\ OnFlags(d) /\ d.id = sel.id
        BY <1>1, <1>4, <2>3 DEF OnFlags
      <3>5. QED
        BY <1>2, <1>4, <3>2, <3>3, <3>4 DEF FlagsGood, OnFlags, P!Changes, P!QuickChanges, P!Flagged
    <2>4. CASE ~ (OnFlags(c) /\ c.id = sel.id /\ c.kind # "profile")
      <3>1. record'[sel.id] = record[sel.id]
        BY <1>8, <2>2, <2>4
      <3>2. (\A k \in calls' : OnFlags(k) => k.id # sel.id) => \A k \in calls : OnFlags(k) => k.id # sel.id
        BY <1>1, <1>4 DEF OnFlags
      <3>3. \A k \in calls' : OnFlags(k) /\ k.kind # "profile" /\ k.id = sel.id => k \in calls
        BY <1>4, <1>5, <2>4 DEF OnFlags
      <3>4. QED
        BY <1>2, <2>2, <3>1, <3>2, <3>3 DEF FlagsGood, OnFlags, P!Changes, P!QuickChanges, P!Flagged
    <2>5. QED
      BY <2>3, <2>4
  <1>11. QED
    BY <1>2, <1>6, <1>7, <1>8, <1>9, <1>10 DEF PanelInv

LEMMA PanelChangedElsewhere ==
    ASSUME PanelInv, NEW g \in Guests, P!ChangedElsewhere(g)
    PROVE  PanelInv'
  <1>1. /\ doubt' = doubt \cup {g} /\ UNCHANGED <<sel, calls, sent, spinner, panelTab>>
        /\ record' = [record EXCEPT ![g].vip = ~@]
    BY DEF P!ChangedElsewhere
  <1>2. /\ record' = [h \in Guests |-> record'[h]]
        /\ \A h \in Guests : h # g => record'[h] = record[h]
    <2>1. record = [h \in Guests |-> record[h]]
      BY DEF PanelInv
    <2>2. QED
      BY <1>1, <2>1
  <1>3. Numbered' /\ OneEach'
    BY <1>1 DEF PanelInv, Numbered, PanelCall, OneEach, OnFlags
  <1>4. \A c \in calls' : ProfileGood(c)'
    BY <1>1, <1>2 DEF PanelInv, ProfileGood
  <1>5. SelGood'
    BY <1>1, <1>2 DEF PanelInv, SelGood, FlagsGood, OnFlags, P!Changes, P!QuickChanges, P!Flagged
  <1>6. QED
    BY <1>1, <1>2, <1>3, <1>4, <1>5 DEF PanelInv

LEMMA PanelInit ==
    ASSUME P!GuestInit
    PROVE  PanelInv
  BY DEF P!GuestInit, PanelInv, Numbered, OneEach, SelGood

LEMMA PanelSteps ==
    ASSUME PanelInv, P!GuestNext
    PROVE  PanelInv'
  <1>1. CASE P!ClosePanel \/ P!Forget
    BY <1>1, PanelRests DEF P!ClosePanel, P!Forget, PanelInv
  <1>2. CASE \E g \in Guests : P!ChangedElsewhere(g)
    BY <1>2, PanelChangedElsewhere
  <1>3. CASE \E c \in calls : P!Serve(c) \/ P!Answer(c) \/ P!Fail(c)
    BY <1>3, PanelServes, PanelAnswers, PanelFails
  <1>4. QED
    BY <1>1, <1>2, <1>3, PanelReads, PanelAsks, PanelChanges DEF P!GuestNext

NotesGood == notes = [of |-> notes.of, got |-> notes.got]

LEMMA NotesStep ==
    ASSUME NotesGood, P!GuestNext
    PROVE  NotesGood'
  <1>1. CASE \E c \in calls : P!Answer(c)
    <2>1. PICK c \in calls : P!Answer(c)
      BY <1>1
    <2>2. \/ notes' = [of |-> c.id, got |-> c.ids] \/ notes' = notes
          \/ notes' = [notes EXCEPT !.got = @ \ {c.note}]
      BY <2>1 DEF P!Answer
    <2>3. QED
      BY <2>2 DEF NotesGood
  <1>2. CASE ~ \E c \in calls : P!Answer(c)
    <2>1. notes' = notes
      BY <1>2 DEF P!GuestNext, P!GuestMount, P!Retry, P!AddNote, P!ClosePanel, P!Forget, P!SetFilter,
                  P!SelectGuest, P!ChangedElsewhere, P!PanelTabChange, P!DeleteNote, P!Change,
                  P!QuickChange, P!Serve, P!Fail
    <2>2. QED
      BY <2>1 DEF NotesGood
  <1>3. QED
    BY <1>1, <1>2

(* A call out before a step that is not an answer is out after it. *)
LEMMA StillAsked ==
    ASSUME PanelInv, NEW kind,
           \/ P!GuestMount \/ P!Retry \/ P!AddNote
           \/ \E f \in {None, "vip"} : P!SetFilter(f)
           \/ \E g \in Guests : P!ChangedElsewhere(g)
           \/ \E n \in notes.got : P!DeleteNote(n)
           \/ \E k \in P!Changes : P!Change(k)
           \/ \E k \in P!QuickChanges, row \in guests : P!QuickChange(k, row)
           \/ \E c \in calls : P!Serve(c)
    PROVE  /\ UNCHANGED <<open, chosen, sel, notes, timeline, panelTab, spinner>>
           /\ P!Asked(kind) => P!Asked(kind)'
  <1>1. UNCHANGED <<open, chosen, sel, notes, timeline, panelTab, spinner>>
    BY DEF P!GuestMount, P!Retry, P!AddNote, P!SetFilter, P!ChangedElsewhere, P!DeleteNote, P!Change,
           P!QuickChange, P!Serve
  <1>2. \A c \in calls : \E d \in calls' : d.kind = c.kind /\ d.id = c.id
    <2>1. CASE \E c \in calls : P!Serve(c)
      <3>1. PICK c \in calls : P!Serve(c)
        BY <2>1
      <3>2. PICK d : /\ calls' = (calls \ {c}) \cup {d}
                     /\ d = [c EXCEPT !.done = TRUE, !.rows = P!Rows(c), !.ids = P!Ids(c)]
        BY <3>1 DEF P!Serve
      <3>3. c = [no |-> c.no, kind |-> c.kind, id |-> c.id, arg |-> c.arg, filter |-> c.filter,
                 done |-> c.done, note |-> c.note, rows |-> c.rows, ids |-> c.ids]
        BY DEF PanelInv, Numbered, PanelCall
      <3>4. d.kind = c.kind /\ d.id = c.id
        BY <3>2, <3>3
      <3>5. QED
        BY <3>2, <3>4
    <2>2. CASE P!GuestMount
      BY <2>2 DEF P!GuestMount, PanelInv, Numbered, PanelCall
    <2>3. CASE ~ (P!GuestMount \/ \E c \in calls : P!Serve(c))
      <3>1. calls \subseteq calls'
        BY <2>3 DEF P!Retry, P!AddNote, P!SetFilter, P!ChangedElsewhere, P!DeleteNote, P!Change,
                    P!QuickChange, P!Send
      <3>2. QED
        BY <3>1
    <2>4. QED
      BY <2>1, <2>2, <2>3
  <1>3. QED
    BY <1>1, <1>2 DEF P!Asked

(* No other step than the end of a call makes the panel show wrong things. *)
LEMMA PanelUnharmed ==
    ASSUME PanelInv, P!GuestNext, ~ \E c \in calls : P!Answer(c) \/ P!Fail(c)
    PROVE  /\ P!WrongGuest' => P!WrongGuest
           /\ P!WrongNotes' => P!WrongNotes
           /\ P!WrongBookings' => P!WrongBookings
  <1>1. CASE P!ClosePanel \/ P!Forget \/ \E g \in Guests : P!SelectGuest(g)
    <2>1. ~ P!Panel'
      BY <1>1 DEF P!ClosePanel, P!Forget, P!SelectGuest, P!Panel
    <2>2. QED
      BY <2>1 DEF P!WrongGuest, P!WrongNotes, P!WrongBookings
  <1>2. CASE \E t \in {"profile", "timeline", "notes"} : P!PanelTabChange(t)
    <2>1. PICK t \in {"profile", "timeline", "notes"} : P!PanelTabChange(t)
      BY <1>2
    <2>2. UNCHANGED <<open, chosen, sel, spinner>> /\ panelTab' = t
      BY <2>1 DEF P!PanelTabChange
    <2>3. t # "profile" => P!Asked(t)'
      <3>1. t # "profile" => calls' = calls \cup {P!Call(1, t, sel.id, None, segmentFilter)}
        BY <2>1 DEF P!PanelTabChange, P!Send
      <3>2. /\ P!Call(1, t, sel.id, None, segmentFilter).kind = t
            /\ P!Call(1, t, sel.id, None, segmentFilter).id = sel.id
        BY DEF P!Call
      <3>3. QED
        BY <2>2, <3>1, <3>2 DEF P!Asked
    <2>4. QED
      BY <2>2, <2>3 DEF P!WrongGuest, P!WrongNotes, P!WrongBookings, P!Panel
  <1>3. CASE /\ UNCHANGED <<open, chosen, sel, notes, timeline, panelTab, spinner>>
             /\ P!Asked("notes") => P!Asked("notes")'
             /\ P!Asked("timeline") => P!Asked("timeline")'
    BY <1>3 DEF P!WrongGuest, P!WrongNotes, P!WrongBookings, P!Panel
  <1>4. QED
    BY <1>1, <1>2, <1>3, StillAsked DEF P!GuestNext

LEMMA CallEnds ==
    ASSUME PanelInv, NEW c \in calls, P!Answer(c) \/ P!Fail(c)
    PROVE  /\ c \in P!Ended
           /\ \A k \in calls : k # c => k \in calls'
  <1>1. sent \in Nat /\ c.no \in 1..sent /\ \A k \in calls : k.no = c.no => k = c
    BY DEF PanelInv, Numbered, PanelCall
  <1>2. \A k \in calls' : (k \in calls /\ k # c) \/ k.no = sent + 1
    BY <1>1 DEF P!Answer, P!Fail, P!Call
  <1>3. \A k \in calls' : k.no # c.no
    BY <1>1, <1>2
  <1>4. \A k \in calls : k # c => k \in calls'
    BY DEF P!Answer, P!Fail
  <1>5. QED
    BY <1>3, <1>4 DEF P!Ended

PanelAction ==
    /\ P!WrongGuest' /\ ~P!WrongGuest =>
         \E c \in P!Ended : P!Nobodys(c) \/ (c.kind = "profile" /\ (P!Late(c) \/ sel' = sel))
    /\ P!WrongNotes' /\ ~P!WrongNotes =>
         \E c \in P!Ended : P!Nobodys(c) \/ P!Late(c) \/ (c.kind = "notes" /\ notes' = notes)
    /\ P!WrongBookings' /\ ~P!WrongBookings =>
         \E c \in P!Ended : \/ P!Nobodys(c) \/ P!Late(c)
                            \/ c.kind = "timeline" /\ timeline' = timeline
                            \/ c.kind = "profile" /\ sel = None
    /\ (P!Panel /\ sel.id \notin doubt \cup {None} /\ P!About(sel.id) = {}
          => sel.flags = record[sel.id])'

(* What the property blames a call that ends for. *)
Blamed(c) ==
    /\ P!WrongGuest' /\ ~P!WrongGuest =>
         P!Nobodys(c) \/ (c.kind = "profile" /\ (P!Late(c) \/ sel' = sel))
    /\ P!WrongNotes' /\ ~P!WrongNotes =>
         P!Nobodys(c) \/ P!Late(c) \/ (c.kind = "notes" /\ notes' = notes)
    /\ P!WrongBookings' /\ ~P!WrongBookings =>
         \/ P!Nobodys(c) \/ P!Late(c)
         \/ c.kind = "timeline" /\ timeline' = timeline
         \/ c.kind = "profile" /\ sel = None

LEMMA FailBlamed ==
    ASSUME PanelInv, NEW c \in calls, P!Fail(c)
    PROVE  Blamed(c)
  <1>1. /\ UNCHANGED <<open, chosen, sel, notes, timeline, panelTab>>
        /\ spinner' = (spinner /\ c.kind # "profile")
        /\ \A k \in calls : k # c => k \in calls'
    BY CallEnds DEF P!Fail
  <1>2. spinner => panelTab = "profile"
    BY DEF PanelInv
  <1>3. \A kind : P!Asked(kind) /\ ~ P!Asked(kind)' => c.kind = kind
    BY <1>1 DEF P!Asked
  <1>4. QED
    BY <1>1, <1>2, <1>3 DEF Blamed, P!WrongGuest, P!WrongNotes, P!WrongBookings, P!Panel

LEMMA AnswerBlamed ==
    ASSUME PanelInv, NotesGood, NEW c \in calls, P!Answer(c)
    PROVE  Blamed(c)
  <1>1. /\ UNCHANGED <<open, chosen, panelTab>>
        /\ spinner' = (spinner /\ c.kind # "profile")
        /\ \A k \in calls : k # c => k \in calls'
        /\ timeline' = IF c.kind = "timeline" THEN c.id ELSE timeline
    BY CallEnds DEF P!Answer
  <1>2. spinner => panelTab = "profile"
    BY DEF PanelInv
  <1>3. \A kind : P!Asked(kind) /\ sel'.id = sel.id /\ ~ P!Asked(kind)' => c.kind = kind
    BY <1>1 DEF P!Asked
  <1>4. CASE c.kind = "profile"
    <2>1. sel'.id = c.id /\ notes'.of = c.id
      BY <1>4, AnswerOfProfile
    <2>2. QED
      BY <1>1, <1>2, <1>3, <1>4, <2>1
      DEF Blamed, P!WrongGuest, P!WrongNotes, P!WrongBookings, P!Panel, P!Late
  <1>5. CASE c.kind \in P!Changes
    <2>1. sel # None => sel'.id = sel.id
      BY <1>5, AnswerOfChange
    <2>2. notes' = notes /\ c.kind \notin {"profile", "notes", "timeline"}
      BY <1>5 DEF P!Answer, P!Changes
    <2>3. QED
      BY <1>1, <1>2, <1>3, <1>5, <2>1, <2>2
      DEF Blamed, P!WrongGuest, P!WrongNotes, P!WrongBookings, P!Panel, P!Nobodys
  <1>6. CASE c.kind \notin P!Changes \cup {"profile"}
    <2>1. sel' = sel
      BY <1>6 DEF P!Answer
    <2>2. \/ c.kind \in {"notes", "added"} /\ notes'.of = c.id
          \/ c.kind # "notes" /\ notes'.of = notes.of
      <3>1. CASE c.kind \in {"notes", "added"}
        BY <3>1 DEF P!Answer
      <3>2. CASE c.kind \notin {"notes", "added"}
        BY <1>6, <3>2 DEF P!Answer, NotesGood
      <3>3. QED
        BY <3>1, <3>2
    <2>3. QED
      BY <1>1, <1>2, <1>3, <1>6, <2>1, <2>2
      DEF Blamed, P!WrongGuest, P!WrongNotes, P!WrongBookings, P!Panel, P!Late
  <1>7. QED
    BY <1>4, <1>5, <1>6

LEMMA PanelStep ==
    ASSUME PanelInv, NotesGood, [Next]_vars
    PROVE  [PanelAction]_(P!guestVars)
  <1>1. P!GuestNext \/ UNCHANGED P!guestVars
    BY DEF Next, vars, guestVars, P!guestVars
  <1>2. CASE P!GuestNext
    <2>1. PanelInv'
      BY <1>2, PanelSteps
    <2>2. (P!Panel /\ sel.id \notin doubt \cup {None} /\ P!About(sel.id) = {}
             => sel.flags = record[sel.id])'
      <3>1. SUFFICES ASSUME sel' # None, sel'.id \notin doubt' \cup {None}, P!About(sel.id)' = {}
            PROVE  sel'.flags = record'[sel'.id]
        BY DEF P!Panel
      <3>2. \A k \in calls' : OnFlags(k) => k.id # sel'.id
        BY <3>1 DEF P!About, OnFlags, P!Changes, P!QuickChanges
      <3>3. FlagsGood'
        BY <2>1, <3>1 DEF PanelInv, SelGood
      <3>4. QED
        BY <3>2, <3>3 DEF FlagsGood, OnFlags, P!Changes, P!QuickChanges
    <2>3. CASE \E c \in calls : P!Answer(c) \/ P!Fail(c)
      <3>1. PICK c \in calls : P!Answer(c) \/ P!Fail(c)
        BY <2>3
      <3>2. Blamed(c) /\ c \in P!Ended
        BY <3>1, FailBlamed, AnswerBlamed, CallEnds
      <3>3. QED
        BY <2>2, <3>2 DEF PanelAction, Blamed
    <2>4. CASE ~ \E c \in calls : P!Answer(c) \/ P!Fail(c)
      BY <1>2, <2>2, <2>4, PanelUnharmed DEF PanelAction
    <2>5. QED
      BY <2>3, <2>4
  <1>3. QED
    BY <1>1, <1>2

LEMMA PanelNext ==
    ASSUME PanelInv, NotesGood, [Next]_vars
    PROVE  PanelInv' /\ NotesGood'
  <1>1. P!GuestNext \/ UNCHANGED guestVars
    BY DEF Next, vars
  <1>2. CASE UNCHANGED guestVars
    BY <1>2, PanelRests DEF guestVars, NotesGood, PanelInv
  <1>3. QED
    BY <1>1, <1>2, PanelSteps, NotesStep

(* The panel comes to show another guest, another's notes or bookings only  *)
(* when a call about a guest chosen earlier ends, when the right ones could *)
(* not be read, when a profile fills a panel emptied under an open tab, or  *)
(* when a change is answered into an emptied panel; and the flags it shows  *)
(* are the server's when no call about the guest is out and the guest is    *)
(* not in doubt (GuestIntelligence.jsx:263-385, for any number of guests,   *)
(* clicks and calls in flight).                                             *)
THEOREM PanelAlwaysExplained == Spec => PanelShowsChosen
  <1>1. Init => PanelInv /\ NotesGood
    BY PanelInit DEF Init, P!GuestInit, P!Blank, NotesGood
  <1>2. PanelInv /\ NotesGood /\ [Next]_vars => (PanelInv /\ NotesGood)'
    BY PanelNext
  <1>3. QED
    BY <1>1, <1>2, PanelStep, PTL DEF Spec, PanelShowsChosen, P!PanelShowsChosen, PanelAction

-----------------------------------------------------------------------------
(* The search for hotels and rooms. *)

Texts == Places \cup {None}
TextsTyped ==
    /\ destination \in Texts /\ suggestions \in Texts /\ location \in Texts
    /\ debounced \subseteq Texts /\ \A p, r \in debounced : p = r

OfList(q) == q.kind \in {"list", "more"}
RequestGood(q) ==
    /\ q.no \in 1..requested /\ q.page \in Nat
    /\ q.kind \in {"suggest", "list", "more"} => q.of \in Texts
    /\ q.kind = "list" => q.page = 1
RequestsGood ==
    /\ requested \in Nat /\ \A q \in requests : RequestGood(q)
    /\ \A q, r \in requests : q.no = r.no => q = r

(* The list ends with the page that was read last. *)
ListedGood ==
    /\ listed \in Seq(Texts \X Nat) /\ listPage \in Nat
    /\ listed # <<>> => listed[Len(listed)][2] = listPage

(* A further page that was asked for while nothing was being read, and     *)
(* after which nothing was asked for, is the one that is missing.          *)
FurtherGood ==
    \A q \in requests : q.kind = "more" /\ q.no = requested /\ ~ q.over =>
        /\ listed # <<>> /\ q.page = listPage + 1
        /\ \A r \in requests : OfList(r) => r = q

Headed == mode = "rooms" /\ selectedHotel = None => linked

SearchInv == TextsTyped /\ RequestsGood /\ ListedGood /\ FurtherGood /\ Headed

LEMMA NoPlace == None \notin Places \cup Hotels
  BY RouterAssumption DEF S!HotelSearchAssumption

(* What the next request is. *)
LEMMA RequestMade ==
    ASSUME SearchInv, NEW n \in {1, 2}, NEW kind, NEW of, NEW pg, NEW q, q = S!Request(n, kind, of, pg)
    PROVE  /\ q.no = requested + n /\ q.kind = kind /\ q.of = of /\ q.page = pg
           /\ ~ q.over => \A r \in requests : ~ OfList(r)
  BY DEF S!Request, OfList

(* A request is sent, the list being as it is. *)
LEMMA RequestSent ==
    ASSUME SearchInv, NEW kind, NEW of, NEW pg \in Nat, S!Ask(kind, of, pg),
           kind \in {"suggest", "list", "more"} => of \in Texts,
           kind = "list" => pg = 1,
           kind = "more" => listed # <<>> /\ pg = listPage + 1,
           UNCHANGED <<listed, listPage>>
    PROVE  RequestsGood' /\ FurtherGood' /\ ListedGood' /\ requests \subseteq requests'
  <1>1. PICK q : q = S!Request(1, kind, of, pg)
    OBVIOUS
  <1>2. /\ q.no = requested + 1 /\ q.kind = kind /\ q.of = of /\ q.page = pg
        /\ ~ q.over => \A r \in requests : ~ OfList(r)
    BY <1>1, RequestMade
  <1>3. requests' = requests \cup {q} /\ requested' = requested + 1
    BY <1>1 DEF S!Ask
  <1>4. requested \in Nat /\ \A r \in requests : r.no \in 1..requested
    BY DEF SearchInv, RequestsGood, RequestGood
  <1>5. RequestsGood'
    BY <1>2, <1>3, <1>4 DEF SearchInv, RequestsGood, RequestGood
  <1>6. FurtherGood'
    BY <1>2, <1>3, <1>4 DEF FurtherGood, OfList
  <1>7. QED
    BY <1>3, <1>5, <1>6 DEF SearchInv, ListedGood

(* A request ends that is not one of the list's; others may follow it. *)
LEMMA RequestEnds ==
    ASSUME SearchInv, NEW q \in requests, ~ OfList(q), UNCHANGED <<listed, listPage>>,
           \/ requests' = requests \ {q} /\ requested' = requested
           \/ \E kind, of, pg : /\ requests' = (requests \ {q}) \cup {S!Request(1, kind, of, pg)}
                                /\ requested' = requested + 1
                                /\ kind \notin {"suggest", "list", "more"} /\ pg \in Nat
           \/ \E of : /\ requests' = (requests \ {q}) \cup {S!Request(1, "second", None, 2),
                                                            S!Request(2, "rooms", of, 1)}
                      /\ requested' = requested + 2
    PROVE  RequestsGood' /\ FurtherGood' /\ ListedGood'
  <1>1. requested \in Nat /\ \A r \in requests : r.no \in 1..requested
    BY DEF SearchInv, RequestsGood, RequestGood
  <1>2. ListedGood'
    BY DEF SearchInv, ListedGood
  <1>3. CASE requests' = requests \ {q} /\ requested' = requested
    BY <1>2, <1>3 DEF SearchInv, RequestsGood, RequestGood, FurtherGood, OfList
  <1>4. CASE \E kind, of, pg : /\ requests' = (requests \ {q}) \cup {S!Request(1, kind, of, pg)}
                               /\ requested' = requested + 1
                               /\ kind \notin {"suggest", "list", "more"} /\ pg \in Nat
    <2>1. PICK kind, of, pg : /\ requests' = (requests \ {q}) \cup {S!Request(1, kind, of, pg)}
                              /\ requested' = requested + 1
                              /\ kind \notin {"suggest", "list", "more"} /\ pg \in Nat
      BY <1>4
    <2>2. PICK n : n = S!Request(1, kind, of, pg)
      OBVIOUS
    <2>3. n.no = requested + 1 /\ n.kind = kind /\ n.page = pg
      BY <2>2, RequestMade
    <2>4. requests' = (requests \ {q}) \cup {n}
      BY <2>1, <2>2
    <2>5. RequestsGood'
      BY <1>1, <2>1, <2>3, <2>4 DEF SearchInv, RequestsGood, RequestGood
    <2>6. FurtherGood'
      BY <1>1, <2>1, <2>3, <2>4 DEF FurtherGood
    <2>7. QED
      BY <1>2, <2>5, <2>6
  <1>5. CASE \E of : /\ requests' = (requests \ {q}) \cup {S!Request(1, "second", None, 2),
                                                           S!Request(2, "rooms", of, 1)}
                     /\ requested' = requested + 2
    <2>1. PICK of : /\ requests' = (requests \ {q}) \cup {S!Request(1, "second", None, 2),
                                                          S!Request(2, "rooms", of, 1)}
                    /\ requested' = requested + 2
      BY <1>5
    <2>2. PICK m, n : m = S!Request(1, "second", None, 2) /\ n = S!Request(2, "rooms", of, 1)
      OBVIOUS
    <2>3. /\ m.no = requested + 1 /\ m.kind = "second" /\ m.page = 2
          /\ n.no = requested + 2 /\ n.kind = "rooms" /\ n.page = 1
      BY <2>2, RequestMade
    <2>4. requests' = (requests \ {q}) \cup {m, n}
      BY <2>1, <2>2
    <2>5. RequestsGood'
      BY <1>1, <2>1, <2>3, <2>4 DEF SearchInv, RequestsGood, RequestGood
    <2>6. FurtherGood'
      BY <1>1, <2>1, <2>3, <2>4 DEF FurtherGood
    <2>7. QED
      BY <1>2, <2>5, <2>6
  <1>6. QED
    BY <1>3, <1>4, <1>5

LEMMA Appended ==
    ASSUME NEW Of, NEW s \in Seq(Of), NEW e \in Of
    PROVE  /\ Append(s, e) \in Seq(Of) /\ <<e>> \in Seq(Of)
           /\ Len(Append(s, e)) = Len(s) + 1 /\ Len(<<e>>) = 1
           /\ \A i \in 1..Len(s) : Append(s, e)[i] = s[i]
           /\ Append(s, e)[Len(s) + 1] = e /\ <<e>>[1] = e
  OBVIOUS

(* An answer about the list: pages are added to it or replace it. *)
LEMMA ListEnds ==
    ASSUME SearchInv, NEW q \in requests, S!ListArrives(q) \/ S!ListFails(q)
    PROVE  SearchInv'
  <1>1. /\ requests' = requests \ {q} /\ requested' = requested /\ OfList(q)
        /\ UNCHANGED <<destination, debounced, suggestions, location, mode, selectedHotel, linked>>
    BY DEF S!ListArrives, S!ListFails, S!barVars, S!roomVars, OfList
  <1>2. TextsTyped' /\ RequestsGood' /\ Headed'
    BY <1>1 DEF SearchInv, TextsTyped, RequestsGood, RequestGood, Headed
  <1>3. FurtherGood'
    <2>1. SUFFICES ASSUME NEW r \in requests', r.kind = "more", r.no = requested, ~ r.over
          PROVE  FALSE
      BY <1>1 DEF FurtherGood
    <2>2. \A s \in requests : OfList(s) => s = r
      BY <1>1, <2>1 DEF SearchInv, FurtherGood
    <2>3. QED
      BY <1>1, <2>1, <2>2
  <1>4. ListedGood'
    <2>1. CASE S!ListFails(q)
      BY <2>1 DEF S!ListFails, SearchInv, ListedGood
    <2>2. CASE S!ListArrives(q)
      <3>1. <<q.of, q.page>> \in Texts \X Nat
        BY <1>1 DEF SearchInv, RequestsGood, RequestGood, OfList
      <3>2. /\ listPage' = q.page
            /\ listed' = IF q.kind = "more" THEN Append(listed, <<q.of, q.page>>) ELSE <<<<q.of, q.page>>>>
        BY <2>2 DEF S!ListArrives
      <3>3. PICK page : page = <<q.of, q.page>>
        OBVIOUS
      <3>4. page \in Texts \X Nat /\ page[2] = listPage' /\ listPage' \in Nat
        BY <3>1, <3>2, <3>3
      <3>5. listed' = Append(listed, page) \/ listed' = <<page>>
        BY <3>2, <3>3
      <3>6. listed \in Seq(Texts \X Nat)
        BY DEF SearchInv, ListedGood
      <3>7. listed' \in Seq(Texts \X Nat) /\ listed'[Len(listed')] = page
        <4>1. CASE listed' = Append(listed, page)
          <5>1. /\ Append(listed, page) \in Seq(Texts \X Nat)
                /\ Len(Append(listed, page)) = Len(listed) + 1 /\ Append(listed, page)[Len(listed) + 1] = page
            BY <3>4, <3>6, Appended
          <5>2. QED
            BY <4>1, <5>1
        <4>2. CASE listed' = <<page>>
          BY <3>4, <4>2
        <4>3. QED
          BY <3>5, <4>1, <4>2
      <3>8. QED
        BY <3>4, <3>7 DEF ListedGood
    <2>3. QED
      BY <2>1, <2>2
  <1>5. QED
    BY <1>2, <1>3, <1>4 DEF SearchInv

(* What the visitor does without asking for anything. *)
LEMMA SearchRests ==
    ASSUME SearchInv,
           \/ S!SelectSuggestion \/ S!ToggleSuggestions \/ S!BackToHotels
           \/ \E p \in Texts : S!Type(p)
           \/ UNCHANGED searchVars
    PROVE  SearchInv'
  <1>1. UNCHANGED <<requests, requested, listed, listPage, location>>
    BY DEF S!SelectSuggestion, S!ToggleSuggestions, S!BackToHotels, S!Type, S!Stay, S!listVars, searchVars
  <1>2. TextsTyped'
    BY DEF SearchInv, TextsTyped, Texts, S!SelectSuggestion, S!ToggleSuggestions, S!BackToHotels, S!Type,
           S!barVars, S!listVars, searchVars
  <1>3. RequestsGood' /\ ListedGood' /\ FurtherGood'
    BY <1>1 DEF SearchInv, RequestsGood, RequestGood, ListedGood, FurtherGood, OfList
  <1>4. Headed'
    BY DEF SearchInv, Headed, S!SelectSuggestion, S!ToggleSuggestions, S!BackToHotels, S!Type,
           S!roomVars, searchVars
  <1>5. QED
    BY <1>2, <1>3, <1>4 DEF SearchInv

LEMMA HotelsStep ==
    ASSUME SearchInv, S!SubmitSearch
    PROVE  SearchInv'
  <1>1. PICK q : q = S!Request(1, "list", destination, 1)
    OBVIOUS
  <1>2. q.no = requested + 1 /\ q.kind = "list" /\ q.of = destination /\ q.page = 1
    BY <1>1, RequestMade
  <1>3. requests' = {q} /\ requested' = requested + 1 /\ listed' = <<>> /\ listPage' = 1
    BY <1>1 DEF S!SubmitSearch
  <1>4. TextsTyped' /\ Headed'
    BY DEF S!SubmitSearch, SearchInv, TextsTyped, Texts, Headed, S!roomVars
  <1>5. RequestsGood' /\ ListedGood' /\ FurtherGood'
    BY <1>2, <1>3 DEF SearchInv, TextsTyped, RequestsGood, RequestGood, ListedGood, FurtherGood
  <1>6. QED
    BY <1>4, <1>5 DEF SearchInv

(* The visitor's steps that ask for something, and leave the address bar's *)
(* text and the headings typed.                                            *)
LEMMA SearchAsks ==
    ASSUME SearchInv,
           \/ S!LookUp \/ S!LoadMore \/ S!TryAgain \/ S!FetchAgain \/ S!RetryRooms
           \/ \E p \in Texts : S!ChangeSearch(p)
           \/ \E h \in Hotels : S!ViewRooms(h)
           \/ \E u \in Hotels \cup {None} : S!PopAddress(u)
    PROVE  SearchInv'
  <1>1. TextsTyped'
    BY DEF SearchInv, TextsTyped, Texts, S!LookUp, S!LoadMore, S!TryAgain, S!FetchAgain, S!RetryRooms,
           S!ChangeSearch, S!ViewRooms, S!PopAddress, S!barVars, S!listVars
  <1>2. Headed'
    BY NoPlace DEF SearchInv, Headed, S!LookUp, S!LoadMore, S!TryAgain, S!FetchAgain, S!RetryRooms,
           S!ChangeSearch, S!ViewRooms, S!PopAddress, S!EnterRoomMode, S!roomVars
  <1>3. UNCHANGED <<listed, listPage>>
    BY DEF S!LookUp, S!LoadMore, S!TryAgain, S!FetchAgain, S!RetryRooms, S!ChangeSearch, S!ViewRooms,
           S!PopAddress, S!listVars
  <1>4. \/ UNCHANGED <<requests, requested>>
        \/ \E p \in Texts : S!Ask("suggest", p, 1) \/ S!Ask("list", p, 1)
        \/ S!Ask("hotels", None, 1)
        \/ \E h : S!Ask("rooms", h, 1)
        \/ S!LoadMore
    <2>1. CASE S!LookUp
      BY <2>1 DEF S!LookUp, S!Stay, SearchInv, TextsTyped
    <2>2. CASE S!TryAgain \/ \E p \in Texts : S!ChangeSearch(p)
      BY <2>2 DEF S!TryAgain, S!ChangeSearch, S!FetchHotels, SearchInv, TextsTyped
    <2>3. CASE S!FetchAgain \/ S!RetryRooms \/ \E h \in Hotels : S!ViewRooms(h)
      BY <2>3 DEF S!FetchAgain, S!RetryRooms, S!ViewRooms, S!EnterRoomMode
    <2>4. CASE \E u \in Hotels \cup {None} : S!PopAddress(u)
      BY <2>4 DEF S!PopAddress, S!EnterRoomMode, S!Stay
    <2>5. QED
      BY <2>1, <2>2, <2>3, <2>4
  <1>5. RequestsGood' /\ FurtherGood' /\ ListedGood'
    <2>1. CASE UNCHANGED <<requests, requested>>
      BY <1>3, <2>1 DEF SearchInv, RequestsGood, RequestGood, ListedGood, FurtherGood, OfList
    <2>2. CASE \E p \in Texts : S!Ask("suggest", p, 1) \/ S!Ask("list", p, 1)
      BY <1>3, <2>2, RequestSent
    <2>3. CASE S!Ask("hotels", None, 1) \/ \E h : S!Ask("rooms", h, 1)
      BY <1>3, <2>3, RequestSent
    <2>4. CASE S!LoadMore
      <3>1. /\ listed # <<>> /\ location \in Texts /\ listPage \in Nat
            /\ S!Ask(IF listPage + 1 = 1 THEN "list" ELSE "more", location, listPage + 1)
        BY <2>4 DEF S!LoadMore, S!FetchHotels, SearchInv, TextsTyped, ListedGood
      <3>2. CASE listPage + 1 = 1
        BY <1>3, <3>1, <3>2, RequestSent
      <3>3. CASE listPage + 1 # 1
        <4>1. S!Ask("more", location, listPage + 1)
          BY <3>1, <3>3
        <4>2. QED
          BY <1>3, <3>1, <4>1, RequestSent
      <3>4. QED
        BY <3>2, <3>3
    <2>5. QED
      BY <1>4, <2>1, <2>2, <2>3, <2>4
  <1>6. QED
    BY <1>1, <1>2, <1>5 DEF SearchInv

(* The other answers. *)
LEMMA SearchAnswers ==
    ASSUME SearchInv, NEW q \in requests,
           \/ S!Suggested(q) \/ S!HotelsArrive(q) \/ S!HotelsFail(q) \/ S!SecondPage(q)
           \/ S!RoomsArrive(q) \/ S!RoomsFail(q)
    PROVE  SearchInv'
  <1>1. ~ OfList(q) /\ UNCHANGED <<listed, listPage>>
    BY DEF S!Suggested, S!HotelsArrive, S!HotelsFail, S!SecondPage, S!RoomsArrive, S!RoomsFail,
           S!listVars, OfList
  <1>2. TextsTyped'
    <2>1. suggestions' \in {suggestions, None} \/ (q.kind = "suggest" /\ suggestions' = q.of)
      BY DEF S!Suggested, S!HotelsArrive, S!HotelsFail, S!SecondPage, S!RoomsArrive, S!RoomsFail, S!barVars
    <2>2. UNCHANGED <<destination, debounced, location>>
      BY DEF S!Suggested, S!HotelsArrive, S!HotelsFail, S!SecondPage, S!RoomsArrive, S!RoomsFail,
             S!barVars, S!listVars
    <2>3. QED
      BY <2>1, <2>2 DEF SearchInv, TextsTyped, RequestsGood, RequestGood, Texts
  <1>3. Headed'
    BY DEF SearchInv, Headed, S!Suggested, S!HotelsArrive, S!HotelsFail, S!SecondPage, S!RoomsArrive,
           S!RoomsFail, S!roomVars
  <1>4. RequestsGood' /\ FurtherGood' /\ ListedGood'
    <2>1. CASE S!Suggested(q) \/ S!SecondPage(q) \/ S!RoomsArrive(q) \/ S!RoomsFail(q)
      <3>1. requests' = requests \ {q} /\ requested' = requested
        BY <2>1 DEF S!Suggested, S!SecondPage, S!RoomsArrive, S!RoomsFail
      <3>2. QED
        BY <1>1, <3>1, RequestEnds
    <2>2. CASE S!HotelsFail(q)
      <3>1. \/ requests' = requests \ {q} /\ requested' = requested
            \/ /\ requests' = (requests \ {q}) \cup {S!Request(1, "hotels", None, 1)}
               /\ requested' = requested + 1
        BY <2>2 DEF S!HotelsFail
      <3>2. QED
        BY <1>1, <3>1, RequestEnds
    <2>3. CASE S!HotelsArrive(q)
      <3>1. \/ /\ requests' = (requests \ {q}) \cup {S!Request(1, "second", None, 2)}
               /\ requested' = requested + 1
            \/ /\ requests' = (requests \ {q}) \cup {S!Request(1, "second", None, 2),
                                                     S!Request(2, "rooms", hotelId, 1)}
               /\ requested' = requested + 2
        BY <2>3 DEF S!HotelsArrive
      <3>2. QED
        BY <1>1, <3>1, RequestEnds
    <2>4. QED
      BY <2>1, <2>2, <2>3
  <1>5. QED
    BY <1>2, <1>3, <1>4 DEF SearchInv

LEMMA SearchSteps ==
    ASSUME SearchInv, S!SearchNext \/ UNCHANGED searchVars
    PROVE  SearchInv'
  BY HotelsStep, SearchRests, SearchAsks, SearchAnswers, ListEnds DEF S!SearchNext, Texts

LEMMA SearchStart ==
    ASSUME S!SearchInit
    PROVE  SearchInv
  <1>1. TextsTyped
    BY DEF S!SearchInit, TextsTyped, Texts
  <1>2. RequestsGood /\ FurtherGood
    BY DEF S!SearchInit, RequestsGood, RequestGood, FurtherGood
  <1>3. ListedGood /\ Headed
    BY NoPlace DEF S!SearchInit, ListedGood, Headed
  <1>4. QED
    BY <1>1, <1>2, <1>3 DEF SearchInv

(* An answer is the end of its request. *)
LEMMA RequestEnded ==
    ASSUME SearchInv, NEW q \in requests,
           \/ S!Suggested(q) \/ S!ListArrives(q) \/ S!RoomsArrive(q) \/ S!RoomsFail(q)
    PROVE  q \in S!Ended
  <1>1. requests' = requests \ {q}
    BY DEF S!Suggested, S!ListArrives, S!RoomsArrive, S!RoomsFail
  <1>2. QED
    BY <1>1 DEF S!Ended, SearchInv, RequestsGood

(* The suggestions are wrong only after an answer that is late. *)
LEMMA SuggestionsExplained ==
    ASSUME SearchInv, S!SearchNext, S!WrongSuggestions', ~ S!WrongSuggestions
    PROVE  \E q \in S!Ended : S!Late(q)
  <1>1. CASE \E q \in requests : S!Suggested(q)
    <2>1. PICK q \in requests : S!Suggested(q)
      BY <1>1
    <2>2. q.kind = "suggest" /\ requests' = requests \ {q} /\ UNCHANGED <<destination, debounced>>
      BY <2>1 DEF S!Suggested
    <2>3. suggestions' = q.of \/ suggestions' = None
      BY <2>1 DEF S!Suggested
    <2>4. q.of # destination
      BY <2>2, <2>3 DEF S!WrongSuggestions
    <2>5. S!Late(q)
      BY <2>2, <2>4 DEF S!Late
    <2>6. QED
      BY <2>1, <2>5, RequestEnded
  <1>2. CASE S!LookUp
    <2>1. /\ debounced' = {} /\ UNCHANGED <<destination>>
          /\ \/ suggestions' = None
             \/ suggestions' = suggestions /\ \E p \in debounced : S!Ask("suggest", p, 1)
      BY <1>2 DEF S!LookUp
    <2>2. PICK p \in debounced : S!Ask("suggest", p, 1)
      BY <2>1 DEF S!WrongSuggestions
    <2>3. PICK n : n = S!Request(1, "suggest", p, 1)
      OBVIOUS
    <2>4. n.kind = "suggest" /\ n.of = p /\ requests' = requests \cup {n}
      BY <2>2, <2>3, RequestMade DEF S!Ask
    <2>5. destination \in debounced => p = destination
      BY DEF SearchInv, TextsTyped
    <2>6. QED
      BY <2>1, <2>4, <2>5 DEF S!WrongSuggestions
  <1>3. CASE S!SelectSuggestion \/ S!SubmitSearch \/ \E p \in Texts : S!Type(p)
    BY <1>3 DEF S!SelectSuggestion, S!SubmitSearch, S!Type, S!WrongSuggestions
  <1>4. CASE ~ (\/ \E q \in requests : S!Suggested(q)
                \/ S!LookUp \/ S!SelectSuggestion \/ S!SubmitSearch \/ \E p \in Texts : S!Type(p))
    <2>1. UNCHANGED <<destination, debounced, suggestions>>
      BY <1>4 DEF S!SearchNext, Texts, S!ToggleSuggestions, S!LoadMore, S!TryAgain, S!FetchAgain,
                  S!BackToHotels, S!RetryRooms, S!ChangeSearch, S!ViewRooms, S!PopAddress,
                  S!ListArrives, S!ListFails, S!HotelsArrive, S!HotelsFail, S!SecondPage,
                  S!RoomsArrive, S!RoomsFail, S!barVars
    <2>2. \A q \in requests : q.kind = "suggest" => q \in requests'
      BY <1>4 DEF S!SearchNext, Texts, S!ToggleSuggestions, S!LoadMore, S!TryAgain, S!FetchAgain,
                  S!BackToHotels, S!RetryRooms, S!ChangeSearch, S!ViewRooms, S!PopAddress,
                  S!ListArrives, S!ListFails, S!HotelsArrive, S!HotelsFail, S!SecondPage,
                  S!RoomsArrive, S!RoomsFail, S!FetchHotels, S!EnterRoomMode, S!Ask, S!Stay
    <2>3. QED
      BY <2>1, <2>2 DEF S!WrongSuggestions
  <1>5. QED
    BY <1>1, <1>2, <1>3, <1>4

(* The list is wrong only after an answer that is late, or under a new     *)
(* heading.                                                                *)
LEMMA ListExplained ==
    ASSUME SearchInv, S!SearchNext, S!WrongList', ~ S!WrongList
    PROVE  location' # location \/ \E q \in S!Ended : S!Late(q)
  <1>1. CASE S!SubmitSearch
    <2>1. listed' = <<>>
      BY <1>1 DEF S!SubmitSearch
    <2>2. QED
      BY <2>1 DEF S!WrongList
  <1>2. CASE \E q \in requests : S!ListArrives(q)
    <2>1. PICK q \in requests : S!ListArrives(q)
      BY <1>2
    <2>2. /\ OfList(q) /\ location' = location /\ site' = site
          /\ listed' = IF q.kind = "more" THEN Append(listed, <<q.of, q.page>>) ELSE <<<<q.of, q.page>>>>
      BY <2>1 DEF S!ListArrives, OfList
    <2>3. SUFFICES ASSUME ~ S!Late(q) PROVE FALSE
      BY <2>1, RequestEnded
    <2>4. q.of = location /\ (q.kind = "more" => q.no >= requested /\ ~ q.over)
      BY <2>2, <2>3 DEF S!Late, OfList, SearchInv, RequestsGood, RequestGood
    <2>5. site = "results" /\ listed = [n \in 1..Len(listed) |-> <<location, n>>]
      BY <2>2 DEF S!WrongList
    <2>6. PICK page : page = <<location, q.page>>
      OBVIOUS
    <2>7. page \in Texts \X Nat /\ listed \in Seq(Texts \X Nat)
      BY <2>6 DEF SearchInv, RequestsGood, RequestGood, ListedGood, TextsTyped
    <2>8. CASE q.kind = "list"
      <3>1. q.page = 1 /\ listed' = <<page>>
        BY <2>2, <2>4, <2>6, <2>8 DEF SearchInv, RequestsGood, RequestGood
      <3>2. listed' = [n \in 1..Len(listed') |-> <<location', n>>]
        BY <2>2, <2>6, <3>1
      <3>3. QED
        BY <3>2 DEF S!WrongList
    <2>9. CASE q.kind = "more"
      <3>1. q.page = Len(listed) + 1
        <4>1. q.no = requested
          BY <2>4, <2>9 DEF SearchInv, RequestsGood, RequestGood
        <4>2. listed # <<>> /\ q.page = listPage + 1
          BY <2>4, <2>9, <4>1 DEF SearchInv, FurtherGood
        <4>3. listed[Len(listed)][2] = listPage
          BY <4>2 DEF SearchInv, ListedGood
        <4>4. Len(listed) \in 1..Len(listed)
          BY <2>7, <4>2
        <4>5. QED
          BY <2>5, <4>2, <4>3, <4>4
      <3>2. listed' = Append(listed, page)
        BY <2>2, <2>4, <2>6, <2>9
      <3>3. /\ Len(listed') = Len(listed) + 1 /\ listed'[Len(listed) + 1] = page
            /\ \A i \in 1..Len(listed) : listed'[i] = listed[i]
            /\ listed' \in Seq(Texts \X Nat)
        BY <2>7, <3>2, Appended
      <3>4. \A i \in 1..Len(listed') : listed'[i] = <<location, i>>
        <4>1. \A i \in 1..Len(listed) : listed[i] = <<location, i>>
          BY <2>5
        <4>2. Len(listed) \in Nat /\ listed'[Len(listed) + 1] = <<location, Len(listed) + 1>>
          BY <2>6, <2>7, <3>1, <3>3
        <4>3. QED
          BY <3>3, <4>1, <4>2
      <3>5. listed' = [n \in 1..Len(listed') |-> <<location', n>>]
        <4>1. listed' = [n \in 1..Len(listed') |-> listed'[n]]
          BY <3>3
        <4>2. QED
          BY <2>2, <3>4, <4>1
      <3>6. QED
        BY <3>5 DEF S!WrongList
    <2>10. QED
      BY <2>2, <2>8, <2>9 DEF OfList
  <1>3. CASE ~ (S!SubmitSearch \/ \E q \in requests : S!ListArrives(q))
    <2>1. UNCHANGED <<site, listed>>
      BY <1>3 DEF S!SearchNext, Texts, S!ToggleSuggestions, S!LoadMore, S!TryAgain, S!FetchAgain,
                  S!BackToHotels, S!RetryRooms, S!ChangeSearch, S!ViewRooms, S!PopAddress, S!LookUp,
                  S!SelectSuggestion, S!Type, S!Suggested,
                  S!ListFails, S!HotelsArrive, S!HotelsFail, S!SecondPage,
                  S!RoomsArrive, S!RoomsFail, S!listVars
    <2>2. QED
      BY <2>1 DEF S!WrongList
  <1>4. QED
    BY <1>1, <1>2, <1>3

(* The rooms are wrong only after an answer that is late, or a failure. *)
LEMMA RoomsExplained ==
    ASSUME SearchInv, S!SearchNext, S!WrongRooms', ~ S!WrongRooms
    PROVE  \E q \in S!Ended : q.kind = "rooms" /\ (S!Late(q) \/ roomsError')
  <1>1. CASE \E q \in requests : S!RoomsArrive(q) \/ S!RoomsFail(q)
    <2>1. PICK q \in requests : S!RoomsArrive(q) \/ S!RoomsFail(q)
      BY <1>1
    <2>2. q \in S!Ended
      BY <2>1, RequestEnded
    <2>3. q.kind = "rooms" /\ (roomsError' \/ (rooms' = q.of /\ selectedHotel' = selectedHotel))
      BY <2>1 DEF S!RoomsArrive, S!RoomsFail
    <2>4. QED
      BY <2>2, <2>3 DEF S!WrongRooms, S!Late
  <1>2. CASE ~ \E q \in requests : S!RoomsArrive(q) \/ S!RoomsFail(q)
    <2>1. roomsLoading' \/ mode' = "hotels" \/ UNCHANGED <<mode, roomsLoading, rooms, selectedHotel>>
      BY <1>2 DEF S!SearchNext, Texts, S!ToggleSuggestions, S!LoadMore, S!TryAgain, S!FetchAgain,
                  S!BackToHotels, S!RetryRooms, S!ChangeSearch, S!ViewRooms, S!PopAddress, S!LookUp,
                  S!SelectSuggestion, S!Type, S!Suggested, S!SubmitSearch, S!ListArrives,
                  S!ListFails, S!HotelsArrive, S!HotelsFail, S!SecondPage, S!EnterRoomMode, S!roomVars
    <2>2. QED
      BY <2>1 DEF S!WrongRooms
  <1>3. QED
    BY <1>1, <1>2

SearchAction ==
    /\ S!WrongSuggestions' /\ ~S!WrongSuggestions => \E q \in S!Ended : S!Late(q)
    /\ S!WrongList' /\ ~S!WrongList =>
         location' # location \/ \E q \in S!Ended : S!Late(q)
    /\ S!WrongRooms' /\ ~S!WrongRooms =>
         \E q \in S!Ended : q.kind = "rooms" /\ (S!Late(q) \/ roomsError')
    /\ (mode = "rooms" /\ selectedHotel = None => linked)'

LEMMA SearchStep ==
    ASSUME SearchInv, [Next]_vars
    PROVE  SearchInv' /\ [SearchAction]_(S!searchVars)
  <1>1. S!SearchNext \/ UNCHANGED searchVars
    BY DEF Next, vars
  <1>2. UNCHANGED searchVars => UNCHANGED S!searchVars
    BY DEF searchVars, S!searchVars, S!barVars, S!listVars, S!hotelVars, S!roomVars
  <1>3. SearchInv'
    BY <1>1, SearchSteps
  <1>4. CASE S!SearchNext
    BY <1>3, <1>4, SuggestionsExplained, ListExplained, RoomsExplained DEF SearchAction, SearchInv, Headed
  <1>5. QED
    BY <1>1, <1>2, <1>3, <1>4

(* Suggestions, results and rooms come to stand under a heading that is not *)
(* theirs only when an answer arrives that the visitor no longer waits for, *)
(* when the location changes and until its results are read, or when the    *)
(* rooms asked for could not be read (BookingSearchBar.jsx:64,              *)
(* SearchResults.jsx:93, Hotels.jsx:283, for any places, hotels, pages and  *)
(* steps).                                                                  *)
THEOREM ListsAlwaysExplained == Spec => ListsExplained
  <1>1. Init => SearchInv
    BY SearchStart DEF Init
  <1>2. SearchInv /\ [Next]_vars => SearchInv'
    BY SearchStep
  <1>3. QED
    BY <1>1, <1>2, SearchStep, PTL DEF Spec, ListsExplained, S!ListsExplained, SearchAction

-----------------------------------------------------------------------------
(* The pages that only show what they read. *)

Parts == R!T.parts

FiguresGood ==
    /\ \A p \in Parts : figures[p].at \in Nat /\ figures[p].at <= clock
    /\ R!T.together => \A p, q \in Parts : figures[p].of = figures[q].of

(* The last load is for the choice of now.  If nothing was out when it was *)
(* sent, it is alone, and no part it brings is older than the one shown.   *)
LoadGood(l) ==
    /\ l = [no |-> l.no, of |-> l.of, over |-> l.over, got |-> l.got, at |-> l.at]
    /\ l.no \in 1..loaded
    /\ l.got = [p \in Parts |-> l.got[p]]
    /\ l.at \in [Parts -> Nat] /\ \A p \in Parts : l.at[p] <= clock
    /\ l.no = loaded => l.of = choice
    /\ l.no = loaded /\ ~ l.over =>
          /\ loads = {l}
          /\ \A p \in Parts : l.got[p] # "waiting" => figures[p].at <= l.at[p]

ReportInv ==
    /\ loaded \in Nat /\ clock \in Nat /\ onView \in Views \cup {None}
    /\ \A l, m \in loads : l.no = m.no => l = m
    /\ onView = None => loads = {}
    /\ onView # None => FiguresGood /\ \A l \in loads : LoadGood(l)

LEMMA ViewsKnown ==
    /\ None \notin Views
    /\ \A v \in Views : v \in {"OccupancyReport", "RevenueReport", "GuestAnalytics", "SystemHealth",
                               "DashboardReports", "DashboardLists", "BookingCalendar",
                               "AssignedBookings", "DailySummary", "PaymentHistory",
                               "GuestDashboard", "Rooms"}
  BY RouterAssumption DEF R!ReportViewsAssumption

(* What the table has in common. *)
LEMMA TableRows ==
    ASSUME NEW v \in Views
    PROVE  /\ "samples" \in R!Table(v).extras => R!Table(v).open = {}
           /\ ~ R!Table(v).together => ~ R!Table(v).clears
           /\ "export" \in R!Table(v).extras => "report" \in R!Table(v).parts
  <1>1. CASE v \in {"OccupancyReport", "RevenueReport", "GuestAnalytics"}
    <2>1. R!Table(v) = R!Report
      BY <1>1 DEF R!Table, R!OccupancyReport, R!RevenueReport, R!GuestAnalytics
    <2>2. QED
      BY <2>1 DEF R!Report, R!View
  <1>2. CASE v \in {"SystemHealth", "DashboardReports", "DashboardLists", "BookingCalendar", "AssignedBookings"}
    BY <1>2 DEF R!Table, R!SystemHealth, R!DashboardReports, R!DashboardLists, R!BookingCalendar,
                R!AssignedBookings, R!View
  <1>3. CASE v \in {"DailySummary", "PaymentHistory", "GuestDashboard", "Rooms"}
    BY <1>3 DEF R!Table, R!DailySummary, R!PaymentHistory, R!GuestDashboard, R!Rooms, R!View
  <1>4. QED
    BY <1>1, <1>2, <1>3, ViewsKnown

(* A load is sent, for the choice that is then above the figures. *)
LEMMA LoadSent ==
    ASSUME ReportInv, NEW v \in Views, R!Ask(v, choice'), onView' = v, clock' = clock,
           onView # None => v = onView /\ figures' = figures,
           onView = None => FiguresGood'
    PROVE  ReportInv'
  <1>1. PICK n : n = R!Load(v, choice')
    OBVIOUS
  <1>2. loaded \in Nat /\ loaded' = loaded + 1 /\ loads' = loads \cup {n}
    BY <1>1 DEF R!Ask, ReportInv
  <1>3. /\ n = [no |-> n.no, of |-> n.of, over |-> n.over, got |-> n.got, at |-> n.at]
        /\ n.no = loaded + 1 /\ n.of = choice' /\ (~ n.over => loads = {})
        /\ n.got = [p \in R!Table(v).parts |-> "waiting"] /\ n.at = [p \in R!Table(v).parts |-> 0]
    BY <1>1 DEF R!Load
  <1>4. Parts' = R!Table(v).parts /\ v # None
    BY ViewsKnown DEF Parts, R!T
  <1>5. LoadGood(n)'
    BY <1>2, <1>3, <1>4 DEF LoadGood, ReportInv
  <1>6. \A l \in loads : l.no \in 1..loaded
    BY DEF ReportInv, LoadGood
  <1>7. \A l \in loads : LoadGood(l)'
    <2>1. SUFFICES ASSUME NEW l \in loads PROVE LoadGood(l)'
      OBVIOUS
    <2>2. onView # None /\ LoadGood(l) /\ Parts' = Parts
      BY <1>4 DEF ReportInv, Parts, R!T
    <2>3. QED
      BY <1>2, <2>2 DEF LoadGood, ReportInv
  <1>8. FiguresGood'
    BY ViewsKnown DEF ReportInv, FiguresGood, Parts, R!T
  <1>9. QED
    BY <1>2, <1>3, <1>4, <1>5, <1>6, <1>7, <1>8 DEF ReportInv

LEMMA LoadServed ==
    ASSUME ReportInv, NEW l \in loads, NEW p \in Parts, R!Serve(l, p)
    PROVE  ReportInv'
  <1>1. PICK outcome, m : /\ outcome # "waiting" /\ loads' = (loads \ {l}) \cup {m}
                          /\ m = [l EXCEPT !.got[p] = outcome, !.at[p] = clock]
    BY DEF R!Serve
  <1>2. UNCHANGED <<onView, choice, figures, clock, loaded, Parts>>
    BY DEF R!Serve, Parts, R!T
  <1>3. onView # None /\ LoadGood(l) /\ FiguresGood /\ clock \in Nat /\ loaded \in Nat
    BY DEF ReportInv
  <1>4. m = [no |-> l.no, of |-> l.of, over |-> l.over,
             got |-> [l.got EXCEPT ![p] = outcome], at |-> [l.at EXCEPT ![p] = clock]]
    BY <1>1, <1>3 DEF LoadGood
  <1>5. /\ m.no = l.no /\ m.of = l.of /\ m.over = l.over
        /\ m = [no |-> m.no, of |-> m.of, over |-> m.over, got |-> m.got, at |-> m.at]
        /\ m.got = [q \in Parts |-> IF q = p THEN outcome ELSE l.got[q]]
        /\ m.at = [q \in Parts |-> IF q = p THEN clock ELSE l.at[q]]
    BY <1>3, <1>4 DEF LoadGood
  <1>6. LoadGood(m)'
    <2>1. m.at \in [Parts -> Nat] /\ \A q \in Parts : m.at[q] <= clock
      BY <1>3, <1>5 DEF LoadGood
    <2>2. ASSUME m.no = loaded, ~ m.over
          PROVE  loads' = {m} /\ \A q \in Parts : m.got[q] # "waiting" => figures[q].at <= m.at[q]
      BY <1>1, <1>3, <1>5, <2>2 DEF LoadGood, FiguresGood
    <2>3. QED
      BY <1>2, <1>3, <1>5, <2>1, <2>2 DEF LoadGood
  <1>7. ASSUME NEW k \in loads, k # l PROVE LoadGood(k)'
    BY <1>2, <1>3, <1>7 DEF ReportInv, LoadGood
  <1>8. FiguresGood'
    BY <1>2, <1>3 DEF FiguresGood, R!T
  <1>9. QED
    BY <1>1, <1>2, <1>3, <1>5, <1>6, <1>7, <1>8 DEF ReportInv

(* What an answer brings of each part. *)
LEMMA LoadBrings ==
    ASSUME ReportInv, NEW l \in loads, R!Arrive(l), NEW p \in Parts
    PROVE  \/ figures'[p] = figures[p] /\ R!Failed(l) # {} /\ ~ R!T.clears
           \/ figures'[p].of = None /\ figures'[p].at = 0
           \/ /\ figures'[p].at = l.at[p] /\ l.got[p] # "waiting"
              /\ R!NoRooms(l) \/ figures'[p].of = l.of
  <1>1. onView \in Views
    BY DEF ReportInv
  <1>2. CASE R!T.together /\ R!Failed(l) # {}
    <2>1. figures' = IF R!T.clears THEN R!Empty(Parts) ELSE figures
      BY <1>2 DEF R!Arrive, Parts
    <2>2. QED
      BY <1>2, <2>1 DEF R!Empty
  <1>3. CASE ~ (R!T.together /\ R!Failed(l) # {})
    <2>1. /\ figures'[p] = IF p \in R!Failed(l) THEN figures[p]
                           ELSE [of |-> IF R!NoRooms(l) THEN "samples" ELSE l.of, at |-> l.at[p]]
          /\ l.got[p] # "waiting"
      BY <1>3 DEF R!Arrive, R!Settled, Parts
    <2>2. p \in R!Failed(l) => ~ R!T.clears /\ R!Failed(l) # {}
      BY <1>1, <1>3, TableRows DEF R!T
    <2>3. QED
      BY <2>1, <2>2
  <1>4. QED
    BY <1>2, <1>3

LEMMA LoadArrives ==
    ASSUME ReportInv, NEW l \in loads, R!Arrive(l)
    PROVE  ReportInv' /\ l \in R!Ended
  <1>1. /\ UNCHANGED <<onView, choice, clock, loaded, Parts>> /\ loads' = loads \ {l}
    BY DEF R!Arrive, Parts, R!T
  <1>2. onView # None /\ LoadGood(l) /\ FiguresGood /\ clock \in Nat
    BY DEF ReportInv
  <1>3. \A p \in Parts : figures'[p].at \in Nat /\ figures'[p].at <= clock
    <2>1. SUFFICES ASSUME NEW p \in Parts
          PROVE  figures'[p].at \in Nat /\ figures'[p].at <= clock
      OBVIOUS
    <2>2. figures'[p].at \in {figures[p].at, 0, l.at[p]}
      BY LoadBrings
    <2>3. QED
      BY <1>2, <2>2 DEF LoadGood, FiguresGood
  <1>4. R!T.together => \A p, q \in Parts : figures'[p].of = figures'[q].of
    <2>1. CASE R!T.together /\ R!Failed(l) # {}
      <3>1. figures' = R!Empty(Parts) \/ figures' = figures
        BY <2>1 DEF R!Arrive, Parts
      <3>2. QED
        BY <1>2, <3>1 DEF R!Empty, FiguresGood
    <2>2. CASE R!Failed(l) = {}
      <3>1. figures' = [p \in Parts |-> [of |-> IF R!NoRooms(l) THEN "samples" ELSE l.of, at |-> l.at[p]]]
        BY <2>2 DEF R!Arrive, Parts
      <3>2. QED
        BY <3>1
    <2>3. QED
      BY <2>1, <2>2
  <1>5. FiguresGood'
    BY <1>1, <1>3, <1>4 DEF FiguresGood, R!T
  <1>6. ASSUME NEW k \in loads, k # l PROVE LoadGood(k)'
    BY <1>1, <1>2, <1>6 DEF ReportInv, LoadGood
  <1>7. l \in R!Ended
    BY <1>1 DEF R!Ended, ReportInv
  <1>8. QED
    BY <1>1, <1>2, <1>5, <1>6, <1>7 DEF ReportInv

LEMMA ReportStart ==
    ASSUME R!ReportInit
    PROVE  ReportInv
  BY DEF R!ReportInit, ReportInv

LEMMA ReportMounts ==
    ASSUME ReportInv, NEW v \in Views, R!ReportMount(v)
    PROVE  /\ ReportInv' /\ onView = None /\ file' = file
           /\ ~ R!Mislabelled'
  <1>1. /\ onView = None /\ onView' = v /\ v # None /\ R!Ask(v, choice') /\ UNCHANGED <<clock, file>>
        /\ loadingFigures'
        /\ figures' = IF "samples" \in R!Table(v).extras THEN R!Samples(R!Table(v).parts)
                      ELSE R!Empty(R!Table(v).parts)
    BY ViewsKnown DEF R!ReportMount, R!Ask
  <1>2. Parts' = R!Table(v).parts /\ R!T' = R!Table(v)
    BY <1>1 DEF Parts, R!T
  <1>3. FiguresGood'
    BY <1>1, <1>2 DEF FiguresGood, R!Samples, R!Empty, ReportInv
  <1>4. ReportInv'
    BY <1>1, <1>3, LoadSent
  <1>5. ~ R!Mislabelled'
    <2>1. CASE "samples" \in R!Table(v).extras
      <3>1. R!T'.open = {}
        BY <1>2, <2>1, TableRows
      <3>2. QED
        BY <1>1, <3>1 DEF R!Mislabelled, R!Visible
    <2>2. CASE "samples" \notin R!Table(v).extras
      BY <1>1, <1>2, <2>2 DEF R!Mislabelled, R!Visible, R!Empty
    <2>3. QED
      BY <2>1, <2>2
  <1>6. QED
    BY <1>1, <1>4, <1>5

(* A step that keeps the figures and what stands above them. *)
ReportKeeps ==
    R!Refresh \/ R!ToggleAuto \/ R!Export \/ R!Tick
    \/ (\E c \in {"30d", "90d", "all", "confirmed", "every", "hotel"} : R!Choose(c))
    \/ (\E l \in loads : \E p \in Parts : R!Serve(l, p))

LEMMA ReportKept ==
    ASSUME ReportInv, ReportKeeps
    PROVE  /\ ReportInv' /\ UNCHANGED <<onView, figures>> /\ onView \in Views
           /\ UNCHANGED <<choice, loadingFigures>> \/ loadingFigures'
  <1>1. UNCHANGED <<onView, figures>> /\ (UNCHANGED <<choice, loadingFigures>> \/ loadingFigures')
    BY DEF ReportKeeps, R!Refresh, R!ToggleAuto, R!Export, R!Tick, R!Choose, R!Serve, R!Ask
  <1>2. onView \in Views
    BY DEF ReportInv, ReportKeeps, R!Refresh, R!ToggleAuto, R!Export, R!Tick, R!Choose
  <1>3. CASE R!Refresh \/ \E c \in {"30d", "90d", "all", "confirmed", "every", "hotel"} : R!Choose(c)
    <2>1. R!Ask(onView, choice') /\ clock' = clock
      BY <1>3 DEF R!Refresh, R!Choose
    <2>2. QED
      BY <1>1, <1>2, <2>1, LoadSent, ViewsKnown
  <1>4. CASE R!ToggleAuto \/ R!Export
    BY <1>1, <1>4 DEF R!ToggleAuto, R!Export, ReportInv, LoadGood, FiguresGood, Parts, R!T
  <1>5. CASE R!Tick
    <2>1. clock' = clock + 1 /\ UNCHANGED <<choice, loads, loaded, Parts>> /\ R!T' = R!T
      BY <1>5 DEF R!Tick, Parts, R!T
    <2>2. FiguresGood => FiguresGood'
      BY <1>1, <2>1 DEF ReportInv, FiguresGood
    <2>3. \A l \in loads : LoadGood(l) => LoadGood(l)'
      BY <1>1, <2>1 DEF ReportInv, LoadGood
    <2>4. QED
      BY <1>1, <1>2, <2>1, <2>2, <2>3 DEF ReportInv
  <1>6. CASE \E l \in loads : \E p \in Parts : R!Serve(l, p)
    BY <1>1, <1>2, <1>6, LoadServed
  <1>7. QED
    BY <1>1, <1>2, <1>3, <1>4, <1>5, <1>6 DEF ReportKeeps

ReportAction ==
    /\ R!Mislabelled' /\ ~R!Mislabelled =>
         \/ R!Overtaken \/ R!Keeps
         \/ loadingFigures' /\ \E p \in R!T.open : figures'[p].of # choice'
         \/ \E l \in R!Ended : R!NoRooms(l)
    /\ file' # file /\ file'.name # file'.rows => loadingFigures \/ R!Mislabelled
    /\ onView # None => \A p \in R!T.parts :
         figures'[p].of # None /\ figures'[p].at < figures[p].at =>
             R!Overtaken \/ \E l \in R!Ended : l.over
    /\ onView' # None /\ R!T'.together =>
         \A p, q \in R!T'.parts : figures'[p].of = figures'[q].of

LEMMA KeptExplained ==
    ASSUME ReportInv, ReportKeeps
    PROVE  ReportAction
  <1>1. /\ ReportInv' /\ UNCHANGED <<onView, figures>> /\ onView \in Views
        /\ UNCHANGED <<choice, loadingFigures>> \/ loadingFigures'
    BY ReportKept
  <1>2. R!T' = R!T
    BY <1>1 DEF R!T
  <1>3. ASSUME R!Mislabelled', ~ R!Mislabelled
        PROVE  loadingFigures' /\ \E p \in R!T.open : figures'[p].of # choice'
    <2>1. PICK p \in R!T.parts : R!Visible(p)' /\ figures'[p].of # choice'
      BY <1>2, <1>3 DEF R!Mislabelled
    <2>2. loadingFigures'
      BY <1>1, <1>2, <1>3, <2>1 DEF R!Mislabelled, R!Visible
    <2>3. QED
      BY <1>2, <2>1, <2>2 DEF R!Visible
  <1>4. file' # file /\ file'.name # file'.rows => loadingFigures \/ R!Mislabelled
    <2>1. SUFFICES ASSUME file' # file, file'.name # file'.rows, ~ loadingFigures PROVE R!Mislabelled
      OBVIOUS
    <2>2. R!Export
      BY <2>1 DEF ReportKeeps, R!Refresh, R!ToggleAuto, R!Tick, R!Choose, R!Serve
    <2>3. /\ onView # None /\ "export" \in R!T.extras /\ figures["report"].of # None
          /\ file' = [name |-> choice, rows |-> figures["report"].of]
      BY <2>2 DEF R!Export
    <2>4. "report" \in R!T.parts
      BY <1>1, <2>3, TableRows DEF R!T
    <2>5. QED
      BY <2>1, <2>3, <2>4 DEF R!Mislabelled, R!Visible
  <1>5. \A p \in R!T.parts : onView # None => ~ (figures'[p].at < figures[p].at)
    BY <1>1 DEF ReportInv, FiguresGood, Parts
  <1>6. onView' # None /\ R!T'.together => \A p, q \in R!T'.parts : figures'[p].of = figures'[q].of
    BY <1>1 DEF ReportInv, FiguresGood, Parts
  <1>7. QED
    BY <1>3, <1>4, <1>5, <1>6 DEF ReportAction

LEMMA ArrivalExplained ==
    ASSUME ReportInv, NEW l \in loads, R!Arrive(l)
    PROVE  ReportAction
  <1>1. ReportInv' /\ l \in R!Ended /\ onView # None /\ LoadGood(l) /\ FiguresGood
    BY LoadArrives DEF ReportInv
  <1>2. UNCHANGED <<onView, choice, file>> /\ R!T' = R!T
    BY DEF R!Arrive, R!T
  <1>3. ~ R!Overtaken => l.no = loaded /\ l.of = choice
    <2>1. loaded \in Nat /\ l.no \in 1..loaded
      BY <1>1 DEF ReportInv, LoadGood
    <2>2. QED
      BY <1>1, <2>1 DEF R!Overtaken, LoadGood
  <1>4. R!Mislabelled' => R!Overtaken \/ R!Keeps \/ \E k \in R!Ended : R!NoRooms(k)
    <2>1. SUFFICES ASSUME R!Mislabelled', ~ R!Overtaken, ~ R!Keeps, ~ R!NoRooms(l) PROVE FALSE
      BY <1>1
    <2>2. PICK p \in Parts : figures'[p].of # choice /\ figures'[p].of # None
      BY <1>2, <2>1 DEF R!Mislabelled, R!Visible, Parts
    <2>3. R!Failed(l) = {} \/ R!T.clears
      BY <1>1, <2>1 DEF R!Keeps
    <2>4. figures'[p].of = None \/ figures'[p].of = l.of
      BY <2>1, <2>3, LoadBrings
    <2>5. QED
      BY <1>3, <2>1, <2>2, <2>4
  <1>5. ASSUME NEW p \in Parts, figures'[p].of # None, figures'[p].at < figures[p].at
        PROVE  R!Overtaken \/ \E k \in R!Ended : k.over
    <2>1. SUFFICES ASSUME ~ R!Overtaken, ~ l.over PROVE FALSE
      BY <1>1
    <2>2. l.got[p] # "waiting" => figures[p].at <= l.at[p]
      BY <1>1, <1>3, <2>1 DEF LoadGood
    <2>3. figures'[p].at = figures[p].at \/ (figures'[p].at = l.at[p] /\ l.got[p] # "waiting")
      BY <1>5, LoadBrings
    <2>4. figures[p].at \in Nat /\ l.at[p] \in Nat
      BY <1>1 DEF LoadGood, FiguresGood
    <2>5. QED
      BY <1>5, <2>2, <2>3, <2>4
  <1>6. onView' # None /\ R!T'.together => \A p, q \in R!T'.parts : figures'[p].of = figures'[q].of
    BY <1>1 DEF ReportInv, FiguresGood, Parts
  <1>7. QED
    BY <1>2, <1>4, <1>5, <1>6 DEF ReportAction, Parts

LEMMA ReportStep ==
    ASSUME ReportInv, [Next]_vars
    PROVE  ReportInv' /\ [ReportAction]_(R!reportVars)
  <1>1. R!ReportNext \/ UNCHANGED reportVars
    BY DEF Next, vars
  <1>2. CASE UNCHANGED reportVars
    BY <1>2 DEF reportVars, R!reportVars, ReportInv, LoadGood, FiguresGood, Parts, R!T
  <1>3. CASE \E v \in Views : R!ReportMount(v)
    <2>1. PICK v \in Views : R!ReportMount(v)
      BY <1>3
    <2>2. ReportInv' /\ onView = None /\ file' = file /\ ~ R!Mislabelled'
      BY <2>1, ReportMounts
    <2>3. onView' # None /\ R!T'.together => \A p, q \in R!T'.parts : figures'[p].of = figures'[q].of
      BY <2>2 DEF ReportInv, FiguresGood, Parts
    <2>4. QED
      BY <2>2, <2>3 DEF ReportAction
  <1>4. CASE \E l \in loads : R!Arrive(l)
    BY <1>4, LoadArrives, ArrivalExplained
  <1>5. CASE ReportKeeps
    BY <1>5, ReportKept, KeptExplained
  <1>6. QED
    BY <1>1, <1>2, <1>3, <1>4, <1>5 DEF R!ReportNext, ReportKeeps, Parts

(* Figures come to stand under a choice they are not of only when a load    *)
(* for an earlier choice ends late, when one fails on a page that keeps     *)
(* what it showed, in the dashboard's revenue chart, which the spinner does *)
(* not cover (Dashboard.jsx:237-292), or when there is no room at all       *)
(* (Rooms.jsx:110-122); a file gets a wrong name only under such figures or *)
(* the spinner; older figures replace newer ones only when loads            *)
(* overlapped; and calls awaited together are shown together; for any       *)
(* number of loads and changes, on each page of the table.                  *)
THEOREM ReportsAlwaysExplained == Spec => ReportExplained
  <1>1. Init => ReportInv
    BY ReportStart DEF Init
  <1>2. ReportInv /\ [Next]_vars => ReportInv'
    BY ReportStep
  <1>3. QED
    BY <1>1, <1>2, ReportStep, PTL DEF Spec, ReportExplained, R!ReportExplained, ReportAction

-----------------------------------------------------------------------------
(* The profile: the row, the files, the cached profile and the page. *)

Kinds == H!Gets \cup {"save", "remove", "upload", "google"}
Row == [photo : Int \cup {None}, phone : {"none", "one", "two"}]
PhotoRequest(r) ==
    /\ r = [no |-> r.no, kind |-> r.kind, here |-> r.here, phone |-> r.phone, todo |-> r.todo,
            loaded |-> r.loaded, got |-> r.got, kept |-> r.kept]
    /\ r.kind \in Kinds /\ r.here \in BOOLEAN /\ r.phone \in H!Typed
    /\ r.loaded \in Row /\ r.got \in Row \cup {None}

(* What is left of the steps of a handler: from one of them on, or nothing. *)
OfGet == <<"authenticate", "look", "fill">>
OfSave == <<"authenticate", "commit", "readBack", "purge">>
OfRemove == <<"authenticate", "delete", "commit", "readBack", "purge">>
OfUpload == <<"authenticate", "put", "delete", "commit", "readBack", "purge">>
OfGoogle == <<"authenticate", "commit", "purge">>
FromLook == <<"look", "fill">>
FromFill == <<"fill">>
FromPut == <<"put", "delete", "commit", "readBack", "purge">>
FromDelete == <<"delete", "commit", "readBack", "purge">>
FromCommit == <<"commit", "readBack", "purge">>
FromSign == <<"commit", "purge">>
FromRead == <<"readBack", "purge">>
FromPurge == <<"purge">>
Nothing == <<>>
TodoGood(r) ==
    /\ r.kind \in H!Gets => r.todo \in {OfGet, FromLook, FromFill, Nothing}
    /\ r.kind = "save" => r.todo \in {OfSave, FromCommit, FromRead, FromPurge, Nothing}
    /\ r.kind = "remove" => r.todo \in {OfRemove, FromDelete, FromCommit, FromRead, FromPurge, Nothing}
    /\ r.kind = "upload" =>
         r.todo \in {OfUpload, FromPut, FromDelete, FromCommit, FromRead, FromPurge, Nothing}
    /\ r.kind = "google" => r.todo \in {OfGoogle, FromSign, FromPurge, Nothing}

(* A photo's name is None, Google's or that of a request that was sent. *)
Named(photo) == photo = None \/ photo \in 0..(sends + 1)
PhotoTyped ==
    /\ sends \in Nat /\ account \in Row /\ cachedProfile \in Row \cup {None}
    /\ Named(account.photo) /\ files \subseteq 1..(sends + 1)
    /\ \A r \in served : PhotoRequest(r) /\ TodoGood(r) /\ r.no \in 2..(sends + 1) /\ Named(r.loaded.photo)
    /\ \A q, r \in served : q.no = r.no => q = r

(* Nobody knows an upload's file before its commit, and it is there from   *)
(* "put" on; what a request deleted before its commit is not.              *)
FilesGood ==
    \A r \in served :
        /\ r.kind = "upload" /\ H!Due(r, "commit") =>
              /\ account.photo # r.no /\ \A q \in served : q.loaded.photo # r.no
              /\ H!Due(r, "put") \/ r.no \in files
        /\ H!Orphaning(r) /\ ~ r.kept => r.loaded.photo \notin files
MissingGood ==
    H!Missing => \/ account.photo \in halfway
                 \/ \E r \in served : H!Orphaning(r) /\ r.loaded.photo = account.photo

Astray == why \cap {"lateFill", "unpurged"} # {}
OnWay(r) == H!Committed(r) /\ H!Due(r, "purge")
ProfileCached ==
    \/ cachedProfile \in {None, account} \/ Astray
    \/ \E r \in served : OnWay(r) /\ (r.here \/ "elsewhere" \in why)
    \/ {"edited", "elsewhere"} \subseteq why /\ cachedProfile.photo = account.photo

(* The page saves once at a time, and its number is the row's from the     *)
(* commit on, unless somebody else changed the row.                        *)
SaveGood(r) ==
    /\ saving /\ \A q \in H!Here : q.kind = "save" => q = r
    /\ \/ "elsewhere" \in why
       \/ /\ ~ H!Due(r, "authenticate") /\ H!Due(r, "commit") => r.loaded.phone = account.phone
          /\ r.todo # <<>> /\ ~ H!Due(r, "commit") => account.phone = r.phone \/ r.phone = "none"
          /\ r.got # None => r.got.phone = r.phone \/ r.phone = "none"
SavesGood == \A r \in H!Here : r.kind = "save" => SaveGood(r)

(* As long as nothing crossed, was changed elsewhere or got lost, one      *)
(* request of the page is out, and what it read is the row; until the      *)
(* first one ends nothing has changed at all.                              *)
Clean == ~ desk /\ why \cap {"crossed", "elsewhere", "noAnswer"} = {}
Working(r) == ~ H!Due(r, "authenticate") /\ r.todo # <<>> /\ (r.kind \in H!Gets \/ H!Due(r, "commit"))
Changing(r) ==
    /\ r.kind \in {"upload", "remove"} /\ ~ H!Due(r, "commit")
    /\ r.todo # <<>> \/ r.got # None
AloneGood(r) ==
    /\ H!Here = {r} /\ r.kind # "google"
    /\ H!Due(r, "commit") => r.got = None
    /\ r.kind \notin H!Gets /\ r.todo # <<>> /\ ~ H!Due(r, "readBack") => r.got # None
    /\ Working(r) => r.loaded = account
    /\ r.got # None => r.got = account \/ (r.kind \in {"refresh", "photoRefresh"} /\ Astray)
    /\ r.kind = "remove" /\ Changing(r) => account.photo = None
Unmoved ==
    /\ cachedProfile \in {None, account}
    /\ \A q \in served : (Working(q) => q.loaded = account) /\ q.got \in {None, account}
CleanGood ==
    Clean =>
        /\ \A r \in H!Here : AloneGood(r) /\ (r.kind = "load" => Unmoved)
        /\ person.photo = account.photo \/ \E q \in H!Here : Changing(q)
        /\ \/ header = account.photo \/ Astray
           \/ \E q \in H!Here : q.kind = "photoRefresh" \/ Changing(q)

(* What the page shows is a profile. *)
PersonTyped == person \in Row

PhotoInv == PhotoTyped /\ PersonTyped /\ FilesGood /\ MissingGood /\ ProfileCached /\ SavesGood /\ CleanGood

(* Each list: its steps, its first, and the list without it. *)
List(t, due, first, rest) ==
    /\ t # Nothing /\ Tail(t) = rest
    /\ \A r : r.todo = t => (\A s : H!Due(r, s) <=> s \in due) /\ (\A s : H!Ready(r, s) <=> s = first)
LEMMA Lists ==
    /\ \A r, s : r.todo = Nothing => ~ H!Due(r, s) /\ ~ H!Ready(r, s)
    /\ List(OfGet, {"authenticate", "look", "fill"}, "authenticate", FromLook)
    /\ List(OfSave, {"authenticate", "commit", "readBack", "purge"}, "authenticate", FromCommit)
    /\ List(OfRemove, {"authenticate", "delete", "commit", "readBack", "purge"}, "authenticate", FromDelete)
    /\ List(OfUpload, {"authenticate", "put", "delete", "commit", "readBack", "purge"}, "authenticate", FromPut)
    /\ List(OfGoogle, {"authenticate", "commit", "purge"}, "authenticate", FromSign)
    /\ List(FromLook, {"look", "fill"}, "look", FromFill)
    /\ List(FromFill, {"fill"}, "fill", Nothing)
    /\ List(FromPut, {"put", "delete", "commit", "readBack", "purge"}, "put", FromDelete)
    /\ List(FromDelete, {"delete", "commit", "readBack", "purge"}, "delete", FromCommit)
    /\ List(FromCommit, {"commit", "readBack", "purge"}, "commit", FromRead)
    /\ List(FromSign, {"commit", "purge"}, "commit", FromPurge)
    /\ List(FromRead, {"readBack", "purge"}, "readBack", FromPurge)
    /\ List(FromPurge, {"purge"}, "purge", Nothing)
  <1>1. \A r, s : r.todo = Nothing => ~ H!Due(r, s) /\ ~ H!Ready(r, s)
    BY DEF Nothing, H!Due, H!Ready
  <1>2. List(OfGet, {"authenticate", "look", "fill"}, "authenticate", FromLook)
    <2>1. OfGet # Nothing
      BY DEF Nothing, OfGet
    <2>2. Tail(OfGet) = FromLook
      BY DEF OfGet, FromLook
    <2>3. \A r : r.todo = OfGet => \A s : H!Ready(r, s) <=> s = Head(OfGet)
      BY <2>1 DEF H!Ready, Nothing
    <2>4. \A r : r.todo = OfGet => \A s : H!Due(r, s) <=> s \in {"authenticate", "look", "fill"}
      BY DEF H!Due, OfGet
    <2>5. QED
      BY <2>1, <2>2, <2>3, <2>4 DEF List, OfGet
  <1>3. List(OfSave, {"authenticate", "commit", "readBack", "purge"}, "authenticate", FromCommit)
    <2>1. OfSave # Nothing
      BY DEF Nothing, OfSave
    <2>2. Tail(OfSave) = FromCommit
      BY DEF OfSave, FromCommit
    <2>3. \A r : r.todo = OfSave => \A s : H!Ready(r, s) <=> s = Head(OfSave)
      BY <2>1 DEF H!Ready, Nothing
    <2>4. \A r : r.todo = OfSave => \A s : H!Due(r, s) <=> s \in {"authenticate", "commit", "readBack", "purge"}
      BY DEF H!Due, OfSave
    <2>5. QED
      BY <2>1, <2>2, <2>3, <2>4 DEF List, OfSave
  <1>4. List(OfRemove, {"authenticate", "delete", "commit", "readBack", "purge"}, "authenticate", FromDelete)
    <2>1. OfRemove # Nothing
      BY DEF Nothing, OfRemove
    <2>2. Tail(OfRemove) = FromDelete
      BY DEF OfRemove, FromDelete
    <2>3. \A r : r.todo = OfRemove => \A s : H!Ready(r, s) <=> s = Head(OfRemove)
      BY <2>1 DEF H!Ready, Nothing
    <2>4. \A r : r.todo = OfRemove =>
          \A s : H!Due(r, s) <=> s \in {"authenticate", "delete", "commit", "readBack", "purge"}
      BY DEF H!Due, OfRemove
    <2>5. QED
      BY <2>1, <2>2, <2>3, <2>4 DEF List, OfRemove
  <1>5. List(OfUpload, {"authenticate", "put", "delete", "commit", "readBack", "purge"},
        "authenticate", FromPut)
    <2>1. OfUpload # Nothing
      BY DEF Nothing, OfUpload
    <2>2. Tail(OfUpload) = FromPut
      BY DEF OfUpload, FromPut
    <2>3. \A r : r.todo = OfUpload => \A s : H!Ready(r, s) <=> s = Head(OfUpload)
      BY <2>1 DEF H!Ready, Nothing
    <2>4. \A r : r.todo = OfUpload =>
          \A s : H!Due(r, s) <=> s \in {"authenticate", "put", "delete", "commit", "readBack", "purge"}
      BY DEF H!Due, OfUpload
    <2>5. QED
      BY <2>1, <2>2, <2>3, <2>4 DEF List, OfUpload
  <1>6. List(OfGoogle, {"authenticate", "commit", "purge"}, "authenticate", FromSign)
    <2>1. OfGoogle # Nothing
      BY DEF Nothing, OfGoogle
    <2>2. Tail(OfGoogle) = FromSign
      BY DEF OfGoogle, FromSign
    <2>3. \A r : r.todo = OfGoogle => \A s : H!Ready(r, s) <=> s = Head(OfGoogle)
      BY <2>1 DEF H!Ready, Nothing
    <2>4. \A r : r.todo = OfGoogle => \A s : H!Due(r, s) <=> s \in {"authenticate", "commit", "purge"}
      BY DEF H!Due, OfGoogle
    <2>5. QED
      BY <2>1, <2>2, <2>3, <2>4 DEF List, OfGoogle
  <1>7. List(FromLook, {"look", "fill"}, "look", FromFill)
    <2>1. FromLook # Nothing
      BY DEF Nothing, FromLook
    <2>2. Tail(FromLook) = FromFill
      BY DEF FromLook, FromFill
    <2>3. \A r : r.todo = FromLook => \A s : H!Ready(r, s) <=> s = Head(FromLook)
      BY <2>1 DEF H!Ready, Nothing
    <2>4. \A r : r.todo = FromLook => \A s : H!Due(r, s) <=> s \in {"look", "fill"}
      BY DEF H!Due, FromLook
    <2>5. QED
      BY <2>1, <2>2, <2>3, <2>4 DEF List, FromLook
  <1>8. List(FromFill, {"fill"}, "fill", Nothing)
    <2>1. FromFill # Nothing
      BY DEF Nothing, FromFill
    <2>2. Tail(FromFill) = Nothing
      BY DEF FromFill, Nothing
    <2>3. \A r : r.todo = FromFill => \A s : H!Ready(r, s) <=> s = Head(FromFill)
      BY <2>1 DEF H!Ready, Nothing
    <2>4. \A r : r.todo = FromFill => \A s : H!Due(r, s) <=> s \in {"fill"}
      BY DEF H!Due, FromFill
    <2>5. QED
      BY <2>1, <2>2, <2>3, <2>4 DEF List, FromFill
  <1>9. List(FromPut, {"put", "delete", "commit", "readBack", "purge"}, "put", FromDelete)
    <2>1. FromPut # Nothing
      BY DEF Nothing, FromPut
    <2>2. Tail(FromPut) = FromDelete
      BY DEF FromPut, FromDelete
    <2>3. \A r : r.todo = FromPut => \A s : H!Ready(r, s) <=> s = Head(FromPut)
      BY <2>1 DEF H!Ready, Nothing
    <2>4. \A r : r.todo = FromPut =>
          \A s : H!Due(r, s) <=> s \in {"put", "delete", "commit", "readBack", "purge"}
      BY DEF H!Due, FromPut
    <2>5. QED
      BY <2>1, <2>2, <2>3, <2>4 DEF List, FromPut
  <1>10. List(FromDelete, {"delete", "commit", "readBack", "purge"}, "delete", FromCommit)
    <2>1. FromDelete # Nothing
      BY DEF Nothing, FromDelete
    <2>2. Tail(FromDelete) = FromCommit
      BY DEF FromDelete, FromCommit
    <2>3. \A r : r.todo = FromDelete => \A s : H!Ready(r, s) <=> s = Head(FromDelete)
      BY <2>1 DEF H!Ready, Nothing
    <2>4. \A r : r.todo = FromDelete => \A s : H!Due(r, s) <=> s \in {"delete", "commit", "readBack", "purge"}
      BY DEF H!Due, FromDelete
    <2>5. QED
      BY <2>1, <2>2, <2>3, <2>4 DEF List, FromDelete
  <1>11. List(FromCommit, {"commit", "readBack", "purge"}, "commit", FromRead)
    <2>1. FromCommit # Nothing
      BY DEF Nothing, FromCommit
    <2>2. Tail(FromCommit) = FromRead
      BY DEF FromCommit, FromRead
    <2>3. \A r : r.todo = FromCommit => \A s : H!Ready(r, s) <=> s = Head(FromCommit)
      BY <2>1 DEF H!Ready, Nothing
    <2>4. \A r : r.todo = FromCommit => \A s : H!Due(r, s) <=> s \in {"commit", "readBack", "purge"}
      BY DEF H!Due, FromCommit
    <2>5. QED
      BY <2>1, <2>2, <2>3, <2>4 DEF List, FromCommit
  <1>12. List(FromSign, {"commit", "purge"}, "commit", FromPurge)
    <2>1. FromSign # Nothing
      BY DEF Nothing, FromSign
    <2>2. Tail(FromSign) = FromPurge
      BY DEF FromSign, FromPurge
    <2>3. \A r : r.todo = FromSign => \A s : H!Ready(r, s) <=> s = Head(FromSign)
      BY <2>1 DEF H!Ready, Nothing
    <2>4. \A r : r.todo = FromSign => \A s : H!Due(r, s) <=> s \in {"commit", "purge"}
      BY DEF H!Due, FromSign
    <2>5. QED
      BY <2>1, <2>2, <2>3, <2>4 DEF List, FromSign
  <1>13. List(FromRead, {"readBack", "purge"}, "readBack", FromPurge)
    <2>1. FromRead # Nothing
      BY DEF Nothing, FromRead
    <2>2. Tail(FromRead) = FromPurge
      BY DEF FromRead, FromPurge
    <2>3. \A r : r.todo = FromRead => \A s : H!Ready(r, s) <=> s = Head(FromRead)
      BY <2>1 DEF H!Ready, Nothing
    <2>4. \A r : r.todo = FromRead => \A s : H!Due(r, s) <=> s \in {"readBack", "purge"}
      BY DEF H!Due, FromRead
    <2>5. QED
      BY <2>1, <2>2, <2>3, <2>4 DEF List, FromRead
  <1>14. List(FromPurge, {"purge"}, "purge", Nothing)
    <2>1. FromPurge # Nothing
      BY DEF Nothing, FromPurge
    <2>2. Tail(FromPurge) = Nothing
      BY DEF FromPurge, Nothing
    <2>3. \A r : r.todo = FromPurge => \A s : H!Ready(r, s) <=> s = Head(FromPurge)
      BY <2>1 DEF H!Ready, Nothing
    <2>4. \A r : r.todo = FromPurge => \A s : H!Due(r, s) <=> s \in {"purge"}
      BY DEF H!Due, FromPurge
    <2>5. QED
      BY <2>1, <2>2, <2>3, <2>4 DEF List, FromPurge
  <1>20. QED
    BY <1>1, <1>2, <1>3, <1>4, <1>5, <1>6, <1>7, <1>8, <1>9, <1>10, <1>11, <1>12, <1>13, <1>14

(* Which steps are left, and in which order. *)
StepsOrdered(r) ==
    /\ r.todo = Nothing <=> \A s : ~ H!Due(r, s)
    /\ r.kind \in H!Gets => \A s : H!Due(r, s) => s \in {"authenticate", "look", "fill"}
    /\ r.kind \in H!Gets =>
         (H!Due(r, "authenticate") => H!Due(r, "look")) /\ (H!Due(r, "look") => H!Due(r, "fill"))
    /\ r.kind \notin H!Gets => ~ H!Due(r, "look") /\ ~ H!Due(r, "fill")
    /\ r.kind \notin H!Gets /\ r.todo # Nothing => H!Due(r, "purge")
    /\ r.kind \notin H!Gets /\ H!Due(r, "authenticate") => H!Due(r, "commit")
    /\ r.kind \in {"save", "remove", "upload"} /\ H!Due(r, "commit") => H!Due(r, "readBack")
    /\ r.kind = "google" => ~ H!Due(r, "readBack")
    /\ H!Due(r, "put") => r.kind = "upload" /\ H!Due(r, "delete")
    /\ H!Due(r, "delete") => r.kind \in {"upload", "remove"} /\ H!Due(r, "commit")
    /\ H!Due(r, "authenticate") /\ r.kind \in {"upload", "remove"} => H!Due(r, "delete")
    /\ H!Due(r, "authenticate") /\ r.kind = "upload" => H!Due(r, "put")

LEMMA StepsLeft ==
    ASSUME NEW r, r.kind \in Kinds, TodoGood(r)
    PROVE  StepsOrdered(r)
  <1>1. CASE r.kind \in H!Gets
    <2>1. CASE r.todo = OfGet
      <3>1. r.todo # Nothing /\ \A s : H!Due(r, s) <=> s \in {"authenticate", "look", "fill"}
        BY <2>1, Lists DEF List
      <3>2. QED
        BY <1>1, <3>1 DEF StepsOrdered, H!Gets
    <2>2. CASE r.todo = FromLook
      <3>1. r.todo # Nothing /\ \A s : H!Due(r, s) <=> s \in {"look", "fill"}
        BY <2>2, Lists DEF List
      <3>2. QED
        BY <1>1, <3>1 DEF StepsOrdered, H!Gets
    <2>3. CASE r.todo = FromFill
      <3>1. r.todo # Nothing /\ \A s : H!Due(r, s) <=> s \in {"fill"}
        BY <2>3, Lists DEF List
      <3>2. QED
        BY <1>1, <3>1 DEF StepsOrdered, H!Gets
    <2>4. CASE r.todo = Nothing
      BY <1>1, <2>4, Lists DEF StepsOrdered, H!Gets
    <2>5. QED
      BY <1>1, <2>1, <2>2, <2>3, <2>4 DEF TodoGood, H!Gets
  <1>2. CASE r.kind = "save"
    <2>1. CASE r.todo = OfSave
      <3>1. r.todo # Nothing /\ \A s : H!Due(r, s) <=> s \in {"authenticate", "commit", "readBack", "purge"}
        BY <2>1, Lists DEF List
      <3>2. QED
        BY <1>2, <3>1 DEF StepsOrdered, H!Gets
    <2>2. CASE r.todo = FromCommit
      <3>1. r.todo # Nothing /\ \A s : H!Due(r, s) <=> s \in {"commit", "readBack", "purge"}
        BY <2>2, Lists DEF List
      <3>2. QED
        BY <1>2, <3>1 DEF StepsOrdered, H!Gets
    <2>3. CASE r.todo = FromRead
      <3>1. r.todo # Nothing /\ \A s : H!Due(r, s) <=> s \in {"readBack", "purge"}
        BY <2>3, Lists DEF List
      <3>2. QED
        BY <1>2, <3>1 DEF StepsOrdered, H!Gets
    <2>4. CASE r.todo = FromPurge
      <3>1. r.todo # Nothing /\ \A s : H!Due(r, s) <=> s \in {"purge"}
        BY <2>4, Lists DEF List
      <3>2. QED
        BY <1>2, <3>1 DEF StepsOrdered, H!Gets
    <2>5. CASE r.todo = Nothing
      BY <1>2, <2>5, Lists DEF StepsOrdered, H!Gets
    <2>6. QED
      BY <1>2, <2>1, <2>2, <2>3, <2>4, <2>5 DEF TodoGood, H!Gets
  <1>3. CASE r.kind = "remove"
    <2>1. CASE r.todo = OfRemove
      <3>1. r.todo # Nothing
            /\ \A s : H!Due(r, s) <=> s \in {"authenticate", "delete", "commit", "readBack", "purge"}
        BY <2>1, Lists DEF List
      <3>2. QED
        BY <1>3, <3>1 DEF StepsOrdered, H!Gets
    <2>2. CASE r.todo = FromDelete
      <3>1. r.todo # Nothing /\ \A s : H!Due(r, s) <=> s \in {"delete", "commit", "readBack", "purge"}
        BY <2>2, Lists DEF List
      <3>2. QED
        BY <1>3, <3>1 DEF StepsOrdered, H!Gets
    <2>3. CASE r.todo = FromCommit
      <3>1. r.todo # Nothing /\ \A s : H!Due(r, s) <=> s \in {"commit", "readBack", "purge"}
        BY <2>3, Lists DEF List
      <3>2. QED
        BY <1>3, <3>1 DEF StepsOrdered, H!Gets
    <2>4. CASE r.todo = FromRead
      <3>1. r.todo # Nothing /\ \A s : H!Due(r, s) <=> s \in {"readBack", "purge"}
        BY <2>4, Lists DEF List
      <3>2. QED
        BY <1>3, <3>1 DEF StepsOrdered, H!Gets
    <2>5. CASE r.todo = FromPurge
      <3>1. r.todo # Nothing /\ \A s : H!Due(r, s) <=> s \in {"purge"}
        BY <2>5, Lists DEF List
      <3>2. QED
        BY <1>3, <3>1 DEF StepsOrdered, H!Gets
    <2>6. CASE r.todo = Nothing
      BY <1>3, <2>6, Lists DEF StepsOrdered, H!Gets
    <2>7. QED
      BY <1>3, <2>1, <2>2, <2>3, <2>4, <2>5, <2>6 DEF TodoGood, H!Gets
  <1>4. CASE r.kind = "upload"
    <2>1. CASE r.todo = OfUpload
      <3>1. r.todo # Nothing
            /\ \A s : H!Due(r, s) <=> s \in {"authenticate", "put", "delete", "commit", "readBack", "purge"}
        BY <2>1, Lists DEF List
      <3>2. QED
        BY <1>4, <3>1 DEF StepsOrdered, H!Gets
    <2>2. CASE r.todo = FromPut
      <3>1. r.todo # Nothing /\ \A s : H!Due(r, s) <=> s \in {"put", "delete", "commit", "readBack", "purge"}
        BY <2>2, Lists DEF List
      <3>2. QED
        BY <1>4, <3>1 DEF StepsOrdered, H!Gets
    <2>3. CASE r.todo = FromDelete
      <3>1. r.todo # Nothing /\ \A s : H!Due(r, s) <=> s \in {"delete", "commit", "readBack", "purge"}
        BY <2>3, Lists DEF List
      <3>2. QED
        BY <1>4, <3>1 DEF StepsOrdered, H!Gets
    <2>4. CASE r.todo = FromCommit
      <3>1. r.todo # Nothing /\ \A s : H!Due(r, s) <=> s \in {"commit", "readBack", "purge"}
        BY <2>4, Lists DEF List
      <3>2. QED
        BY <1>4, <3>1 DEF StepsOrdered, H!Gets
    <2>5. CASE r.todo = FromRead
      <3>1. r.todo # Nothing /\ \A s : H!Due(r, s) <=> s \in {"readBack", "purge"}
        BY <2>5, Lists DEF List
      <3>2. QED
        BY <1>4, <3>1 DEF StepsOrdered, H!Gets
    <2>6. CASE r.todo = FromPurge
      <3>1. r.todo # Nothing /\ \A s : H!Due(r, s) <=> s \in {"purge"}
        BY <2>6, Lists DEF List
      <3>2. QED
        BY <1>4, <3>1 DEF StepsOrdered, H!Gets
    <2>7. CASE r.todo = Nothing
      BY <1>4, <2>7, Lists DEF StepsOrdered, H!Gets
    <2>8. QED
      BY <1>4, <2>1, <2>2, <2>3, <2>4, <2>5, <2>6, <2>7 DEF TodoGood, H!Gets
  <1>5. CASE r.kind = "google"
    <2>1. CASE r.todo = OfGoogle
      <3>1. r.todo # Nothing /\ \A s : H!Due(r, s) <=> s \in {"authenticate", "commit", "purge"}
        BY <2>1, Lists DEF List
      <3>2. QED
        BY <1>5, <3>1 DEF StepsOrdered, H!Gets
    <2>2. CASE r.todo = FromSign
      <3>1. r.todo # Nothing /\ \A s : H!Due(r, s) <=> s \in {"commit", "purge"}
        BY <2>2, Lists DEF List
      <3>2. QED
        BY <1>5, <3>1 DEF StepsOrdered, H!Gets
    <2>3. CASE r.todo = FromPurge
      <3>1. r.todo # Nothing /\ \A s : H!Due(r, s) <=> s \in {"purge"}
        BY <2>3, Lists DEF List
      <3>2. QED
        BY <1>5, <3>1 DEF StepsOrdered, H!Gets
    <2>4. CASE r.todo = Nothing
      BY <1>5, <2>4, Lists DEF StepsOrdered, H!Gets
    <2>5. QED
      BY <1>5, <2>1, <2>2, <2>3, <2>4 DEF TodoGood, H!Gets
  <1>6. QED
    BY <1>1, <1>2, <1>3, <1>4, <1>5 DEF Kinds

(* A step is taken: none before it is left. *)
LEMMA StepTaken ==
    ASSUME NEW r, r.kind \in Kinds, TodoGood(r), NEW this, H!Ready(r, this), NEW q,
           q.kind = r.kind, q.todo = Tail(r.todo)
    PROVE  /\ H!Due(r, this) /\ TodoGood(q)
           /\ \A s : H!Due(q, s) <=> H!Due(r, s) /\ s # this
           /\ this # "authenticate" => ~ H!Due(r, "authenticate")
           /\ this \in {"delete", "commit", "readBack", "purge"} => ~ H!Due(r, "put")
           /\ this \in {"commit", "readBack", "purge"} => ~ H!Due(r, "delete")
           /\ this \in {"readBack", "purge"} => ~ H!Due(r, "commit")
           /\ this = "purge" => ~ H!Due(r, "readBack")
           /\ this = "fill" => ~ H!Due(r, "look")
  <1>1. CASE r.kind \in H!Gets
    <2>1. CASE r.todo = OfGet
      <3>1. this = "authenticate" /\ q.todo = FromLook
            /\ \A s : H!Due(r, s) <=> s \in {"authenticate", "look", "fill"}
        BY <2>1, Lists DEF List
      <3>2. \A s : H!Due(q, s) <=> s \in {"look", "fill"}
        BY <3>1, Lists DEF List
      <3>3. TodoGood(q)
        BY <1>1, <3>1 DEF TodoGood, H!Gets
      <3>4. QED
        BY <3>1, <3>2, <3>3
    <2>2. CASE r.todo = FromLook
      <3>1. this = "look" /\ q.todo = FromFill /\ \A s : H!Due(r, s) <=> s \in {"look", "fill"}
        BY <2>2, Lists DEF List
      <3>2. \A s : H!Due(q, s) <=> s \in {"fill"}
        BY <3>1, Lists DEF List
      <3>3. TodoGood(q)
        BY <1>1, <3>1 DEF TodoGood, H!Gets
      <3>4. QED
        BY <3>1, <3>2, <3>3
    <2>3. CASE r.todo = FromFill
      <3>1. this = "fill" /\ q.todo = Nothing /\ \A s : H!Due(r, s) <=> s \in {"fill"}
        BY <2>3, Lists DEF List
      <3>2. \A s : ~ H!Due(q, s)
        BY <3>1, Lists DEF List
      <3>3. TodoGood(q)
        BY <1>1, <3>1 DEF TodoGood, H!Gets
      <3>4. QED
        BY <3>1, <3>2, <3>3
    <2>4. QED
      BY <1>1, Lists, <2>1, <2>2, <2>3 DEF TodoGood, H!Gets
  <1>2. CASE r.kind = "save"
    <2>1. CASE r.todo = OfSave
      <3>1. this = "authenticate" /\ q.todo = FromCommit
            /\ \A s : H!Due(r, s) <=> s \in {"authenticate", "commit", "readBack", "purge"}
        BY <2>1, Lists DEF List
      <3>2. \A s : H!Due(q, s) <=> s \in {"commit", "readBack", "purge"}
        BY <3>1, Lists DEF List
      <3>3. TodoGood(q)
        BY <1>2, <3>1 DEF TodoGood, H!Gets
      <3>4. QED
        BY <3>1, <3>2, <3>3
    <2>2. CASE r.todo = FromCommit
      <3>1. this = "commit" /\ q.todo = FromRead /\ \A s : H!Due(r, s) <=> s \in {"commit", "readBack", "purge"}
        BY <2>2, Lists DEF List
      <3>2. \A s : H!Due(q, s) <=> s \in {"readBack", "purge"}
        BY <3>1, Lists DEF List
      <3>3. TodoGood(q)
        BY <1>2, <3>1 DEF TodoGood, H!Gets
      <3>4. QED
        BY <3>1, <3>2, <3>3
    <2>3. CASE r.todo = FromRead
      <3>1. this = "readBack" /\ q.todo = FromPurge /\ \A s : H!Due(r, s) <=> s \in {"readBack", "purge"}
        BY <2>3, Lists DEF List
      <3>2. \A s : H!Due(q, s) <=> s \in {"purge"}
        BY <3>1, Lists DEF List
      <3>3. TodoGood(q)
        BY <1>2, <3>1 DEF TodoGood, H!Gets
      <3>4. QED
        BY <3>1, <3>2, <3>3
    <2>4. CASE r.todo = FromPurge
      <3>1. this = "purge" /\ q.todo = Nothing /\ \A s : H!Due(r, s) <=> s \in {"purge"}
        BY <2>4, Lists DEF List
      <3>2. \A s : ~ H!Due(q, s)
        BY <3>1, Lists DEF List
      <3>3. TodoGood(q)
        BY <1>2, <3>1 DEF TodoGood, H!Gets
      <3>4. QED
        BY <3>1, <3>2, <3>3
    <2>5. QED
      BY <1>2, Lists, <2>1, <2>2, <2>3, <2>4 DEF TodoGood, H!Gets
  <1>3. CASE r.kind = "remove"
    <2>1. CASE r.todo = OfRemove
      <3>1. this = "authenticate" /\ q.todo = FromDelete
            /\ \A s : H!Due(r, s) <=> s \in {"authenticate", "delete", "commit", "readBack", "purge"}
        BY <2>1, Lists DEF List
      <3>2. \A s : H!Due(q, s) <=> s \in {"delete", "commit", "readBack", "purge"}
        BY <3>1, Lists DEF List
      <3>3. TodoGood(q)
        BY <1>3, <3>1 DEF TodoGood, H!Gets
      <3>4. QED
        BY <3>1, <3>2, <3>3
    <2>2. CASE r.todo = FromDelete
      <3>1. this = "delete" /\ q.todo = FromCommit
            /\ \A s : H!Due(r, s) <=> s \in {"delete", "commit", "readBack", "purge"}
        BY <2>2, Lists DEF List
      <3>2. \A s : H!Due(q, s) <=> s \in {"commit", "readBack", "purge"}
        BY <3>1, Lists DEF List
      <3>3. TodoGood(q)
        BY <1>3, <3>1 DEF TodoGood, H!Gets
      <3>4. QED
        BY <3>1, <3>2, <3>3
    <2>3. CASE r.todo = FromCommit
      <3>1. this = "commit" /\ q.todo = FromRead /\ \A s : H!Due(r, s) <=> s \in {"commit", "readBack", "purge"}
        BY <2>3, Lists DEF List
      <3>2. \A s : H!Due(q, s) <=> s \in {"readBack", "purge"}
        BY <3>1, Lists DEF List
      <3>3. TodoGood(q)
        BY <1>3, <3>1 DEF TodoGood, H!Gets
      <3>4. QED
        BY <3>1, <3>2, <3>3
    <2>4. CASE r.todo = FromRead
      <3>1. this = "readBack" /\ q.todo = FromPurge /\ \A s : H!Due(r, s) <=> s \in {"readBack", "purge"}
        BY <2>4, Lists DEF List
      <3>2. \A s : H!Due(q, s) <=> s \in {"purge"}
        BY <3>1, Lists DEF List
      <3>3. TodoGood(q)
        BY <1>3, <3>1 DEF TodoGood, H!Gets
      <3>4. QED
        BY <3>1, <3>2, <3>3
    <2>5. CASE r.todo = FromPurge
      <3>1. this = "purge" /\ q.todo = Nothing /\ \A s : H!Due(r, s) <=> s \in {"purge"}
        BY <2>5, Lists DEF List
      <3>2. \A s : ~ H!Due(q, s)
        BY <3>1, Lists DEF List
      <3>3. TodoGood(q)
        BY <1>3, <3>1 DEF TodoGood, H!Gets
      <3>4. QED
        BY <3>1, <3>2, <3>3
    <2>6. QED
      BY <1>3, Lists, <2>1, <2>2, <2>3, <2>4, <2>5 DEF TodoGood, H!Gets
  <1>4. CASE r.kind = "upload"
    <2>1. CASE r.todo = OfUpload
      <3>1. this = "authenticate" /\ q.todo = FromPut
            /\ \A s : H!Due(r, s) <=> s \in {"authenticate", "put", "delete", "commit", "readBack", "purge"}
        BY <2>1, Lists DEF List
      <3>2. \A s : H!Due(q, s) <=> s \in {"put", "delete", "commit", "readBack", "purge"}
        BY <3>1, Lists DEF List
      <3>3. TodoGood(q)
        BY <1>4, <3>1 DEF TodoGood, H!Gets
      <3>4. QED
        BY <3>1, <3>2, <3>3
    <2>2. CASE r.todo = FromPut
      <3>1. this = "put" /\ q.todo = FromDelete
            /\ \A s : H!Due(r, s) <=> s \in {"put", "delete", "commit", "readBack", "purge"}
        BY <2>2, Lists DEF List
      <3>2. \A s : H!Due(q, s) <=> s \in {"delete", "commit", "readBack", "purge"}
        BY <3>1, Lists DEF List
      <3>3. TodoGood(q)
        BY <1>4, <3>1 DEF TodoGood, H!Gets
      <3>4. QED
        BY <3>1, <3>2, <3>3
    <2>3. CASE r.todo = FromDelete
      <3>1. this = "delete" /\ q.todo = FromCommit
            /\ \A s : H!Due(r, s) <=> s \in {"delete", "commit", "readBack", "purge"}
        BY <2>3, Lists DEF List
      <3>2. \A s : H!Due(q, s) <=> s \in {"commit", "readBack", "purge"}
        BY <3>1, Lists DEF List
      <3>3. TodoGood(q)
        BY <1>4, <3>1 DEF TodoGood, H!Gets
      <3>4. QED
        BY <3>1, <3>2, <3>3
    <2>4. CASE r.todo = FromCommit
      <3>1. this = "commit" /\ q.todo = FromRead /\ \A s : H!Due(r, s) <=> s \in {"commit", "readBack", "purge"}
        BY <2>4, Lists DEF List
      <3>2. \A s : H!Due(q, s) <=> s \in {"readBack", "purge"}
        BY <3>1, Lists DEF List
      <3>3. TodoGood(q)
        BY <1>4, <3>1 DEF TodoGood, H!Gets
      <3>4. QED
        BY <3>1, <3>2, <3>3
    <2>5. CASE r.todo = FromRead
      <3>1. this = "readBack" /\ q.todo = FromPurge /\ \A s : H!Due(r, s) <=> s \in {"readBack", "purge"}
        BY <2>5, Lists DEF List
      <3>2. \A s : H!Due(q, s) <=> s \in {"purge"}
        BY <3>1, Lists DEF List
      <3>3. TodoGood(q)
        BY <1>4, <3>1 DEF TodoGood, H!Gets
      <3>4. QED
        BY <3>1, <3>2, <3>3
    <2>6. CASE r.todo = FromPurge
      <3>1. this = "purge" /\ q.todo = Nothing /\ \A s : H!Due(r, s) <=> s \in {"purge"}
        BY <2>6, Lists DEF List
      <3>2. \A s : ~ H!Due(q, s)
        BY <3>1, Lists DEF List
      <3>3. TodoGood(q)
        BY <1>4, <3>1 DEF TodoGood, H!Gets
      <3>4. QED
        BY <3>1, <3>2, <3>3
    <2>7. QED
      BY <1>4, Lists, <2>1, <2>2, <2>3, <2>4, <2>5, <2>6 DEF TodoGood, H!Gets
  <1>5. CASE r.kind = "google"
    <2>1. CASE r.todo = OfGoogle
      <3>1. this = "authenticate" /\ q.todo = FromSign
            /\ \A s : H!Due(r, s) <=> s \in {"authenticate", "commit", "purge"}
        BY <2>1, Lists DEF List
      <3>2. \A s : H!Due(q, s) <=> s \in {"commit", "purge"}
        BY <3>1, Lists DEF List
      <3>3. TodoGood(q)
        BY <1>5, <3>1 DEF TodoGood, H!Gets
      <3>4. QED
        BY <3>1, <3>2, <3>3
    <2>2. CASE r.todo = FromSign
      <3>1. this = "commit" /\ q.todo = FromPurge /\ \A s : H!Due(r, s) <=> s \in {"commit", "purge"}
        BY <2>2, Lists DEF List
      <3>2. \A s : H!Due(q, s) <=> s \in {"purge"}
        BY <3>1, Lists DEF List
      <3>3. TodoGood(q)
        BY <1>5, <3>1 DEF TodoGood, H!Gets
      <3>4. QED
        BY <3>1, <3>2, <3>3
    <2>3. CASE r.todo = FromPurge
      <3>1. this = "purge" /\ q.todo = Nothing /\ \A s : H!Due(r, s) <=> s \in {"purge"}
        BY <2>3, Lists DEF List
      <3>2. \A s : ~ H!Due(q, s)
        BY <3>1, Lists DEF List
      <3>3. TodoGood(q)
        BY <1>5, <3>1 DEF TodoGood, H!Gets
      <3>4. QED
        BY <3>1, <3>2, <3>3
    <2>4. QED
      BY <1>5, Lists, <2>1, <2>2, <2>3 DEF TodoGood, H!Gets
  <1>6. QED
    BY <1>1, <1>2, <1>3, <1>4, <1>5 DEF Kinds

LEMMA Photos ==
    /\ None \notin Int /\ None \notin Row
    /\ \A kind \in H!Gets : H!Steps(kind) = OfGet
    /\ H!Steps("save") = OfSave /\ H!Steps("remove") = OfRemove
    /\ H!Steps("upload") = OfUpload /\ H!Steps("google") = OfGoogle
  <1>1. None \notin Int /\ None \notin Row
    BY RouterAssumption DEF H!ProfilePhotoAssumption, Row
  <1>2. \A kind \in H!Gets : H!Steps(kind) = OfGet
    BY DEF H!Steps, H!Gets, OfGet
  <1>3. /\ H!Steps("save") = OfSave /\ H!Steps("remove") = OfRemove
        /\ H!Steps("upload") = OfUpload /\ H!Steps("google") = OfGoogle
    BY DEF H!Steps, H!Gets, OfSave, OfRemove, OfUpload, OfGoogle
  <1>4. QED
    BY <1>1, <1>2, <1>3

(* A request takes a step of its handler, or ends. *)
Same(r, n) ==
    /\ PhotoRequest(n)
    /\ n.no = r.no /\ n.kind = r.kind /\ n.here = r.here /\ n.phone = r.phone
    /\ H!Handle(r, n)
Takes(r, n, this) ==
    /\ Same(r, n) /\ H!Ready(r, this) /\ n.todo = Tail(r.todo)
    /\ n.loaded = IF this = "authenticate" THEN account ELSE r.loaded
    /\ n.got = IF this = "look" THEN r.loaded ELSE IF this = "readBack" THEN account ELSE r.got
    /\ this # "delete" => n.kept = r.kept
Ends(r, n) ==
    /\ Same(r, n) /\ n.todo = Nothing /\ n.loaded = r.loaded /\ n.kept = r.kept

LEMMA Stepping ==
    ASSUME PhotoTyped, NEW r \in served
    PROVE  /\ H!Authenticate(r) => \E n : Takes(r, n, "authenticate")
           /\ H!Look(r) => \E n : \/ Takes(r, n, "look")
                                  \/ Ends(r, n) /\ n.got = cachedProfile /\ n.got # None
           /\ H!Fill(r) => \E n : Takes(r, n, "fill")
           /\ H!Put(r) => \E n : Takes(r, n, "put")
           /\ H!Delete(r) => \E n : Takes(r, n, "delete") /\ (files' = files \ {r.loaded.photo} \/ n.kept)
           /\ H!Commit(r) => \E n : \/ Takes(r, n, "commit")
                                    \/ Ends(r, n) /\ n.got = r.got /\ r.kind = "google"
                                          /\ H!Wanted(r) = r.loaded
           /\ H!ReadBack(r) => \E n : Takes(r, n, "readBack")
           /\ H!Purge(r) => \E n : Takes(r, n, "purge")
           /\ H!Fail(r) => \E n : Ends(r, n) /\ n.got = None
  <1>1. /\ PhotoRequest(r) /\ account \in Row /\ cachedProfile \in Row \cup {None}
        /\ r.loaded \in Row
    BY DEF PhotoTyped, PhotoRequest
  <1>2. PhotoRequest(H!After(r))
    <2>1. PICK t : t = Tail(r.todo)
      OBVIOUS
    <2>2. PICK n : n = [r EXCEPT !.todo = t]
      OBVIOUS
    <2>3. PhotoRequest(n)
      BY <1>1, <2>2 DEF PhotoRequest
    <2>4. QED
      BY <2>1, <2>2, <2>3 DEF H!After
  <1>3. ASSUME H!Authenticate(r) PROVE \E n : Takes(r, n, "authenticate")
    <2>1. PICK n : n = [H!After(r) EXCEPT !.loaded = account]
      OBVIOUS
    <2>2. Takes(r, n, "authenticate")
      BY <1>1, <1>2, <1>3, <2>1 DEF H!Authenticate, H!Ready, H!After, PhotoRequest, Takes, Same
    <2>3. QED
      BY <2>2
  <1>4. ASSUME H!Look(r)
        PROVE  \E n : Takes(r, n, "look") \/ (Ends(r, n) /\ n.got = cachedProfile /\ n.got # None)
    <2>1. CASE H!Handle(r, [H!After(r) EXCEPT !.got = r.loaded])
      <3>1. PICK n : n = [H!After(r) EXCEPT !.got = r.loaded]
        OBVIOUS
      <3>2. Takes(r, n, "look")
        BY <1>1, <1>2, <1>4, <2>1, <3>1 DEF H!Look, H!Ready, H!After, PhotoRequest, Takes, Same
      <3>3. QED
        BY <3>2
    <2>2. CASE cachedProfile # None /\ H!Handle(r, [r EXCEPT !.got = cachedProfile, !.todo = <<>>])
      <3>1. PICK n : n = [r EXCEPT !.got = cachedProfile, !.todo = <<>>]
        OBVIOUS
      <3>2. Ends(r, n) /\ n.got = cachedProfile /\ n.got # None
        BY <1>1, <2>2, <3>1 DEF PhotoRequest, Ends, Same, Nothing
      <3>3. QED
        BY <3>2
    <2>3. QED
      BY <1>4, <2>1, <2>2 DEF H!Look
  <1>5. ASSUME H!Fill(r) PROVE \E n : Takes(r, n, "fill")
    <2>1. Takes(r, H!After(r), "fill")
      BY <1>1, <1>2, <1>5 DEF H!Fill, H!Ready, H!After, PhotoRequest, Takes, Same
    <2>2. QED
      BY <2>1
  <1>6. ASSUME H!Put(r) PROVE \E n : Takes(r, n, "put")
    <2>1. Takes(r, H!After(r), "put")
      BY <1>1, <1>2, <1>6 DEF H!Put, H!Ready, H!After, PhotoRequest, Takes, Same
    <2>2. QED
      BY <2>1
  <1>7. ASSUME H!Delete(r)
        PROVE  \E n : Takes(r, n, "delete") /\ (files' = files \ {r.loaded.photo} \/ n.kept)
    <2>1. PICK n : \/ n = H!After(r) /\ files' = files \ {r.loaded.photo} /\ H!Handle(r, n)
                   \/ n = [H!After(r) EXCEPT !.kept = TRUE] /\ H!Handle(r, n)
      BY <1>7 DEF H!Delete
    <2>2. Takes(r, n, "delete") /\ (files' = files \ {r.loaded.photo} \/ n.kept)
      BY <1>1, <1>2, <1>7, <2>1 DEF H!Delete, H!Ready, H!After, PhotoRequest, Takes, Same
    <2>3. QED
      BY <2>2
  <1>8. ASSUME H!Commit(r)
        PROVE  \E n : \/ Takes(r, n, "commit")
                      \/ Ends(r, n) /\ n.got = r.got /\ r.kind = "google" /\ H!Wanted(r) = r.loaded
    <2>1. CASE r.kind = "google" /\ H!Wanted(r) = r.loaded
      <3>1. PICK n : n = [r EXCEPT !.todo = <<>>]
        OBVIOUS
      <3>2. Ends(r, n) /\ n.got = r.got
        BY <1>1, <1>8, <2>1, <3>1 DEF H!Commit, PhotoRequest, Ends, Same, Nothing
      <3>3. QED
        BY <2>1, <3>2
    <2>2. CASE ~ (r.kind = "google" /\ H!Wanted(r) = r.loaded)
      <3>1. H!Ready(r, "commit") /\ H!Handle(r, H!After(r))
        BY <1>8, <2>2 DEF H!Commit
      <3>2. Takes(r, H!After(r), "commit")
        BY <1>1, <1>2, <3>1 DEF H!Ready, H!After, PhotoRequest, Takes, Same
      <3>3. QED
        BY <3>2
    <2>3. QED
      BY <2>1, <2>2
  <1>9. ASSUME H!ReadBack(r) PROVE \E n : Takes(r, n, "readBack")
    <2>1. PICK n : n = [H!After(r) EXCEPT !.got = account]
      OBVIOUS
    <2>2. Takes(r, n, "readBack")
      BY <1>1, <1>2, <1>9, <2>1 DEF H!ReadBack, H!Ready, H!After, PhotoRequest, Takes, Same
    <2>3. QED
      BY <2>2
  <1>10. ASSUME H!Purge(r) PROVE \E n : Takes(r, n, "purge")
    <2>1. Takes(r, H!After(r), "purge")
      BY <1>1, <1>2, <1>10 DEF H!Purge, H!Ready, H!After, PhotoRequest, Takes, Same
    <2>2. QED
      BY <2>1
  <1>11. ASSUME H!Fail(r) PROVE \E n : Ends(r, n) /\ n.got = None
    <2>1. PICK n : n = [r EXCEPT !.todo = <<>>, !.got = None]
      OBVIOUS
    <2>2. Ends(r, n) /\ n.got = None
      BY <1>1, <1>11, <2>1 DEF H!Fail, PhotoRequest, Ends, Same, Nothing
    <2>3. QED
      BY <2>2
  <1>12. QED
    BY <1>3, <1>4, <1>5, <1>6, <1>7, <1>8, <1>9, <1>10, <1>11

LEMMA ChangedTo ==
    ASSUME NEW r, r.loaded \in Row, account \in Row, NEW w \in Row, H!Wanted(r) = w
    PROVE  /\ H!Changed(r).photo = IF w.photo # r.loaded.photo THEN w.photo ELSE account.photo
           /\ H!Changed(r).phone = IF w.phone # r.loaded.phone THEN w.phone ELSE account.phone
           /\ H!Changed(r) \in Row
  <1>1. PICK c : c = [column \in {"photo", "phone"} |->
                        IF w[column] # r.loaded[column] THEN w[column] ELSE account[column]]
    OBVIOUS
  <1>2. H!Changed(r) = c
    BY <1>1 DEF H!Changed
  <1>3. c["photo"] = IF w["photo"] # r.loaded["photo"] THEN w["photo"] ELSE account["photo"]
    BY <1>1
  <1>4. c["phone"] = IF w["phone"] # r.loaded["phone"] THEN w["phone"] ELSE account["phone"]
    BY <1>1
  <1>5. c.photo = IF w.photo # r.loaded.photo THEN w.photo ELSE account.photo
    BY <1>3
  <1>6. c.phone = IF w.phone # r.loaded.phone THEN w.phone ELSE account.phone
    BY <1>4
  <1>7. c \in Row
    BY <1>1, <1>5, <1>6 DEF Row
  <1>8. QED
    BY <1>2, <1>5, <1>6, <1>7

(* What a commit makes of the photo and the number. *)
LEMMA Committing ==
    ASSUME PhotoTyped, NEW r \in served, H!Commit(r)
    PROVE  /\ r.kind \notin H!Gets /\ account' \in Row
           /\ account'.photo \in {account.photo, r.no, None, H!Google}
           /\ r.kind = "save" => account'.photo = account.photo
           /\ r.kind = "upload" /\ r.loaded.photo # r.no => account'.photo = r.no
           /\ r.kind = "remove" => account'.photo = IF r.loaded.photo = None THEN account.photo ELSE None
           /\ r.kind = "google" =>
                account'.photo = IF H!InStorage(r.loaded.photo) \/ r.loaded.photo = H!Google
                                 THEN account.photo ELSE H!Google
           /\ r.kind # "save" => account'.phone = account.phone
           /\ r.kind = "save" =>
                account'.phone = IF r.phone \in {"none", r.loaded.phone} THEN account.phone ELSE r.phone
           /\ H!Wanted(r) = r.loaded => account' = account
  <1>1. /\ r.kind \in Kinds /\ TodoGood(r) /\ r.phone \in H!Typed /\ r.loaded \in Row /\ account \in Row
        /\ r.no \in Nat /\ H!Ready(r, "commit") /\ account' = H!Changed(r)
    BY DEF PhotoTyped, PhotoRequest, H!Commit
  <1>2. r.kind \notin H!Gets
    BY <1>1, Lists DEF List, TodoGood
  <1>3. PICK w : w = H!Wanted(r)
    OBVIOUS
  <1>4. /\ r.kind = "save" => w = [photo |-> r.loaded.photo,
                                   phone |-> IF r.phone = "none" THEN r.loaded.phone ELSE r.phone]
        /\ r.kind = "upload" => w = [photo |-> r.no, phone |-> r.loaded.phone]
        /\ r.kind = "remove" => w = [photo |-> None, phone |-> r.loaded.phone]
        /\ r.kind = "google" => w = [photo |-> IF H!InStorage(r.loaded.photo) THEN r.loaded.photo ELSE H!Google,
                                     phone |-> r.loaded.phone]
    BY <1>1, <1>3 DEF H!Wanted, Row
  <1>5. w \in Row /\ r.kind \in {"save", "upload", "remove", "google"}
    BY <1>1, <1>2, <1>4 DEF Row, H!Google, H!Typed, Kinds
  <1>6. /\ account'.photo = IF w.photo # r.loaded.photo THEN w.photo ELSE account.photo
        /\ account'.phone = IF w.phone # r.loaded.phone THEN w.phone ELSE account.phone
        /\ account' \in Row
    BY <1>1, <1>3, <1>5, ChangedTo
  <1>7. w = r.loaded => account' = account
    BY <1>1, <1>6 DEF Row
  <1>8. QED
    BY <1>1, <1>2, <1>3, <1>4, <1>5, <1>6, <1>7 DEF H!Google, H!InStorage

LEMMA TakesGood ==
    ASSUME PhotoTyped, NEW r \in served, NEW n, NEW this, Takes(r, n, this)
    PROVE  /\ TodoGood(n) /\ Named(n.loaded.photo)
           /\ H!Due(r, this) /\ \A s : H!Due(n, s) <=> H!Due(r, s) /\ s # this
           /\ this # "authenticate" => ~ H!Due(r, "authenticate")
           /\ this \in {"delete", "commit", "readBack", "purge"} => ~ H!Due(r, "put")
           /\ this \in {"commit", "readBack", "purge"} => ~ H!Due(r, "delete")
           /\ this \in {"readBack", "purge"} => ~ H!Due(r, "commit")
           /\ this = "purge" => ~ H!Due(r, "readBack")
           /\ this = "fill" => ~ H!Due(r, "look")
  <1>1. r.kind \in Kinds /\ TodoGood(r) /\ H!Ready(r, this) /\ n.kind = r.kind /\ n.todo = Tail(r.todo)
    BY DEF PhotoTyped, PhotoRequest, Takes, Same
  <1>2. Named(n.loaded.photo)
    BY DEF Takes, PhotoTyped
  <1>3. QED
    BY <1>1, <1>2, StepTaken

LEMMA EndsGood ==
    ASSUME PhotoTyped, NEW r \in served, NEW n, Ends(r, n)
    PROVE  /\ TodoGood(n) /\ Named(n.loaded.photo) /\ \A s : ~ H!Due(n, s)
  BY Lists DEF PhotoTyped, Ends, TodoGood, Same

LEMMA HandledTyped ==
    ASSUME PhotoTyped, NEW r \in served, NEW n, Same(r, n), TodoGood(n), Named(n.loaded.photo), sends' = sends,
           account' \in Row, Named(account'.photo), cachedProfile' \in Row \cup {None},
           files' \subseteq 1..(sends + 1)
    PROVE  PhotoTyped'
  <1>1. served' \subseteq (served \ {r}) \cup {n}
    BY DEF Same, H!Handle
  <1>2. PhotoRequest(n) /\ n.no = r.no /\ n.no \in 2..(sends + 1)
    BY DEF Same, PhotoTyped
  <1>3. QED
    BY <1>1, <1>2 DEF PhotoTyped, Named

LEMMA EndedTyped ==
    ASSUME PhotoTyped, served' \subseteq served, sends' = sends, files' = files, account' = account,
           cachedProfile' \in {cachedProfile, None}
    PROVE  PhotoTyped'
  BY DEF PhotoTyped, Named

LEMMA SentTyped ==
    ASSUME PhotoTyped, NEW kind \in Kinds, NEW here \in BOOLEAN, NEW phone \in H!Typed,
           NEW old \in SUBSET served,
           served' = old \cup {H!Request(kind, here, phone)}, sends' = sends + 1,
           UNCHANGED <<account, cachedProfile, files>>
    PROVE  PhotoTyped'
  <1>1. PICK n : n = H!Request(kind, here, phone)
    OBVIOUS
  <1>2. /\ n.kind = kind /\ n.no = sends + 2 /\ n.loaded = H!Blank /\ n.todo = H!Steps(kind)
        /\ PhotoRequest(n)
    BY <1>1 DEF H!Request, PhotoRequest, Row, H!Blank
  <1>3. TodoGood(n)
    BY <1>2, Photos DEF TodoGood, Kinds, H!Gets
  <1>4. Named(n.loaded.photo)'
    BY <1>2 DEF Named, H!Blank
  <1>5. QED
    BY <1>1, <1>2, <1>3, <1>4 DEF PhotoTyped, Named

LEMMA Handled ==
    ASSUME PhotoTyped, NEW r \in served,
           \/ H!Authenticate(r) \/ H!Look(r) \/ H!Fill(r) \/ H!Put(r) \/ H!Delete(r) \/ H!Commit(r)
           \/ H!ReadBack(r) \/ H!Purge(r) \/ H!Fail(r)
    PROVE  \E n : Same(r, n) /\ TodoGood(n) /\ Named(n.loaded.photo)
  <1>1. \E n : Ends(r, n) \/ \E this : Takes(r, n, this)
    BY Stepping
  <1>2. ASSUME NEW n, Ends(r, n) PROVE Same(r, n) /\ TodoGood(n) /\ Named(n.loaded.photo)
    BY <1>2, EndsGood DEF Ends
  <1>3. ASSUME NEW n, NEW this, Takes(r, n, this) PROVE Same(r, n) /\ TodoGood(n) /\ Named(n.loaded.photo)
    BY <1>3, TakesGood DEF Takes
  <1>4. QED
    BY <1>1, <1>2, <1>3

(* A step of the page or elsewhere: requests are sent, answers read. *)
Sends ==
    \E kind \in Kinds, here \in BOOLEAN, phone \in H!Typed, old \in SUBSET served :
        /\ served' = old \cup {H!Request(kind, here, phone)} /\ sends' = sends + 1
        /\ \A r \in served \ old : H!Answered(r)
        /\ UNCHANGED <<account, files, cachedProfile, halfway>>
Reads ==
    /\ served' \subseteq served /\ sends' = sends
    /\ \A r \in served \ served' : H!Answered(r)
    /\ UNCHANGED <<account, files, halfway>> /\ cachedProfile' \in {cachedProfile, None}
Serves(r) ==
    \/ H!Authenticate(r) \/ H!Look(r) \/ H!Fill(r) \/ H!Put(r) \/ H!Delete(r) \/ H!Commit(r)
    \/ H!ReadBack(r) \/ H!Purge(r) \/ H!Fail(r)

(* A number set by an admin, and everything else. *)
Edits == \E phone \in {"one", "two"} : H!AdminEdits(phone)
PhotoMoves == H!ProfileNext /\ ~ Edits

LEMMA Finishes ==
    ASSUME NEW r \in served, H!LoadArrives(r) \/ H!SaveArrives(r) \/ H!PhotoArrives(r) \/ H!RefreshArrives(r)
    PROVE  Sends \/ Reads
  <1>1. UNCHANGED <<account, files, cachedProfile, halfway>> /\ H!Answered(r)
    BY DEF H!LoadArrives, H!SaveArrives, H!PhotoArrives, H!RefreshArrives, H!serverVars
  <1>2. H!Finish(r, {}) \/ \E kind \in H!Gets : H!Finish(r, H!RefreshProfile(kind))
    BY DEF H!LoadArrives, H!SaveArrives, H!PhotoArrives, H!RefreshArrives, H!Gets
  <1>3. H!Finish(r, {}) => Reads
    BY <1>1 DEF H!Finish, Reads
  <1>4. ASSUME NEW kind \in H!Gets, H!Finish(r, H!RefreshProfile(kind)) PROVE Sends
    <2>1. served' = (served \ {r}) \cup {H!Request(kind, TRUE, "none")} /\ sends' = sends + 1
      BY <1>4 DEF H!Finish, H!RefreshProfile
    <2>2. kind \in Kinds /\ TRUE \in BOOLEAN /\ "none" \in H!Typed /\ served \ {r} \in SUBSET served
      BY DEF Kinds, H!Typed
    <2>3. \A q \in served \ (served \ {r}) : H!Answered(q)
      BY <1>1
    <2>4. QED
      BY <1>1, <2>1, <2>2, <2>3 DEF Sends
  <1>5. QED
    BY <1>2, <1>3, <1>4

LEMMA Traffic ==
    ASSUME PhotoMoves
    PROVE  Sends \/ Reads \/ \E r \in served : Serves(r)
  <1>1. ASSUME NEW kind \in Kinds, NEW here \in BOOLEAN, NEW phone \in H!Typed,
               H!Sent(H!Request(kind, here, phone)), UNCHANGED H!serverVars
        PROVE  Sends
    BY <1>1 DEF H!Sent, Sends, H!serverVars
  <1>2. H!Gets \subseteq Kinds /\ {"save", "remove", "upload", "google", "load"} \subseteq Kinds
        /\ "none" \in H!Typed
    BY DEF Kinds, H!Gets, H!Typed
  <1>3. ASSUME NEW phone \in H!Typed, H!Save(phone) PROVE Sends
    BY <1>1, <1>2, <1>3 DEF H!Save
  <1>4. H!Upload => Sends
    BY <1>1, <1>2 DEF H!Upload
  <1>5. H!Remove => Sends
    BY <1>1, <1>2 DEF H!Remove
  <1>6. ASSUME NEW kind \in Kinds, NEW phone \in H!Typed, H!Elsewhere(kind, phone) PROVE Sends
    BY <1>1, <1>6 DEF H!Elsewhere
  <1>7. H!Expire => Reads
    BY DEF H!Expire, Reads
  <1>8. QED
    BY <1>2, <1>3, <1>4, <1>5, <1>6, <1>7, Finishes DEF PhotoMoves, Edits, H!ProfileNext, Serves, H!Typed

LEMMA PhotoTypes ==
    ASSUME PhotoTyped, PhotoMoves
    PROVE  PhotoTyped'
  <1>1. CASE Sends
    BY <1>1, SentTyped DEF Sends
  <1>2. CASE Reads
    BY <1>2, EndedTyped DEF Reads
  <1>3. ASSUME NEW r \in served, Serves(r) PROVE PhotoTyped'
    <2>1. sends' = sends /\ files' \subseteq files \cup {r.no}
          /\ cachedProfile' \in {cachedProfile, r.got, None}
      BY <1>3 DEF Serves, H!Authenticate, H!Look, H!Fill, H!Put, H!Delete, H!Commit, H!ReadBack, H!Purge,
                  H!Fail, H!serverVars
    <2>2. account' = account \/ H!Commit(r)
      BY <1>3 DEF Serves, H!Authenticate, H!Look, H!Fill, H!Put, H!Delete, H!ReadBack, H!Purge, H!Fail,
                  H!serverVars
    <2>3. account' \in Row /\ Named(account'.photo)
      BY <2>2, Committing DEF PhotoTyped, Named, H!Google
    <2>4. \E n : Same(r, n) /\ TodoGood(n) /\ Named(n.loaded.photo)
      BY <1>3, Handled DEF Serves
    <2>5. QED
      BY <2>1, <2>3, <2>4, HandledTyped DEF PhotoTyped, PhotoRequest
  <1>4. QED
    BY <1>1, <1>2, <1>3, Traffic

(* A new request has everything before it. *)
LEMMA Fresh ==
    ASSUME NEW kind \in Kinds, NEW here \in BOOLEAN, NEW phone, NEW n, n = H!Request(kind, here, phone)
    PROVE  /\ n.no = sends + 2 /\ n.kind = kind /\ n.here = here /\ n.phone = phone
           /\ n.loaded.photo = None /\ n.got = None
           /\ H!Due(n, "authenticate") /\ n.todo # Nothing
           /\ kind \in {"upload", "remove"} => H!Due(n, "delete")
           /\ kind = "upload" => H!Due(n, "put")
           /\ kind \notin H!Gets => H!Due(n, "commit")
  <1>1. /\ n.kind = kind /\ n.no = sends + 2 /\ n.loaded.photo = None /\ n.todo = H!Steps(kind)
        /\ n.here = here /\ n.phone = phone /\ n.got = None
    BY DEF H!Request, H!Blank
  <1>2. n.todo \in {OfGet, OfSave, OfRemove, OfUpload, OfGoogle} /\ TodoGood(n)
    BY <1>1, Photos DEF TodoGood, Kinds, H!Gets
  <1>3. H!Due(n, "authenticate") /\ n.todo # Nothing
    BY <1>2, Lists DEF List
  <1>4. StepsOrdered(n)
    BY <1>1, <1>2, StepsLeft
  <1>5. QED
    BY <1>1, <1>3, <1>4 DEF StepsOrdered

(* The files while requests come and go. *)
LEMMA FilesSent ==
    ASSUME PhotoTyped, FilesGood, MissingGood, NEW kind \in Kinds, NEW here \in BOOLEAN, NEW phone,
           NEW old \in SUBSET served, \A r \in served \ old : ~ H!Orphaning(r),
           served' = old \cup {H!Request(kind, here, phone)},
           UNCHANGED <<account, files, halfway>>
    PROVE  FilesGood' /\ MissingGood'
  <1>1. PICK n : n = H!Request(kind, here, phone)
    OBVIOUS
  <1>2. /\ n.no = sends + 2 /\ n.kind = kind /\ n.loaded.photo = None
        /\ kind \in {"upload", "remove"} => H!Due(n, "delete")
        /\ kind = "upload" => H!Due(n, "put")
    BY <1>1, Fresh
  <1>3. ~ H!Orphaning(n)
    BY <1>2 DEF H!Orphaning
  <1>4. \A r \in served : r.no \in 2..(sends + 1) /\ Named(r.loaded.photo)
    BY DEF PhotoTyped
  <1>5. Named(account.photo) /\ sends \in Nat
    BY DEF PhotoTyped
  <1>6. FilesGood'
    BY <1>1, <1>2, <1>3, <1>4, <1>5, Photos DEF FilesGood, Named
  <1>7. MissingGood'
    BY DEF MissingGood, H!Missing
  <1>8. QED
    BY <1>6, <1>7

LEMMA FilesEnded ==
    ASSUME PhotoTyped, FilesGood, MissingGood, served' \subseteq served,
           \A r \in served \ served' : ~ H!Orphaning(r), UNCHANGED <<account, files, halfway>>
    PROVE  FilesGood' /\ MissingGood'
  BY DEF FilesGood, MissingGood, H!Missing

(* A step that is not about files, or an end. *)
LEMMA FilesKept ==
    ASSUME PhotoTyped, FilesGood, MissingGood, NEW r \in served, NEW n,
           \/ \E this \in {"authenticate", "look", "fill", "readBack", "purge"} : Takes(r, n, this)
           \/ Ends(r, n) /\ (H!Orphaning(r) => r.loaded.photo \in halfway'),
           UNCHANGED <<account, files>>, halfway \subseteq halfway'
    PROVE  FilesGood' /\ MissingGood'
  <1>1. served' \subseteq (served \ {r}) \cup {n} /\ served \ {r} \subseteq served'
    BY DEF Takes, Ends, Same, H!Handle
  <1>2. n.no = r.no /\ n.kind = r.kind
    BY DEF Takes, Ends, Same
  <1>3. StepsOrdered(r) /\ r.no \in Nat
    BY StepsLeft DEF PhotoTyped, PhotoRequest
  <1>4. n.loaded.photo \in {r.loaded.photo, account.photo}
    BY DEF Takes, Ends
  <1>5. /\ H!Due(n, "commit") => H!Due(r, "commit")
        /\ H!Due(r, "put") /\ H!Due(n, "commit") => H!Due(n, "put")
        /\ H!Due(r, "delete") /\ H!Due(n, "commit") => H!Due(n, "delete")
    BY TakesGood, EndsGood
  <1>6. ~ H!Orphaning(n)
    BY <1>2, <1>3, TakesGood, EndsGood DEF H!Orphaning, StepsOrdered
  <1>7. H!Orphaning(r) => r.loaded.photo \in halfway'
    BY <1>3, TakesGood DEF H!Orphaning, StepsOrdered
  <1>8. FilesGood'
    BY <1>1, <1>2, <1>4, <1>5, <1>6 DEF FilesGood
  <1>9. MissingGood'
    BY <1>1, <1>7 DEF MissingGood, H!Missing
  <1>10. QED
    BY <1>8, <1>9

LEMMA FilesPut ==
    ASSUME PhotoTyped, FilesGood, MissingGood, NEW r \in served, H!Put(r)
    PROVE  FilesGood' /\ MissingGood'
  <1>1. PICK n : Takes(r, n, "put")
    BY Stepping
  <1>2. served' \subseteq (served \ {r}) \cup {n} /\ served \ {r} \subseteq served'
    BY <1>1 DEF Takes, Same, H!Handle
  <1>3. /\ n.no = r.no /\ n.kind = r.kind /\ n.loaded = r.loaded
        /\ \A s : H!Due(n, s) <=> H!Due(r, s) /\ s # "put"
        /\ H!Due(r, "put")
    BY <1>1, TakesGood DEF Takes, Same
  <1>4. r.kind = "upload" /\ H!Due(r, "delete") /\ H!Due(r, "commit") /\ H!Due(n, "delete")
    BY <1>3, StepsLeft DEF PhotoTyped, PhotoRequest, StepsOrdered
  <1>5. files' = files \cup {r.no} /\ account' = account /\ halfway' = halfway
    BY DEF H!Put
  <1>6. FilesGood'
    BY <1>2, <1>3, <1>4, <1>5 DEF FilesGood, H!Orphaning
  <1>7. MissingGood'
    BY <1>2, <1>4, <1>5 DEF MissingGood, H!Missing, H!Orphaning
  <1>8. QED
    BY <1>6, <1>7

LEMMA FilesDelete ==
    ASSUME PhotoTyped, FilesGood, MissingGood, NEW r \in served, H!Delete(r)
    PROVE  FilesGood' /\ MissingGood'
  <1>1. PICK n : Takes(r, n, "delete") /\ (files' = files \ {r.loaded.photo} \/ n.kept)
    BY Stepping
  <1>2. /\ n.no = r.no /\ n.kind = r.kind /\ n.loaded = r.loaded
        /\ \A s : H!Due(n, s) <=> H!Due(r, s) /\ s # "delete"
        /\ H!Due(r, "delete") /\ ~ H!Due(r, "put") /\ TodoGood(n)
    BY <1>1, TakesGood DEF Takes, Same
  <1>3. r.kind \in {"upload", "remove"} /\ H!Due(r, "commit")
    BY <1>2, StepsLeft DEF PhotoTyped, PhotoRequest, StepsOrdered
  <1>4. n.todo # Nothing
    BY <1>2, <1>3, Lists
  <1>5. served' = (served \ {r}) \cup {n}
    BY <1>1, <1>4 DEF Takes, Same, H!Handle, Nothing
  <1>6. H!Orphaning(n)
    BY <1>2, <1>3 DEF H!Orphaning
  <1>7. /\ files' = files \ {r.loaded.photo} \/ files' = files
        /\ account' = account /\ halfway' = halfway
    BY DEF H!Delete
  <1>8. \A q \in served : q.kind = "upload" /\ H!Due(q, "commit") => q.no # r.loaded.photo
    BY DEF FilesGood
  <1>9. FilesGood'
    BY <1>1, <1>2, <1>3, <1>5, <1>7, <1>8 DEF FilesGood
  <1>10. MissingGood'
    <2>1. CASE account.photo = r.loaded.photo
      BY <1>2, <1>5, <1>6, <1>7, <2>1 DEF MissingGood
    <2>2. CASE account.photo # r.loaded.photo
      <3>1. H!Missing' => H!Missing
        BY <1>7, <2>2 DEF H!Missing
      <3>2. \A q \in served : H!Orphaning(q) /\ q.loaded.photo = account.photo => q \in served'
        BY <1>5, <2>2
      <3>3. QED
        BY <1>7, <3>1, <3>2 DEF MissingGood
    <2>3. QED
      BY <2>1, <2>2
  <1>11. QED
    BY <1>9, <1>10

LEMMA FilesCommit ==
    ASSUME PhotoTyped, FilesGood, MissingGood, NEW r \in served, H!Commit(r)
    PROVE  FilesGood' /\ MissingGood'
  <1>1. PICK n : Takes(r, n, "commit") \/ (Ends(r, n) /\ r.kind = "google")
    BY Stepping
  <1>2. served' \subseteq (served \ {r}) \cup {n} /\ served \ {r} \subseteq served'
    BY <1>1 DEF Takes, Ends, Same, H!Handle
  <1>3. n.loaded = r.loaded /\ ~ H!Due(n, "commit")
    BY <1>1, TakesGood, EndsGood DEF Takes, Ends
  <1>4. /\ H!Ready(r, "commit") /\ r.kind \in Kinds /\ TodoGood(r) /\ r.no \in Nat \ {0}
        /\ r.loaded \in Row /\ account \in Row
    BY DEF H!Commit, PhotoTyped, PhotoRequest
  <1>5. /\ H!Due(r, "commit") \/ r.kind = "google"
        /\ r.kind = "upload" => H!Due(r, "commit") /\ ~ H!Due(r, "put")
    BY <1>1, TakesGood
  <1>6. r.kind = "upload" => /\ r.loaded.photo # r.no /\ account.photo # r.no /\ r.no \in files
    BY <1>5 DEF FilesGood
  <1>7. /\ account'.photo \in {account.photo, r.no, None, H!Google} /\ files' = files /\ halfway' = halfway
        /\ r.kind # "upload" => account'.photo \in {account.photo, None, H!Google}
        /\ r.kind = "upload" => account'.photo = r.no
        /\ r.kind = "remove" => account'.photo = IF r.loaded.photo = None THEN account.photo ELSE None
    <2>1. files' = files /\ halfway' = halfway
      BY DEF H!Commit
    <2>2. r.kind \in {"save", "remove", "upload", "google"}
      BY <1>4, Committing DEF Kinds
    <2>3. QED
      BY <1>6, <2>1, <2>2, Committing
  <1>8. FilesGood'
    <2>1. \A q \in served \ {r} : q.kind = "upload" /\ H!Due(q, "commit") => account'.photo # q.no
      <3>1. \A q \in served \ {r} : q.no # r.no /\ q.no \in Nat \ {0}
        BY DEF PhotoTyped
      <3>2. None \notin Nat \ {0} /\ H!Google \notin Nat \ {0}
        BY Photos DEF H!Google
      <3>3. QED
        BY <1>7, <3>1, <3>2 DEF FilesGood
    <2>2. QED
      BY <1>2, <1>3, <1>7, <2>1 DEF FilesGood, H!Orphaning
  <1>9. MissingGood'
    <2>1. SUFFICES ASSUME H!Missing' PROVE account'.photo \in halfway' \/
                     \E q \in served' : H!Orphaning(q) /\ q.loaded.photo = account'.photo
      BY DEF MissingGood
    <2>2. account'.photo = account.photo /\ H!Missing
      BY <1>6, <1>7, <2>1 DEF H!Missing, H!InStorage
    <2>3. r.loaded.photo = account.photo => ~ H!Orphaning(r)
      BY <1>6, <1>7, <2>2 DEF H!Orphaning, H!Missing, H!InStorage
    <2>4. QED
      BY <1>2, <1>7, <2>2, <2>3 DEF MissingGood
  <1>10. QED
    BY <1>8, <1>9

LEMMA FilesStep ==
    ASSUME PhotoTyped, FilesGood, MissingGood, PhotoMoves
    PROVE  FilesGood' /\ MissingGood'
  <1>1. ASSUME NEW r \in served, H!Answered(r) PROVE ~ H!Orphaning(r)
    BY <1>1, StepsLeft DEF H!Answered, H!Orphaning, PhotoTyped, PhotoRequest, StepsOrdered, Nothing
  <1>2. CASE Sends
    BY <1>1, <1>2, FilesSent DEF Sends
  <1>3. CASE Reads
    BY <1>1, <1>3, FilesEnded DEF Reads
  <1>4. ASSUME NEW r \in served, Serves(r) PROVE FilesGood' /\ MissingGood'
    <2>1. CASE H!Put(r) \/ H!Delete(r) \/ H!Commit(r)
      BY <2>1, FilesPut, FilesDelete, FilesCommit
    <2>2. CASE H!Fail(r)
      <3>1. \E n : Ends(r, n)
        BY <2>2, Stepping
      <3>2. UNCHANGED <<account, files>> /\ halfway \subseteq halfway'
            /\ (H!Orphaning(r) => r.loaded.photo \in halfway')
        BY <2>2 DEF H!Fail
      <3>3. QED
        BY <3>1, <3>2, FilesKept
    <2>3. CASE H!Look(r)
      <3>1. \E n : Takes(r, n, "look") \/ Ends(r, n)
        BY <2>3, Stepping
      <3>2. UNCHANGED <<account, files, halfway>> /\ ~ H!Orphaning(r)
        BY <2>3, Lists DEF H!Look, H!serverVars, H!Orphaning, PhotoTyped, TodoGood, List
      <3>3. QED
        BY <3>1, <3>2, FilesKept
    <2>4. CASE H!Authenticate(r) \/ H!Fill(r) \/ H!ReadBack(r) \/ H!Purge(r)
      <3>1. \E n : \E this \in {"authenticate", "look", "fill", "readBack", "purge"} : Takes(r, n, this)
        BY <2>4, Stepping
      <3>2. UNCHANGED <<account, files, halfway>>
        BY <2>4 DEF H!Authenticate, H!Fill, H!ReadBack, H!Purge, H!serverVars
      <3>3. QED
        BY <3>1, <3>2, FilesKept
    <2>5. QED
      BY <1>4, <2>1, <2>2, <2>3, <2>4 DEF Serves
  <1>5. QED
    BY <1>2, <1>3, <1>4, Traffic

Strayed ==
    H!Strays' \ H!Strays # {} =>
        \E r \in H!Moved : \/ r \in H!Died /\ r.kind = "upload" /\ H!Due(r, "commit")
                           \/ H!Ready(r, "commit") /\ (H!Overtaken(r) \/ r.kept)

(* While nobody commits or fails, no file is left over. *)
LEMMA NoStrays ==
    ASSUME files' \subseteq files \cup {r.no : r \in {q \in served' : q.kind = "upload" /\ H!Due(q, "commit")}},
           account' = account,
           \A r \in served : r.kind = "upload" /\ H!Due(r, "commit") =>
              \E n \in served' : n.kind = "upload" /\ n.no = r.no /\ H!Due(n, "commit")
    PROVE  Strayed
  BY DEF Strayed, H!Strays

LEMMA StraysStep ==
    ASSUME PhotoTyped, FilesGood, PhotoMoves
    PROVE  Strayed
  <1>1. ASSUME NEW r \in served, H!Answered(r) PROVE ~ H!Due(r, "commit")
    BY <1>1, StepsLeft DEF H!Answered, PhotoTyped, PhotoRequest, StepsOrdered, Nothing
  <1>2. CASE Sends
    BY <1>1, <1>2, NoStrays DEF Sends
  <1>3. CASE Reads
    BY <1>1, <1>3, NoStrays DEF Reads
  <1>4. ASSUME NEW r \in served, NEW n, NEW this, Takes(r, n, this), this # "commit", account' = account,
               files' \subseteq files \/ (H!Put(r) /\ this = "put")
        PROVE  Strayed
    <2>1. /\ n.no = r.no /\ n.kind = r.kind /\ TodoGood(n)
          /\ \A s : H!Due(n, s) <=> H!Due(r, s) /\ s # this
      BY <1>4, TakesGood DEF Takes, Same
    <2>2. H!Due(n, "commit") => n.todo # <<>>
      BY <2>1, Lists DEF Nothing
    <2>3. served \ {r} \subseteq served' /\ (H!Due(n, "commit") => n \in served')
      BY <1>4, <2>2 DEF Takes, Same, H!Handle
    <2>4. H!Put(r) /\ this = "put" => files' = files \cup {n.no} /\ n.kind = "upload" /\ H!Due(n, "commit")
      <3>1. SUFFICES ASSUME H!Put(r), this = "put"
                     PROVE  files' = files \cup {r.no} /\ r.kind = "upload" /\ H!Due(r, "commit")
        BY <2>1
      <3>2. H!Due(r, "put")
        BY <1>4, <3>1, TakesGood
      <3>3. QED
        BY <3>1, <3>2, StepsLeft DEF H!Put, PhotoTyped, PhotoRequest, StepsOrdered
    <2>5. QED
      BY <1>4, <2>1, <2>3, <2>4, NoStrays
  <1>5. ASSUME NEW r \in served, NEW n, Ends(r, n), n.no = r.no, account' = account, files' = files,
               H!Fail(r) \/ ~ (r.kind = "upload" /\ H!Due(r, "commit"))
        PROVE  Strayed
    <2>1. served' \subseteq (served \ {r}) \cup {n} /\ served \ {r} \subseteq served' /\ n.todo = <<>>
      BY <1>5 DEF Ends, Same, H!Handle, Nothing
    <2>2. CASE ~ (r.kind = "upload" /\ H!Due(r, "commit"))
      BY <1>5, <2>1, <2>2, NoStrays
    <2>3. CASE r.kind = "upload" /\ H!Due(r, "commit")
      <3>1. r.todo # <<>>
        BY <2>3, Lists DEF Nothing
      <3>2. r \in H!Moved
        BY <2>1, <3>1 DEF H!Moved
      <3>3. \A q \in served' : q.no = r.no => q.todo = <<>>
        BY <2>1 DEF PhotoTyped
      <3>4. r \in H!Died
        BY <3>1, <3>2, <3>3 DEF H!Died
      <3>5. QED
        BY <2>3, <3>2, <3>4 DEF Strayed
    <2>4. QED
      BY <2>2, <2>3
  <1>6. ASSUME NEW r \in served, H!Commit(r) PROVE Strayed
    <2>1. PICK n : Takes(r, n, "commit") \/ (Ends(r, n) /\ r.kind = "google")
      BY <1>6, Stepping
    <2>2. served' \subseteq (served \ {r}) \cup {n} /\ served \ {r} \subseteq served'
      BY <2>1 DEF Takes, Ends, Same, H!Handle
    <2>3. H!Ready(r, "commit") /\ files' = files /\ r.kind \in Kinds \ H!Gets
      BY <1>6, Committing DEF H!Commit, PhotoTyped, PhotoRequest
    <2>4. n # r
      <3>1. Takes(r, n, "commit") => H!Due(r, "commit") /\ ~ H!Due(n, "commit")
        BY TakesGood
      <3>2. Ends(r, n) => n.todo = <<>> /\ r.todo # <<>>
        BY <2>3 DEF Ends, Nothing, H!Ready
      <3>3. QED
        BY <2>1, <3>1, <3>2
    <2>5. r \in H!Moved
      BY <2>2, <2>4 DEF H!Moved
    <2>6. SUFFICES ASSUME ~ H!Overtaken(r), ~ r.kept PROVE H!Strays' \subseteq H!Strays
      BY <2>3, <2>5 DEF Strayed
    <2>7. r.loaded.photo = account.photo
      BY <2>6 DEF H!Overtaken
    <2>8. r.kind \in {"upload", "remove"} => r.loaded.photo \notin files
      <3>1. r.kind \in {"upload", "remove"} => H!Orphaning(r)
        BY <2>1, TakesGood DEF H!Orphaning
      <3>2. QED
        BY <2>6, <3>1 DEF FilesGood
    <2>9. r.kind \in {"save", "google"} /\ account.photo \in files => account'.photo = account.photo
      <3>0. \A f \in files : f \in Int /\ f # 0 /\ f # None
        <4>1. files \subseteq 1..(sends + 1) /\ sends \in Nat /\ None \notin Int
          BY Photos DEF PhotoTyped
        <4>2. QED
          BY <4>1
      <3>1. account.photo \in files => H!InStorage(r.loaded.photo)
        BY <2>7, <3>0 DEF H!InStorage, H!Google
      <3>2. QED
        BY <1>6, <2>7, <3>1, Committing
    <2>10. r.kind = "upload" => account'.photo = r.no
      <3>1. r.kind = "upload" => r.loaded.photo # r.no
        BY <2>1, TakesGood DEF FilesGood
      <3>2. QED
        BY <1>6, <3>1, Committing
    <2>11. ASSUME NEW f \in H!Strays' PROVE f \in H!Strays
      <3>1. f \in files /\ f # account'.photo
        BY <2>3, <2>11 DEF H!Strays
      <3>2. f # account.photo
        BY <2>3, <2>7, <2>8, <2>9, <3>1 DEF Kinds
      <3>3. \A q \in served : ~ (q.kind = "upload" /\ q.no = f /\ H!Due(q, "commit"))
        BY <2>2, <2>10, <2>11, <3>1 DEF H!Strays
      <3>4. QED
        BY <3>1, <3>2, <3>3 DEF H!Strays
    <2>12. QED
      BY <2>11
  <1>7. ASSUME NEW r \in served, Serves(r), ~ H!Commit(r) PROVE Strayed
    <2>1. account' = account
      BY <1>7 DEF Serves, H!Authenticate, H!Look, H!Fill, H!Put, H!Delete, H!ReadBack, H!Purge, H!Fail,
                  H!serverVars
    <2>2. files' \subseteq files \/ H!Put(r)
      BY <1>7 DEF Serves, H!Authenticate, H!Look, H!Fill, H!Delete, H!ReadBack, H!Purge, H!Fail, H!serverVars
    <2>3. CASE H!Fail(r)
      <3>1. \E n : Ends(r, n)
        BY <2>3, Stepping
      <3>2. files' = files
        BY <2>3 DEF H!Fail
      <3>3. QED
        BY <2>1, <2>3, <3>1, <3>2, <1>5 DEF Ends, Same
    <2>4. CASE H!Look(r)
      <3>1. \E n : Takes(r, n, "look") \/ Ends(r, n)
        BY <2>4, Stepping
      <3>2. files' = files /\ r.kind # "upload"
        BY <2>4, Lists DEF H!Look, H!serverVars, PhotoTyped, TodoGood, List
      <3>3. QED
        BY <2>1, <2>4, <3>1, <3>2, <1>4, <1>5 DEF Ends, Same
    <2>5. CASE H!Put(r)
      BY <2>1, <2>5, Stepping, <1>4
    <2>6. CASE ~ (H!Fail(r) \/ H!Look(r) \/ H!Put(r))
      <3>1. \E n : \E this \in {"authenticate", "fill", "delete", "readBack", "purge"} : Takes(r, n, this)
        BY <1>7, <2>6, Stepping DEF Serves
      <3>2. QED
        BY <2>1, <2>2, <2>6, <3>1, <1>4
    <2>7. QED
      BY <2>3, <2>4, <2>5, <2>6
  <1>8. QED
    BY <1>2, <1>3, <1>6, <1>7, Traffic

(* What the steps of the server have in common. *)
Ending(r, n) ==
    /\ Ends(r, n) /\ account' = account
    /\ \/ H!Fail(r) /\ n.got = None
       \/ H!Look(r) /\ r.kind \in H!Gets /\ n.got = cachedProfile /\ n.got # None
       \/ r.kind = "google" /\ H!Due(r, "commit") /\ n.got = r.got
Taking(r, n, this) ==
    /\ Takes(r, n, this)
    /\ IF this = "commit" THEN H!Commit(r) ELSE account' = account
    /\ this = "purge" => H!Purge(r)

LEMMA ServesAs ==
    ASSUME PhotoTyped, NEW r \in served, Serves(r)
    PROVE  /\ UNCHANGED <<desk, person, reading, saving, uploading, header>> /\ why \subseteq why'
           /\ ~ r.here /\ account' # account => "elsewhere" \in why'
           /\ (\E n : Ending(r, n)) \/ \E n, this : Taking(r, n, this)
  <1>1. UNCHANGED <<desk, person, reading, saving, uploading, header>> /\ why \subseteq why'
    BY DEF Serves, H!Authenticate, H!Look, H!Fill, H!Put, H!Delete, H!Commit, H!ReadBack, H!Purge, H!Fail,
           H!pageVars
  <1>2. account' = account \/ H!Commit(r)
    BY DEF Serves, H!Authenticate, H!Look, H!Fill, H!Put, H!Delete, H!ReadBack, H!Purge, H!Fail, H!serverVars
  <1>3. ~ r.here /\ account' # account => "elsewhere" \in why'
    BY <1>2 DEF H!Commit
  <1>4. ASSUME H!Commit(r) PROVE (\E n : Ending(r, n)) \/ \E n, this : Taking(r, n, this)
    <2>1. PICK n : Takes(r, n, "commit")
                   \/ (Ends(r, n) /\ n.got = r.got /\ r.kind = "google" /\ H!Wanted(r) = r.loaded)
      BY <1>4, Stepping
    <2>2. CASE Takes(r, n, "commit")
      <3>1. Taking(r, n, "commit")
        BY <1>4, <2>2 DEF Taking
      <3>2. QED
        BY <3>1
    <2>3. CASE Ends(r, n) /\ n.got = r.got /\ r.kind = "google" /\ H!Wanted(r) = r.loaded
      <3>1. r.todo \in {OfGoogle, FromSign, FromPurge, Nothing}
        BY <2>3 DEF PhotoTyped, TodoGood
      <3>2. H!Due(r, "commit")
        BY <1>4, <3>1, Lists DEF H!Commit, List
      <3>3. Ending(r, n)
        BY <1>4, <2>3, <3>2, Committing DEF Ending
      <3>4. QED
        BY <3>3
    <2>4. QED
      BY <2>1, <2>2, <2>3
  <1>5. CASE H!Fail(r)
    <2>1. PICK n : Ends(r, n) /\ n.got = None
      BY <1>5, Stepping
    <2>2. Ending(r, n)
      BY <1>5, <2>1 DEF Ending, H!Fail
    <2>3. QED
      BY <1>1, <1>3, <2>2
  <1>6. CASE H!Look(r)
    <2>1. PICK n : Takes(r, n, "look") \/ (Ends(r, n) /\ n.got = cachedProfile /\ n.got # None)
      BY <1>6, Stepping
    <2>2. r.kind \in H!Gets /\ account' = account
      BY <1>6, Lists DEF H!Look, H!serverVars, PhotoTyped, PhotoRequest, Kinds, TodoGood, List
    <2>3. Ending(r, n) \/ Taking(r, n, "look")
      BY <1>6, <2>1, <2>2 DEF Ending, Taking
    <2>4. QED
      BY <1>1, <1>3, <2>3
  <1>7. ASSUME NEW this, NEW n, Takes(r, n, this), this # "commit", this = "purge" => H!Purge(r),
               account' = account
        PROVE  Taking(r, n, this)
    BY <1>7 DEF Taking
  <1>8. CASE H!Purge(r)
    <2>1. PICK n : Takes(r, n, "purge")
      BY <1>8, Stepping
    <2>2. account' = account
      BY <1>8 DEF H!Purge
    <2>3. Taking(r, n, "purge")
      BY <1>7, <1>8, <2>1, <2>2
    <2>4. QED
      BY <1>1, <1>3, <2>3
  <1>9. CASE ~ (H!Fail(r) \/ H!Look(r) \/ H!Commit(r) \/ H!Purge(r))
    <2>1. PICK n, this : Takes(r, n, this) /\ this \in {"authenticate", "fill", "put", "delete", "readBack"}
      BY <1>9, Stepping DEF Serves
    <2>2. Taking(r, n, this)
      BY <1>2, <1>7, <1>9, <2>1
    <2>3. QED
      BY <1>1, <1>3, <2>2
  <1>10. QED
    BY <1>1, <1>3, <1>4, <1>5, <1>6, <1>8, <1>9

LEMMA WhyGrows ==
    ASSUME PhotoTyped, PhotoMoves
    PROVE  why \subseteq why' /\ desk' = desk
  BY ServesAs DEF PhotoMoves, Edits, H!ProfileNext, Serves, H!Save, H!Upload, H!Remove, H!Expire, H!Elsewhere, H!LoadArrives,
     H!SaveArrives, H!PhotoArrives, H!RefreshArrives, H!pageVars

LEMMA CachedStep ==
    ASSUME PhotoTyped, ProfileCached, PhotoMoves
    PROVE  ProfileCached'
  <1>1. why \subseteq why'
    BY WhyGrows
  <1>2. Astray => Astray'
    BY <1>1 DEF Astray
  <1>3. ASSUME NEW r \in served, H!Answered(r) PROVE ~ OnWay(r)
    BY <1>3, StepsLeft DEF H!Answered, PhotoTyped, PhotoRequest, StepsOrdered, Nothing, OnWay
  <1>4. CASE Sends
    BY <1>1, <1>2, <1>3, <1>4 DEF Sends, ProfileCached
  <1>5. CASE Reads
    BY <1>1, <1>2, <1>3, <1>5 DEF Reads, ProfileCached
  <1>6. ASSUME NEW r \in served, Serves(r) PROVE ProfileCached'
    <2>1. CASE H!Fail(r) /\ OnWay(r)
      BY <2>1 DEF H!Fail, OnWay, ProfileCached, Astray
    <2>2. CASE H!Purge(r)
      BY <2>2 DEF H!Purge, ProfileCached, Astray
    <2>3. CASE H!Fill(r) /\ cachedProfile' = r.got
      BY <2>3 DEF H!Fill, ProfileCached, Astray
    <2>4. CASE ~ (H!Fail(r) /\ OnWay(r)) /\ ~ H!Purge(r) /\ cachedProfile' = cachedProfile
      <3>1. /\ ~ r.here /\ account' # account => "elsewhere" \in why'
            /\ (\E n : Ending(r, n)) \/ \E n, this : Taking(r, n, this)
        BY <1>6, ServesAs
      <3>2. ASSUME NEW n, Ending(r, n) PROVE ProfileCached'
        <4>1. ~ OnWay(r)
          BY <2>4, <3>2 DEF Ending, OnWay, H!Committed
        <4>2. account' = account /\ served \ {r} \subseteq served'
          BY <3>2 DEF Ending, Ends, Same, H!Handle
        <4>3. QED
          BY <1>1, <1>2, <2>4, <4>1, <4>2 DEF ProfileCached
      <3>3. ASSUME NEW n, NEW this, Taking(r, n, this) PROVE ProfileCached'
        <4>1. /\ n.kind = r.kind /\ n.here = r.here /\ TodoGood(n)
              /\ \A s : H!Due(n, s) <=> H!Due(r, s) /\ s # this
              /\ served \ {r} \subseteq served' /\ (n.todo # <<>> => n \in served')
          BY <3>3, TakesGood DEF Taking, Takes, Same, H!Handle
        <4>2. H!Due(n, "purge") => n \in served'
          BY <4>1, Lists DEF Nothing
        <4>3. this # "purge"
          BY <2>4, <3>3 DEF Taking
        <4>4. OnWay(r) => OnWay(n) /\ n \in served'
          BY <4>1, <4>2, <4>3 DEF OnWay, H!Committed
        <4>5. this = "commit" => OnWay(n) /\ n \in served'
          <5>1. SUFFICES ASSUME this = "commit" PROVE OnWay(n)
            BY <4>2 DEF OnWay
          <5>2. r.kind \notin H!Gets /\ H!Due(r, "commit")
            BY <3>3, <5>1, Committing, TakesGood DEF Taking
          <5>3. r.todo # Nothing
            BY <5>2, Lists
          <5>4. H!Due(r, "purge")
            BY <5>2, <5>3, StepsLeft DEF PhotoTyped, PhotoRequest, StepsOrdered
          <5>5. QED
            BY <4>1, <5>1, <5>2, <5>4 DEF OnWay, H!Committed
        <4>6. QED
          BY <1>1, <1>2, <2>4, <3>1, <3>3, <4>1, <4>4, <4>5 DEF ProfileCached, Taking
      <3>4. QED
        BY <3>1, <3>2, <3>3
    <2>5. QED
      BY <1>6, <2>1, <2>2, <2>3, <2>4 DEF Serves, H!Authenticate, H!Look, H!Fill, H!Put, H!Delete, H!Commit,
                                 H!ReadBack, H!Fail,
                  H!serverVars
  <1>7. QED
    BY <1>4, <1>5, <1>6, Traffic

(* No save is sent or handled. *)
LEMMA SavesKept ==
    ASSUME SavesGood, saving' = saving, account' = account, why \subseteq why',
           \A r \in served' : r.here /\ r.kind = "save" => r \in served
    PROVE  SavesGood'
  BY DEF SavesGood, SaveGood, H!Here

LEMMA SavesSaved ==
    ASSUME PhotoTyped, SavesGood, NEW phone \in H!Typed, H!Save(phone)
    PROVE  SavesGood'
  <1>0. PICK here \in BOOLEAN : here = TRUE
    OBVIOUS
  <1>1. PICK n : n = H!Request("save", here, phone)
    OBVIOUS
  <1>2. n.got = None /\ H!Due(n, "authenticate") /\ n.todo # Nothing /\ H!Due(n, "commit")
    <2>1. "save" \in Kinds /\ "save" \notin H!Gets
      BY DEF Kinds, H!Gets
    <2>2. QED
      BY <1>1, <2>1, Fresh
  <1>3. ~ saving /\ saving' = TRUE /\ served' = served \cup {n}
    BY <1>0, <1>1 DEF H!Save, H!Sent
  <1>4. \A q \in H!Here' : q.kind = "save" => q = n
    BY <1>3 DEF SavesGood, SaveGood, H!Here
  <1>5. QED
    BY <1>2, <1>3, <1>4 DEF SavesGood, SaveGood

LEMMA SavesServed ==
    ASSUME PhotoTyped, SavesGood, NEW r \in served, Serves(r)
    PROVE  SavesGood'
  <1>1. /\ saving' = saving /\ why \subseteq why'
        /\ ~ r.here /\ account' # account => "elsewhere" \in why'
        /\ (\E n : Ending(r, n)) \/ \E n, this : Taking(r, n, this)
    BY ServesAs
  <1>2. PICK n : Ending(r, n) \/ \E this : Taking(r, n, this)
    BY <1>1
  <1>3. /\ n.no = r.no /\ n.kind = r.kind /\ n.here = r.here /\ n.phone = r.phone
        /\ served' \subseteq (served \ {r}) \cup {n}
    BY <1>2 DEF Ending, Taking, Takes, Ends, Same, H!Handle
  <1>4. account'.phone = account.phone \/ r.kind = "save"
    BY <1>2, Committing DEF Ending, Taking
  <1>5. SUFFICES ASSUME NEW x \in H!Here', x.kind = "save" PROVE SaveGood(x)'
    BY DEF SavesGood
  <1>6. saving' /\ \A q \in H!Here' : q.kind = "save" => q = x
    BY <1>1, <1>3, <1>5 DEF SavesGood, SaveGood, H!Here
  <1>7. CASE "elsewhere" \in why'
    BY <1>6, <1>7 DEF SaveGood
  <1>8. CASE x # n /\ "elsewhere" \notin why'
    <2>1. x \in H!Here /\ x \in served \ {r} /\ SaveGood(x)
      BY <1>3, <1>5, <1>8 DEF H!Here, SavesGood
    <2>2. r \notin H!Here \/ r.kind # "save"
      BY <2>1 DEF SaveGood
    <2>3. account'.phone = account.phone
      BY <1>1, <1>4, <1>8, <2>2 DEF H!Here
    <2>4. QED
      BY <1>1, <1>6, <1>8, <2>1, <2>3 DEF SaveGood
  <1>9. CASE x = n /\ "elsewhere" \notin why'
    <2>1. r \in H!Here /\ r.kind = "save" /\ SaveGood(r) /\ "elsewhere" \notin why
      BY <1>1, <1>3, <1>5, <1>9 DEF H!Here, SavesGood
    <2>2. StepsOrdered(r)
      BY StepsLeft DEF PhotoTyped, PhotoRequest
    <2>3. CASE Ending(r, n)
      <3>1. n.got = None /\ n.todo = Nothing /\ ~ H!Due(n, "commit")
        BY <2>1, <2>3, EndsGood DEF Ending, Ends, H!Gets
      <3>2. QED
        BY <1>6, <1>9, <3>1 DEF SaveGood, Nothing
    <2>4. ASSUME NEW this, Taking(r, n, this) PROVE SaveGood(n)'
      <3>1. /\ \A s : H!Due(n, s) <=> H!Due(r, s) /\ s # this
            /\ H!Due(r, this)
            /\ this \in {"readBack", "purge"} => ~ H!Due(r, "commit")
            /\ this # "authenticate" => ~ H!Due(r, "authenticate")
        BY <2>4, TakesGood DEF Taking
      <3>2. /\ n.loaded = IF this = "authenticate" THEN account ELSE r.loaded
            /\ n.got = IF this = "look" THEN r.loaded ELSE IF this = "readBack" THEN account ELSE r.got
        BY <2>4 DEF Taking, Takes
      <3>3. this # "look" /\ r.todo # Nothing
        BY <2>1, <2>2, <3>1 DEF StepsOrdered, H!Gets
      <3>4. this = "commit" => account'.phone = r.phone \/ r.phone = "none"
        <4>1. this = "commit" => H!Commit(r) /\ r.loaded.phone = account.phone
          BY <2>1, <2>4, <3>1 DEF Taking, SaveGood
        <4>2. QED
          BY <2>1, <4>1, Committing
      <3>5. this # "commit" => account' = account
        BY <2>4 DEF Taking
      <3>6. ~ H!Due(n, "authenticate") /\ H!Due(n, "commit") => n.loaded.phone = account'.phone
        BY <2>1, <3>1, <3>2, <3>5 DEF SaveGood
      <3>7. ~ H!Due(n, "commit") => account'.phone = n.phone \/ n.phone = "none"
        BY <1>3, <2>1, <3>1, <3>3, <3>4, <3>5 DEF SaveGood, Nothing
      <3>8. n.got # None => n.got.phone = n.phone \/ n.phone = "none"
        BY <1>3, <2>1, <3>1, <3>2, <3>3, <3>7 DEF SaveGood, Nothing
      <3>9. QED
        BY <1>6, <1>9, <3>6, <3>7, <3>8 DEF SaveGood
    <2>5. QED
      BY <1>2, <1>9, <2>3, <2>4
  <1>10. QED
    BY <1>7, <1>8, <1>9

SaveKept ==
    saving /\ ~ saving' =>
        \A r \in H!Moved : r.got = None \/ person'.phone = r.phone \/ r.phone = "none" \/ "elsewhere" \in why
LEMMA SavesStep ==
    ASSUME PhotoTyped, SavesGood, PhotoMoves
    PROVE  SavesGood' /\ SaveKept
  <1>1. why \subseteq why'
    BY WhyGrows
  <1>2. ASSUME NEW n, ~ (n.here /\ n.kind = "save"), served' \subseteq served \cup {n},
               account' = account, saving' = saving
        PROVE  SavesGood' /\ SaveKept
    <2>1. \A r \in served' : r.here /\ r.kind = "save" => r \in served
      BY <1>2
    <2>2. QED
      BY <1>1, <1>2, <2>1, SavesKept DEF SaveKept
  <1>3. ASSUME NEW phone \in H!Typed, H!Save(phone) PROVE SavesGood' /\ SaveKept
    BY <1>3, SavesSaved DEF H!Save, SaveKept
  <1>4. CASE H!Upload
    <2>1. PICK n : n = H!Request("upload", TRUE, "none")
      OBVIOUS
    <2>2. n.kind # "save"
      BY <2>1 DEF H!Request
    <2>3. served' \subseteq served \cup {n} /\ account' = account /\ saving' = saving
      BY <1>4, <2>1 DEF H!Upload, H!Sent, H!serverVars
    <2>4. QED
      BY <1>2, <2>2, <2>3
  <1>5. CASE H!Remove
    <2>1. PICK n : n = H!Request("remove", TRUE, "none")
      OBVIOUS
    <2>2. n.kind # "save"
      BY <2>1 DEF H!Request
    <2>3. served' \subseteq served \cup {n} /\ account' = account /\ saving' = saving
      BY <1>5, <2>1 DEF H!Remove, H!Sent, H!serverVars
    <2>4. QED
      BY <1>2, <2>2, <2>3
  <1>6. ASSUME NEW kind, NEW phone, H!Elsewhere(kind, phone) PROVE SavesGood' /\ SaveKept
    <2>1. PICK n : n = H!Request(kind, FALSE, phone)
      OBVIOUS
    <2>2. ~ n.here
      BY <2>1 DEF H!Request
    <2>3. served' \subseteq served \cup {n} /\ account' = account /\ saving' = saving
      BY <1>6, <2>1 DEF H!Elsewhere, H!Sent, H!serverVars, H!pageVars
    <2>4. QED
      BY <1>2, <2>2, <2>3
  <1>7. CASE H!Expire
    BY <1>1, <1>7, SavesKept DEF H!Expire, H!pageVars, SaveKept
  <1>8. ASSUME NEW r \in served, H!LoadArrives(r) \/ H!RefreshArrives(r) PROVE SavesGood' /\ SaveKept
    BY <1>1, <1>8, SavesKept DEF H!LoadArrives, H!RefreshArrives, H!Finish, H!serverVars, SaveKept
  <1>9. ASSUME NEW r \in served, H!PhotoArrives(r) PROVE SavesGood' /\ SaveKept
    <2>1. PICK n : n = H!Request("photoRefresh", TRUE, "none")
      OBVIOUS
    <2>2. n.kind # "save"
      BY <2>1 DEF H!Request
    <2>3. saving' = saving /\ account' = account
      BY <1>9 DEF H!PhotoArrives, H!serverVars
    <2>4. served' \subseteq served \cup {n}
      BY <1>9, <2>1 DEF H!PhotoArrives, H!Finish, H!RefreshProfile
    <2>5. QED
      BY <1>2, <2>2, <2>3, <2>4
  <1>10. ASSUME NEW r \in served, H!SaveArrives(r) PROVE SavesGood' /\ SaveKept
    <2>1. r \in H!Here /\ r.kind = "save" /\ SaveGood(r)
      BY <1>10 DEF H!SaveArrives, H!Answered, H!Here, SavesGood
    <2>2. served' \subseteq (served \ {r}) \cup {H!Request("refresh", TRUE, "none")}
          /\ served \ {r} \subseteq served'
      BY <1>10 DEF H!SaveArrives, H!Finish, H!RefreshProfile
    <2>3. \A q \in H!Here' : q.kind # "save"
      BY <2>1, <2>2 DEF H!Here, SaveGood, H!Request
    <2>4. H!Moved \subseteq {r}
      BY <2>2 DEF H!Moved
    <2>5. r.got = None \/ person' = r.got
      BY <1>10 DEF H!SaveArrives
    <2>6. QED
      BY <2>1, <2>3, <2>4, <2>5 DEF SavesGood, SaveKept, SaveGood
  <1>11. ASSUME NEW r \in served, Serves(r) PROVE SavesGood' /\ SaveKept
    BY <1>11, SavesServed, ServesAs DEF SaveKept
  <1>12. QED
    BY <1>3, <1>4, <1>5, <1>6, <1>7, <1>8, <1>9, <1>10, <1>11 DEF PhotoMoves, Edits, H!ProfileNext, Serves

(* What is done to a request of the page that is alone, or elsewhere while *)
(* nothing changes.                                                        *)
LEMMA UnmovedServed ==
    ASSUME PhotoTyped, Unmoved, NEW r \in served, Serves(r), account' = account
    PROVE  Unmoved'
  <1>1. (\E n : Ending(r, n)) \/ \E n, this : Taking(r, n, this)
    BY ServesAs
  <1>2. PICK n : Ending(r, n) \/ \E this : Taking(r, n, this)
    BY <1>1
  <1>3. served' \subseteq (served \ {r}) \cup {n} /\ n.kind = r.kind
    BY <1>2 DEF Ending, Taking, Takes, Ends, Same, H!Handle
  <1>4. (Working(n) => n.loaded = account) /\ n.got \in {None, account}
    <2>1. CASE Ending(r, n)
      <3>1. n.todo = <<>>
        BY <2>1 DEF Ending, Ends, Nothing
      <3>2. n.got \in {None, account}
        BY <2>1 DEF Ending, Unmoved
      <3>3. QED
        BY <3>1, <3>2 DEF Working
    <2>2. ASSUME NEW this, Taking(r, n, this)
          PROVE  (Working(n) => n.loaded = account) /\ n.got \in {None, account}
      <3>1. /\ \A s : H!Due(n, s) <=> H!Due(r, s) /\ s # this
            /\ H!Due(r, this)
            /\ this # "authenticate" => ~ H!Due(r, "authenticate")
        BY <2>2, TakesGood DEF Taking
      <3>2. /\ n.loaded = IF this = "authenticate" THEN account ELSE r.loaded
            /\ n.got = IF this = "look" THEN r.loaded ELSE IF this = "readBack" THEN account ELSE r.got
        BY <2>2 DEF Taking, Takes
      <3>3. r.todo # <<>>
        BY <3>1, Lists DEF Nothing
      <3>4. this = "look" => r.kind \in H!Gets
        BY <3>1, StepsLeft DEF PhotoTyped, PhotoRequest, StepsOrdered
      <3>5. Working(n) /\ this # "authenticate" => Working(r)
        BY <1>3, <3>1, <3>3 DEF Working
      <3>6. this = "look" => Working(r)
        BY <3>1, <3>3, <3>4 DEF Working
      <3>7. QED
        BY <3>2, <3>5, <3>6 DEF Unmoved
    <2>3. QED
      BY <1>2, <2>1, <2>2
  <1>5. cachedProfile' \in {None, cachedProfile, r.got}
    BY DEF Serves, H!Authenticate, H!Look, H!Fill, H!Put, H!Delete, H!Commit, H!ReadBack, H!Purge, H!Fail,
           H!serverVars
  <1>6. QED
    BY <1>3, <1>4, <1>5 DEF Unmoved

LEMMA AloneServed ==
    ASSUME PhotoTyped, ProfileCached, CleanGood, Clean, NEW r \in H!Here, Serves(r), Clean'
    PROVE  \E n : /\ H!Here' = {n} /\ n.kind = r.kind /\ AloneGood(n)'
                  /\ Changing(r) => Changing(n)
                  /\ account'.photo = account.photo \/ Changing(n)
  <1>1. /\ r \in served /\ r.here /\ r.kind \in Kinds /\ TodoGood(r) /\ AloneGood(r)
        /\ r.kind = "load" => Unmoved
    BY DEF H!Here, PhotoTyped, PhotoRequest, CleanGood
  <1>2. StepsOrdered(r)
    BY <1>1, StepsLeft
  <1>3. why \subseteq why' /\ ((\E n : Ending(r, n)) \/ \E n, this : Taking(r, n, this))
    BY <1>1, ServesAs
  <1>4. PICK n : Ending(r, n) \/ \E this : Taking(r, n, this)
    BY <1>3
  <1>5. H!Here' = {n} /\ n.kind = r.kind
    <2>1. n.kind = r.kind /\ n.here = r.here /\ H!Handle(r, n)
      BY <1>4 DEF Ending, Taking, Takes, Ends, Same
    <2>2. served' = (served \ {r}) \cup {n}
      BY <1>1, <2>1 DEF H!Handle
    <2>3. H!Here = {r}
      BY <1>1 DEF AloneGood
    <2>4. QED
      BY <1>1, <2>1, <2>2, <2>3 DEF H!Here
  <1>6. CASE Ending(r, n)
    <2>1. account' = account /\ n.todo = <<>> /\ \A s : ~ H!Due(n, s)
      BY <1>1, <1>6, EndsGood DEF Ending, Ends, Nothing
    <2>2. ~ Changing(r)
      <3>1. H!Fail(r) => ~ H!Committed(r)
        BY DEF H!Fail, Clean
      <3>2. QED
        BY <1>1, <1>6, <3>1 DEF Ending, Changing, AloneGood, H!Committed, H!Gets
    <2>3. n.got # None => n.got = account \/ (r.kind \in {"refresh", "photoRefresh"} /\ Astray)
      <3>1. CASE r.kind \in H!Gets /\ n.got = cachedProfile /\ n.got # None
        <4>1. \A q \in served : ~ (OnWay(q) /\ (q.here \/ "elsewhere" \in why))
          BY <1>1, <3>1 DEF OnWay, H!Committed, Clean, AloneGood, H!Here
        <4>2. n.got = account \/ Astray
          BY <3>1, <4>1 DEF ProfileCached, Clean
        <4>3. r.kind = "load" => n.got = account
          BY <1>1, <3>1 DEF Unmoved
        <4>4. QED
          BY <3>1, <4>2, <4>3 DEF H!Gets
      <3>2. QED
        BY <1>1, <1>6, <3>1 DEF Ending, AloneGood
    <2>4. n.kind = "remove" => ~ Changing(n)
      BY <1>1, <1>5, <1>6, <2>1 DEF Ending, Changing, H!Gets
    <2>5. Astray => Astray'
      BY <1>3 DEF Astray
    <2>6. AloneGood(n)'
      BY <1>1, <1>5, <2>1, <2>3, <2>4, <2>5 DEF AloneGood, Working
    <2>7. QED
      BY <1>5, <2>1, <2>2, <2>6
  <1>7. ASSUME NEW this, Taking(r, n, this)
        PROVE  /\ AloneGood(n)' /\ (Changing(r) => Changing(n))
               /\ account'.photo = account.photo \/ Changing(n)
    <2>1. /\ \A s : H!Due(n, s) <=> H!Due(r, s) /\ s # this
          /\ H!Due(r, this)
          /\ this # "authenticate" => ~ H!Due(r, "authenticate")
          /\ this \in {"readBack", "purge"} => ~ H!Due(r, "commit")
          /\ TodoGood(n)
      BY <1>1, <1>7, TakesGood DEF Taking
    <2>2. /\ n.loaded = IF this = "authenticate" THEN account ELSE r.loaded
          /\ n.got = IF this = "look" THEN r.loaded ELSE IF this = "readBack" THEN account ELSE r.got
      BY <1>7 DEF Taking, Takes
    <2>3. r.todo # <<>> /\ (this = "look" => r.kind \in H!Gets)
      BY <1>2, <2>1 DEF StepsOrdered, Nothing
    <2>4. IF this = "commit" THEN H!Commit(r) ELSE account' = account
      BY <1>7 DEF Taking
    <2>5. this = "commit" => r.kind \notin H!Gets /\ r.loaded = account
      BY <1>1, <2>1, <2>3, <2>4, Committing DEF AloneGood, Working
    <2>6. Working(n) => n.loaded = account'
      <3>1. Working(n) => this # "commit"
        BY <1>5, <2>1, <2>5 DEF Working
      <3>2. Working(n) /\ this # "authenticate" => Working(r)
        BY <1>5, <2>1, <2>3 DEF Working
      <3>3. QED
        BY <1>1, <2>2, <2>4, <3>1, <3>2 DEF AloneGood
    <2>7. n.got # None => n.got = account' \/ (r.kind \in {"refresh", "photoRefresh"} /\ Astray')
      <3>1. this = "look" => Working(r)
        BY <2>1, <2>3 DEF Working
      <3>2. this = "commit" => r.got = None
        BY <1>1, <2>1 DEF AloneGood
      <3>3. Astray => Astray'
        BY <1>3 DEF Astray
      <3>4. QED
        BY <1>1, <2>2, <2>4, <3>1, <3>2, <3>3 DEF AloneGood
    <2>8. account # None
      BY Photos DEF PhotoTyped
    <2>9. (H!Due(n, "commit") => n.got = None)
          /\ (n.kind \notin H!Gets /\ n.todo # <<>> /\ ~ H!Due(n, "readBack") => n.got # None)
      <3>1. this = "look" => ~ H!Due(r, "commit")
        BY <1>2, <2>3 DEF StepsOrdered
      <3>2. QED
        BY <1>1, <1>5, <2>1, <2>2, <2>3, <2>8, <3>1 DEF AloneGood
    <2>10. n.kind \in {"upload", "remove"} /\ ~ H!Due(n, "commit") => Changing(n)
      <3>1. SUFFICES ASSUME n.kind \in {"upload", "remove"}, ~ H!Due(n, "commit"), n.todo = <<>>
            PROVE n.got # None
        BY DEF Changing
      <3>2. \A s : H!Due(r, s) => s = this
        BY <2>1, <3>1, Lists DEF Nothing
      <3>3. this = "purge"
        BY <1>2, <1>5, <2>3, <3>1, <3>2 DEF StepsOrdered, H!Gets, Nothing
      <3>4. QED
        BY <1>1, <1>5, <2>2, <2>3, <3>1, <3>2, <3>3 DEF AloneGood, H!Gets
    <2>11. n.kind = "remove" /\ Changing(n) => account'.photo = None
      <3>1. this = "commit" /\ r.kind = "remove" => account'.photo = None
        BY <1>1, <2>4, <2>5, Committing
      <3>2. Changing(n) /\ this # "commit" => Changing(r)
        BY <1>5, <2>1, <2>3 DEF Changing
      <3>3. QED
        BY <1>1, <1>5, <2>4, <3>1, <3>2 DEF AloneGood
    <2>12. Changing(r) => Changing(n)
      BY <1>5, <2>1, <2>10 DEF Changing
    <2>13. account'.photo = account.photo \/ Changing(n)
      <3>1. this = "commit" /\ r.kind = "save" => account'.photo = account.photo
        BY <1>1, <2>4, Committing
      <3>2. this = "commit" => r.kind \in {"save", "upload", "remove"}
        BY <1>1, <2>5 DEF AloneGood, Kinds
      <3>3. QED
        BY <1>5, <2>1, <2>4, <2>10, <3>1, <3>2
    <2>14. AloneGood(n)'
      BY <1>1, <1>5, <2>6, <2>7, <2>9, <2>11 DEF AloneGood
    <2>15. QED
      BY <2>12, <2>13, <2>14
  <1>8. QED
    BY <1>4, <1>5, <1>6, <1>7

LEMMA CleanServed ==
    ASSUME PhotoTyped, ProfileCached, CleanGood, Clean, NEW r \in served, Serves(r), Clean'
    PROVE  CleanGood'
  <1>1. /\ UNCHANGED <<person, header>> /\ why \subseteq why'
        /\ ~ r.here => account' = account
    BY ServesAs DEF Clean
  <1>2. Astray => Astray'
    BY <1>1 DEF Astray
  <1>3. CASE r.here
    <2>1. r \in H!Here
      BY <1>3 DEF H!Here
    <2>2. PICK n : /\ H!Here' = {n} /\ n.kind = r.kind /\ AloneGood(n)'
                   /\ Changing(r) => Changing(n)
                   /\ account'.photo = account.photo \/ Changing(n)
      BY <2>1, AloneServed
    <2>3. H!Here = {r}
      BY <2>1 DEF CleanGood, AloneGood
    <2>4. r.kind = "load" => Unmoved'
      <3>1. r.kind = "load" => account' = account
        BY ServesAs, Committing DEF Ending, Taking, H!Gets
      <3>2. QED
        BY <2>1, <3>1, UnmovedServed DEF CleanGood
    <2>5. QED
      BY <1>1, <1>2, <2>2, <2>3, <2>4 DEF CleanGood
  <1>4. CASE ~ r.here
    <2>1. account' = account
      BY <1>1, <1>4
    <2>2. \E n : n.here = r.here /\ H!Handle(r, n)
      BY ServesAs DEF Ending, Taking, Takes, Ends, Same
    <2>3. H!Here' = H!Here
      BY <1>4, <2>2 DEF H!Handle, H!Here
    <2>4. Unmoved => Unmoved'
      BY <2>1, UnmovedServed
    <2>5. \A q : AloneGood(q) => AloneGood(q)'
      BY <1>2, <2>1, <2>3 DEF AloneGood
    <2>6. QED
      BY <1>1, <1>2, <2>1, <2>3, <2>4, <2>5 DEF CleanGood
  <1>5. QED
    BY <1>3, <1>4

(* A new request of the page, when there is no other. *)
LEMMA CleanNew ==
    ASSUME PhotoTyped, NEW kind \in Kinds \ {"load", "google"}, NEW here \in BOOLEAN, NEW phone,
           NEW n, n = H!Request(kind, here, phone), H!Here' = {n}, person'.photo = account'.photo,
           \/ header' = account'.photo \/ Astray' \/ kind = "photoRefresh"
    PROVE  CleanGood'
  <1>1. /\ n.kind = kind /\ n.got = None /\ H!Due(n, "authenticate") /\ n.todo # <<>>
        /\ kind \notin H!Gets => H!Due(n, "commit")
    BY Fresh DEF Nothing
  <1>2. TodoGood(n)
    <2>1. n.todo = H!Steps(kind)
      BY DEF H!Request
    <2>2. QED
      BY <1>1, <2>1, Photos DEF TodoGood, Kinds, H!Gets
  <1>3. StepsOrdered(n)
    BY <1>1, <1>2, StepsLeft
  <1>4. (H!Due(n, "commit") => n.kind \notin H!Gets)
        /\ (n.kind \notin H!Gets => H!Due(n, "readBack"))
    <2>1. n.kind \in H!Gets => ~ H!Due(n, "commit")
      BY <1>3 DEF StepsOrdered
    <2>2. n.kind \notin H!Gets => n.kind \in {"save", "remove", "upload"}
      BY <1>1 DEF Kinds
    <2>3. n.kind \notin H!Gets => H!Due(n, "readBack")
      BY <1>1, <1>3, <2>2 DEF StepsOrdered
    <2>4. QED
      BY <2>1, <2>3
  <1>5. ~ Working(n) /\ ~ Changing(n)
    BY <1>1, <1>4 DEF Working, Changing, H!Gets
  <1>6. AloneGood(n)'
    BY <1>1, <1>4, <1>5 DEF AloneGood
  <1>7. QED
    BY <1>1, <1>6 DEF CleanGood

(* Once the only request of the page is answered, or while there is none. *)
LEMMA CleanRest ==
    ASSUME H!Here' = {}, person'.photo = account'.photo, header' = account'.photo \/ Astray'
    PROVE  CleanGood'
  BY DEF CleanGood

LEMMA PersonStep ==
    ASSUME PhotoTyped, PersonTyped, PhotoMoves
    PROVE  PersonTyped'
  <1>1. person' = person \/ \E r \in served : H!LoadArrives(r) \/ H!SaveArrives(r) \/ H!PhotoArrives(r)
    BY DEF PhotoMoves, Edits, H!ProfileNext, H!Save, H!Upload, H!Remove, H!Expire, H!Elsewhere, H!RefreshArrives, H!Authenticate,
           H!Look, H!Fill, H!Put, H!Delete, H!Commit, H!ReadBack, H!Purge, H!Fail, H!pageVars
  <1>2. ASSUME NEW r \in served, H!LoadArrives(r) \/ H!SaveArrives(r) \/ H!PhotoArrives(r) PROVE PersonTyped'
    <2>1. r.got = None \/ r.got \in Row
      BY DEF PhotoTyped, PhotoRequest
    <2>2. CASE person' \in {person, r.got} /\ (r.got = None => person' = person)
      BY <2>1, <2>2 DEF PersonTyped
    <2>3. CASE r.got # None
               /\ person' = [person EXCEPT !.photo = IF r.kind = "upload" THEN r.got.photo ELSE None]
      BY <2>1, <2>3 DEF PersonTyped, Row
    <2>4. QED
      BY <1>2, <2>2, <2>3 DEF H!LoadArrives, H!SaveArrives, H!PhotoArrives
  <1>3. QED
    BY <1>1, <1>2 DEF PersonTyped

LEMMA CleanStep ==
    ASSUME PhotoTyped, PersonTyped, ProfileCached, CleanGood, PhotoMoves
    PROVE  CleanGood'
  <1>1. why \subseteq why' /\ (Astray => Astray') /\ (Clean' => Clean)
    BY WhyGrows DEF Astray, Clean
  <1>2. SUFFICES ASSUME Clean' PROVE CleanGood'
    BY DEF CleanGood
  <1>3. Clean
    BY <1>1, <1>2
  <1>4. ASSUME NEW phone \in H!Typed, H!Save(phone) PROVE CleanGood'
    <2>0. PICK here \in BOOLEAN : here = TRUE
      OBVIOUS
    <2>1. PICK n : n = H!Request("save", here, phone)
      OBVIOUS
    <2>2. H!Here = {} /\ n.here
      BY <1>2, <1>4, <2>0, <2>1 DEF H!Save, H!Crossing, Clean, H!Request
    <2>3. UNCHANGED <<account, person, header>> /\ served' = served \cup {n}
      BY <1>4, <2>0, <2>1 DEF H!Save, H!Sent, H!serverVars
    <2>4. H!Here' = {n}
      BY <2>2, <2>3 DEF H!Here
    <2>5. QED
      BY <1>1, <1>3, <2>1, <2>2, <2>3, <2>4, CleanNew DEF CleanGood, Kinds
  <1>5. CASE H!Upload
    <2>0. PICK here \in BOOLEAN : here = TRUE
      OBVIOUS
    <2>1. PICK n : n = H!Request("upload", here, "none")
      OBVIOUS
    <2>2. H!Here = {} /\ n.here
      BY <1>2, <1>5, <2>0, <2>1 DEF H!Upload, H!Crossing, Clean, H!Request
    <2>3. UNCHANGED <<account, person, header>> /\ served' = served \cup {n}
      BY <1>5, <2>0, <2>1 DEF H!Upload, H!Sent, H!serverVars
    <2>4. H!Here' = {n}
      BY <2>2, <2>3 DEF H!Here
    <2>5. QED
      BY <1>1, <1>3, <2>1, <2>2, <2>3, <2>4, CleanNew DEF CleanGood, Kinds
  <1>6. CASE H!Remove
    <2>0. PICK here \in BOOLEAN : here = TRUE
      OBVIOUS
    <2>1. PICK n : n = H!Request("remove", here, "none")
      OBVIOUS
    <2>2. H!Here = {} /\ n.here
      BY <1>2, <1>6, <2>0, <2>1 DEF H!Remove, H!Crossing, Clean, H!Request
    <2>3. UNCHANGED <<account, person, header>> /\ served' = served \cup {n}
      BY <1>6, <2>0, <2>1 DEF H!Remove, H!Sent, H!serverVars
    <2>4. H!Here' = {n}
      BY <2>2, <2>3 DEF H!Here
    <2>5. QED
      BY <1>1, <1>3, <2>1, <2>2, <2>3, <2>4, CleanNew DEF CleanGood, Kinds
  <1>7. ASSUME NEW kind \in Kinds, NEW phone, H!Elsewhere(kind, phone) PROVE CleanGood'
    <2>0. PICK here \in BOOLEAN : here = FALSE
      OBVIOUS
    <2>1. PICK n : n = H!Request(kind, here, phone)
      OBVIOUS
    <2>2. n.here = FALSE /\ n.got = None /\ H!Due(n, "authenticate")
      BY <2>0, <2>1, Fresh
    <2>3. UNCHANGED <<account, cachedProfile, person, header>> /\ served' = served \cup {n}
      BY <1>7, <2>0, <2>1 DEF H!Elsewhere, H!Sent, H!serverVars, H!pageVars
    <2>4. H!Here' = H!Here
      BY <2>2, <2>3 DEF H!Here
    <2>5. \A q : AloneGood(q) => AloneGood(q)'
      BY <1>1, <2>3, <2>4 DEF AloneGood
    <2>6. Unmoved => Unmoved'
      BY <2>2, <2>3 DEF Unmoved, Working
    <2>7. QED
      BY <1>1, <1>3, <2>3, <2>4, <2>5, <2>6 DEF CleanGood
  <1>8. CASE H!Expire
    BY <1>1, <1>3, <1>8 DEF H!Expire, H!pageVars, CleanGood, AloneGood, Unmoved, H!Here
  <1>9. ASSUME NEW r \in served, H!Answered(r)
        PROVE  /\ H!Here = {r} /\ AloneGood(r) /\ r.here /\ r.todo = <<>>
               /\ r.got = None => ~ Changing(r)
               /\ ~ Changing(r) => person.photo = account.photo
               /\ ~ Changing(r) /\ r.kind # "photoRefresh" => header = account.photo \/ Astray
    <2>1. r \in H!Here /\ r.here /\ r.todo = <<>>
      BY <1>9 DEF H!Answered, H!Here
    <2>2. H!Here = {r} /\ AloneGood(r)
      BY <1>3, <2>1 DEF CleanGood, AloneGood
    <2>3. QED
      BY <1>3, <2>1, <2>2 DEF CleanGood, Changing
  <1>10. ASSUME NEW r \in served, H!LoadArrives(r) PROVE CleanGood'
    <2>1. H!Answered(r) /\ r.kind = "load" /\ UNCHANGED <<account, header, why>> /\ served' = served \ {r}
      BY <1>10 DEF H!LoadArrives, H!Finish, H!serverVars
    <2>2. ~ Changing(r) /\ H!Here = {r}
      BY <1>9, <2>1 DEF Changing
    <2>3. H!Here' = {}
      BY <2>1, <2>2 DEF H!Here
    <2>4. person'.photo = account.photo
      BY <1>9, <1>10, <2>1, <2>2 DEF H!LoadArrives, AloneGood
    <2>5. QED
      BY <1>1, <1>9, <2>1, <2>2, <2>3, <2>4, CleanRest
  <1>11. ASSUME NEW r \in served, H!SaveArrives(r) PROVE CleanGood'
    <2>1. H!Answered(r) /\ r.kind = "save" /\ UNCHANGED <<account, header>>
      BY <1>11 DEF H!SaveArrives, H!serverVars
    <2>2. ~ Changing(r) /\ H!Here = {r}
      BY <1>9, <2>1 DEF Changing
    <2>3. CASE r.got = None
      <3>1. served' = served \ {r} /\ person' = person
        BY <1>11, <2>3 DEF H!SaveArrives, H!Finish
      <3>2. H!Here' = {}
        BY <2>2, <3>1 DEF H!Here
      <3>3. QED
        BY <1>1, <1>9, <2>1, <2>2, <3>1, <3>2, CleanRest
    <2>4. CASE r.got # None
      <3>0. PICK here \in BOOLEAN : here = TRUE
        OBVIOUS
      <3>1. PICK n : n = H!Request("refresh", here, "none")
        OBVIOUS
      <3>2. n.here
        BY <3>0, <3>1 DEF H!Request
      <3>3. person' = r.got /\ served' = (served \ {r}) \cup {n}
        BY <1>3, <1>11, <2>4, <3>0, <3>1 DEF H!SaveArrives, H!Finish, H!RefreshProfile, Clean
      <3>4. H!Here' = {n}
        BY <2>2, <3>2, <3>3 DEF H!Here
      <3>5. r.got = account
        BY <1>9, <2>1, <2>4 DEF AloneGood
      <3>6. "refresh" \in Kinds \ {"load", "google"}
        BY DEF Kinds, H!Gets
      <3>7. QED
        BY <1>1, <1>9, <2>1, <2>2, <3>1, <3>3, <3>4, <3>5, <3>6, CleanNew
    <2>5. QED
      BY <2>3, <2>4
  <1>12. ASSUME NEW r \in served, H!PhotoArrives(r) PROVE CleanGood'
    <2>1. H!Answered(r) /\ r.kind \in {"upload", "remove"} /\ UNCHANGED <<account, header>>
      BY <1>12 DEF H!PhotoArrives, H!serverVars
    <2>2. H!Here = {r}
      BY <1>9, <2>1
    <2>3. CASE r.got = None
      <3>1. served' = served \ {r} /\ person' = person
        BY <1>12, <2>3 DEF H!PhotoArrives, H!Finish
      <3>2. H!Here' = {}
        BY <2>2, <3>1 DEF H!Here
      <3>3. QED
        BY <1>1, <1>9, <2>1, <2>3, <3>1, <3>2, CleanRest
    <2>4. CASE r.got # None
      <3>0. PICK here \in BOOLEAN : here = TRUE
        OBVIOUS
      <3>1. PICK n : n = H!Request("photoRefresh", here, "none")
        OBVIOUS
      <3>2. n.here
        BY <3>0, <3>1 DEF H!Request
      <3>3. served' = (served \ {r}) \cup {n}
        BY <1>12, <2>4, <3>0, <3>1 DEF H!PhotoArrives, H!Finish, H!RefreshProfile
      <3>4. H!Here' = {n}
        BY <2>2, <3>2, <3>3 DEF H!Here
      <3>5. r.got = account /\ (r.kind = "remove" => account.photo = None)
        <4>1. r.todo = <<>> /\ AloneGood(r)
          BY <1>9, <2>1
        <4>2. ~ H!Due(r, "commit")
          BY <2>4, <4>1 DEF AloneGood
        <4>3. QED
          BY <2>1, <2>4, <4>1, <4>2 DEF AloneGood, Changing
      <3>6. "photoRefresh" \in Kinds \ {"load", "google"}
        BY DEF Kinds, H!Gets
      <3>7. person'.photo = account.photo
        BY <1>12, <2>1, <2>4, <3>5 DEF H!PhotoArrives, PersonTyped, Row
      <3>8. QED
        BY <2>1, <3>1, <3>4, <3>6, <3>7, CleanNew
    <2>5. QED
      BY <2>3, <2>4
  <1>13. ASSUME NEW r \in served, H!RefreshArrives(r) PROVE CleanGood'
    <2>1. H!Answered(r) /\ r.kind \in {"refresh", "photoRefresh"} /\ UNCHANGED <<account, person>>
          /\ served' = served \ {r}
      BY <1>13 DEF H!RefreshArrives, H!Finish, H!serverVars
    <2>2. ~ Changing(r) /\ H!Here = {r}
      BY <1>9, <2>1 DEF Changing
    <2>3. H!Here' = {}
      BY <2>1, <2>2 DEF H!Here
    <2>4. r.got # None /\ header' = r.got.photo
      BY <1>2, <1>13 DEF H!RefreshArrives, Clean
    <2>5. header' = account.photo \/ Astray'
      BY <1>1, <1>9, <2>1, <2>4 DEF AloneGood
    <2>6. QED
      BY <1>9, <2>1, <2>2, <2>3, <2>5, CleanRest
  <1>14. ASSUME NEW r \in served, Serves(r) PROVE CleanGood'
    BY <1>2, <1>3, <1>14, CleanServed
  <1>15. {"load", "upload", "remove", "google", "save"} \subseteq Kinds
    BY DEF Kinds, H!Gets
  <1>16. QED
    BY <1>4, <1>5, <1>6, <1>7, <1>8, <1>10, <1>11, <1>12, <1>13, <1>14, <1>15 DEF PhotoMoves, Edits, H!ProfileNext, Serves

(* Where the profile starts, and while another page is mounted. *)
LEMMA PhotoStart ==
    ASSUME Init
    PROVE  PhotoInv
  <1>0. PICK here \in BOOLEAN : here = TRUE
    OBVIOUS
  <1>1. PICK n : n = [H!Request("load", here, "none") EXCEPT !.no = 2]
    OBVIOUS
  <1>2. H!ProfileInit /\ (mounted = "profile" => account.photo = IF desk THEN None ELSE 1)
        /\ (desk => mounted = "profile")
    BY DEF Init
  <1>3. sends = 1 /\ served = {n} /\ account \in [photo : {None, 1}, phone : {"one"}] /\ cachedProfile = None
        /\ files = (IF account.photo = 1 THEN {1} ELSE {}) /\ header = account.photo
        /\ person = (IF desk THEN H!Blank ELSE account)
    BY <1>0, <1>1, <1>2 DEF H!ProfileInit
  <1>4. /\ n = [no |-> 2, kind |-> "load", here |-> here, phone |-> "none", todo |-> H!Steps("load"),
                loaded |-> H!Blank, got |-> None, kept |-> FALSE]
    BY <1>1 DEF H!Request
  <1>5. n.todo = OfGet /\ "load" \in H!Gets
    BY <1>4, Photos DEF H!Gets
  <1>6. /\ H!Due(n, "authenticate") /\ n.todo # <<>>
        /\ \A s : H!Due(n, s) <=> s \in {"authenticate", "look", "fill"}
    BY <1>5, Lists DEF List, Nothing
  <1>7. PhotoTyped
    <2>1. PhotoRequest(n)
      BY <1>4 DEF PhotoRequest, Kinds, H!Gets, H!Typed, Row, H!Blank
    <2>2. TodoGood(n)
      BY <1>4, <1>5 DEF TodoGood, H!Gets
    <2>3. Named(account.photo) /\ account \in Row /\ files \subseteq 1..(sends + 1)
      BY <1>3 DEF Named, Row
    <2>4. n.no = 2 /\ Named(n.loaded.photo)
      BY <1>4 DEF Named, H!Blank
    <2>5. QED
      BY <1>3, <2>1, <2>2, <2>3, <2>4 DEF PhotoTyped
  <1>8. FilesGood /\ MissingGood
    BY <1>3, <1>4, <1>6 DEF FilesGood, MissingGood, H!Orphaning, H!Missing, H!InStorage
  <1>9. ProfileCached /\ SavesGood
    BY <1>3, <1>4 DEF ProfileCached, SavesGood, H!Here
  <1>10. CleanGood
    <2>1. ~ Working(n) /\ ~ H!Due(n, "commit") /\ n.kind = "load" /\ n.got = None /\ n.here
      <3>1. n.kind = "load" /\ n.got = None /\ n.here = here
        BY <1>4
      <3>2. ~ Working(n)
        BY <1>6 DEF Working
      <3>3. ~ H!Due(n, "commit")
        BY <1>6
      <3>4. n.here
        BY <1>0, <3>1
      <3>5. QED
        BY <3>1, <3>2, <3>3, <3>4
    <2>2. H!Here = {n}
      BY <1>3, <2>1 DEF H!Here
    <2>3. AloneGood(n) /\ Unmoved
      BY <1>3, <1>5, <2>1, <2>2 DEF AloneGood, Unmoved, Changing
    <2>4. QED
      BY <1>3, <2>1, <2>2, <2>3 DEF CleanGood, Clean
  <1>11. PersonTyped
    BY <1>3 DEF PersonTyped, Row, H!Blank
  <1>12. QED
    BY <1>7, <1>8, <1>9, <1>10, <1>11 DEF PhotoInv

(* ProfileExplained, of one step. *)
PhotoAction ==
    /\ H!Missing' => \/ account'.photo \in halfway'
                     \/ \E r \in served' : H!Orphaning(r) /\ r.loaded.photo = account'.photo
    /\ Strayed
    /\ cachedProfile' # None /\ cachedProfile' # account' =>
         \/ why' \cap {"lateFill", "unpurged"} # {}
         \/ \E r \in served' : H!Committed(r) /\ H!Due(r, "purge")
         \/ "edited" \in why' /\ cachedProfile'.photo = account'.photo
    /\ ~ desk' /\ served' = {} /\ why' \cap {"crossed", "elsewhere", "noAnswer"} = {} =>
         /\ person'.photo = account'.photo
         /\ header' # account'.photo => why' \cap {"lateFill", "unpurged"} # {}
    /\ SaveKept

LEMMA PhotoRests ==
    ASSUME PhotoInv, UNCHANGED photoVars
    PROVE  PhotoInv'
  BY DEF PhotoInv, photoVars, PhotoTyped, PersonTyped, Named, FilesGood, MissingGood, H!Missing,
         ProfileCached, Astray,
         SavesGood, SaveGood, H!Here, CleanGood, Clean, AloneGood, Unmoved

LEMMA PhotoExplained ==
    ASSUME PhotoInv', Strayed, SaveKept
    PROVE  PhotoAction
  <1>1. H!Missing' => \/ account'.photo \in halfway'
                      \/ \E r \in served' : H!Orphaning(r) /\ r.loaded.photo = account'.photo
    BY DEF PhotoInv, MissingGood
  <1>2. cachedProfile' # None /\ cachedProfile' # account' =>
          \/ why' \cap {"lateFill", "unpurged"} # {}
          \/ \E r \in served' : H!Committed(r) /\ H!Due(r, "purge")
          \/ "edited" \in why' /\ cachedProfile'.photo = account'.photo
    BY DEF PhotoInv, ProfileCached, Astray, OnWay
  <1>3. ~ desk' /\ served' = {} /\ why' \cap {"crossed", "elsewhere", "noAnswer"} = {} =>
          /\ person'.photo = account'.photo
          /\ header' # account'.photo => why' \cap {"lateFill", "unpurged"} # {}
    BY DEF PhotoInv, CleanGood, Clean, Astray, H!Here
  <1>4. QED
    BY <1>1, <1>2, <1>3 DEF PhotoAction

LEMMA PhotoStep ==
    ASSUME PhotoInv, PhotoMoves
    PROVE  PhotoInv' /\ PhotoAction
  <1>1. PhotoInv'
    BY PhotoTypes, PersonStep, FilesStep, CachedStep, SavesStep, CleanStep DEF PhotoInv
  <1>2. Strayed /\ SaveKept
    BY StraysStep, SavesStep DEF PhotoInv
  <1>3. QED
    BY <1>1, <1>2, PhotoExplained

(* An edit leaves the photo alone, and is elsewhere. *)
LEMMA PhotoEdited ==
    ASSUME PhotoInv, Edits
    PROVE  PhotoInv' /\ PhotoAction
  <1>1. PICK phone \in {"one", "two"} :
          /\ sends' = sends + 1 /\ account' = [account EXCEPT !.phone = phone]
          /\ why' = why \cup {"elsewhere", "edited"}
          /\ UNCHANGED <<files, cachedProfile, halfway, served, desk, person, reading, saving, uploading,
                        header>>
    BY DEF Edits, H!AdminEdits, H!pageVars
  <1>2. account' \in Row /\ account'.photo = account.photo
    BY <1>1 DEF PhotoInv, PhotoTyped, Row
  <1>3. PhotoTyped'
    <2>1. sends \in Nat
      BY DEF PhotoInv, PhotoTyped
    <2>2. /\ 0..(sends + 1) \subseteq 0..(sends' + 1) /\ 1..(sends + 1) \subseteq 1..(sends' + 1)
          /\ 2..(sends + 1) \subseteq 2..(sends' + 1) /\ sends' \in Nat
      BY <1>1, <2>1
    <2>3. \A photo : Named(photo) => Named(photo)'
      BY <2>2 DEF Named
    <2>4. QED
      BY <1>1, <1>2, <2>2, <2>3 DEF PhotoInv, PhotoTyped
  <1>4. PersonTyped' /\ FilesGood' /\ MissingGood'
    BY <1>1, <1>2 DEF PhotoInv, PersonTyped, FilesGood, MissingGood, H!Missing
  <1>5. ProfileCached'
    <2>1. Astray => Astray'
      BY <1>1 DEF Astray
    <2>2. cachedProfile = account => cachedProfile'.photo = account'.photo
      BY <1>1, <1>2
    <2>3. QED
      BY <1>1, <1>2, <2>1, <2>2 DEF PhotoInv, ProfileCached
  <1>6. SavesGood'
    BY <1>1 DEF PhotoInv, SavesGood, SaveGood, H!Here
  <1>7. CleanGood'
    BY <1>1 DEF CleanGood, Clean
  <1>8. Strayed
    BY <1>1, <1>2 DEF Strayed, H!Strays
  <1>9. SaveKept
    BY <1>1 DEF SaveKept
  <1>10. QED
    BY <1>3, <1>4, <1>5, <1>6, <1>7, <1>8, <1>9, PhotoExplained DEF PhotoInv

LEMMA PhotoNext ==
    ASSUME PhotoInv, [Next]_vars
    PROVE  PhotoInv' /\ (PhotoAction \/ UNCHANGED photoVars)
  <1>1. UNCHANGED photoVars \/ H!ProfileNext
    BY DEF Next, vars
  <1>2. QED
    BY <1>1, PhotoRests, PhotoStep, PhotoEdited DEF PhotoMoves

(* The row names a file that is gone only while, or after, a request stood  *)
(* between deleting it and committing; a file is left over only by an       *)
(* upload that died, a deletion that failed or a commit that was overtaken; *)
(* the cached profile differs from the row only until it is deleted, or     *)
(* after that failed, or after a late fill, or in its number after an       *)
(* admin's edit, which does not delete it; with everything answered and     *)
(* nothing crossed, changed elsewhere or lost, the page and the menu show   *)
(* the row's photo; and a saved number is the one shown (profile.py:100-128,*)
(* admin/users.py:97-110, ProfileManagement.jsx:155-203), for any number of *)
(* requests and edits.                                                      *)
THEOREM ProfileAlwaysExplained == Spec => ProfileExplained
  <1>1. Init => PhotoInv
    BY PhotoStart
  <1>2. PhotoInv /\ [Next]_vars => PhotoInv' /\ (PhotoAction \/ UNCHANGED photoVars)
    BY PhotoNext
  <1>3. UNCHANGED photoVars => UNCHANGED H!profileVars
    BY DEF photoVars, H!profileVars, H!serverVars, H!pageVars
  <1>4. QED
    BY <1>1, <1>2, <1>3, PTL DEF Spec, ProfileExplained, H!ProfileExplained, PhotoAction, Strayed, SaveKept

-----------------------------------------------------------------------------
(* A list of a set of numbers, or of some of them, newest first. *)
Enumerates(s, nums) ==
    /\ Cardinality(nums) \in Nat /\ s \in [1..Cardinality(nums) -> nums]
    /\ \A n \in nums : \E i \in 1..Cardinality(nums) : s[i] = n
    /\ \A i, j \in 1..Cardinality(nums) : i < j => s[i] > s[j]

LEMMA Least ==
    ASSUME NEW T \in SUBSET Nat, T # {}
    PROVE  \E m \in T : \A n \in T : m <= n
  <1>1. PICK less : less = OpToRel(<, Nat)
    OBVIOUS
  <1>2. \A m, n \in Nat : n < m => <<n, m>> \in less
    BY <1>1 DEF OpToRel
  <1>3. IsWellFoundedOn(less, Nat)
    BY <1>1, NatLessThanWellFounded
  <1>4. PICK m \in T : \A n \in T : ~ (<<n, m>> \in less)
    BY <1>3, WFMin
  <1>5. m \in Nat /\ \A n \in T : n \in Nat /\ ~ (n < m)
    BY <1>2, <1>4
  <1>6. QED
    BY <1>5

(* Every finite set of numbers can be listed so: add the largest in front. *)
LEMMA Enumerated ==
    ASSUME NEW m \in Nat, NEW nums \in SUBSET (1..m)
    PROVE  \E s : Enumerates(s, nums)
  <1> DEFINE Bad == {n \in Nat : \E set \in SUBSET (1..n) : ~ \E s : Enumerates(s, set)}
  <1>1. SUFFICES ASSUME Bad # {} PROVE FALSE
    OBVIOUS
  <1>2. PICK n \in Bad : \A k \in Bad : n <= k
    BY <1>1, Least
  <1>3. PICK set \in SUBSET (1..n) : ~ \E s : Enumerates(s, set)
    BY <1>2
  <1>4. n \in Nat /\ (n = 0 \/ n - 1 \notin Bad)
    BY <1>2
  <1>5. \A k \in Nat : k \notin Bad => \A some \in SUBSET (1..k) : \E s : Enumerates(s, some)
    OBVIOUS
  <1> HIDE DEF Bad
  <1>6. IsFiniteSet(set) /\ Cardinality(set) \in Nat
    <2>1. IsFiniteSet(1..n)
      BY <1>4, FS_Interval
    <2>2. IsFiniteSet(set)
      BY <1>3, <2>1, FS_Subset
    <2>3. QED
      BY <2>2, FS_CardinalityType
  <1>7. CASE n \notin set
    <2>1. n # 0 => set \in SUBSET (1..(n - 1)) /\ n - 1 \in Nat
      BY <1>4, <1>3, <1>7
    <2>2. n = 0
      BY <1>4, <1>5, <1>3, <2>1
    <2>3. set = {}
      BY <1>3, <2>2
    <2>4. Cardinality(set) = 0
      BY <2>3, FS_EmptySet
    <2>5. PICK s : s = [i \in 1..0 |-> n]
      OBVIOUS
    <2>6. Enumerates(s, set)
      BY <2>3, <2>4, <2>5 DEF Enumerates
    <2>7. QED
      BY <1>3, <2>6
  <1>8. CASE n \in set
    <2>1. n - 1 \in Nat /\ set \ {n} \in SUBSET (1..(n - 1)) /\ n # 0
      BY <1>4, <1>3, <1>8
    <2>3. PICK s : Enumerates(s, set \ {n})
      BY <1>4, <1>5, <2>1
    <2>4. PICK c : c = Cardinality(set) - 1
      OBVIOUS
    <2>5. Cardinality(set) = c + 1 /\ Cardinality(set \ {n}) = c /\ c \in Nat
      <3>1. Cardinality(set \ {n}) = Cardinality(set) - 1
        BY <1>6, <1>8, FS_RemoveElement
      <3>2. Cardinality(set \ {n}) \in Nat
        BY <2>3 DEF Enumerates
      <3>3. QED
        BY <1>6, <2>4, <3>1, <3>2
    <2>6. PICK t : t = [i \in 1..(c + 1) |-> IF i = 1 THEN n ELSE s[i - 1]]
      OBVIOUS
    <2>7. /\ s \in [1..c -> set \ {n}]
          /\ \A k \in set \ {n} : \E i \in 1..c : s[i] = k
          /\ \A i, j \in 1..c : i < j => s[i] > s[j]
      BY <2>3, <2>5 DEF Enumerates
    <2>8. \A i \in 1..(c + 1) : t[i] = IF i = 1 THEN n ELSE s[i - 1]
      BY <2>6
    <2>9. \A i \in 2..(c + 1) : i - 1 \in 1..c /\ t[i] = s[i - 1]
      BY <2>5, <2>8
    <2>10. t \in [1..(c + 1) -> set]
      <3>1. ASSUME NEW i \in 1..(c + 1)
            PROVE  (IF i = 1 THEN n ELSE s[i - 1]) \in set
        <4>1. i # 1 => i - 1 \in 1..c
          BY <2>5
        <4>2. QED
          BY <1>8, <2>7, <4>1
      <3>2. QED
        BY <2>6, <3>1
    <2>11. ASSUME NEW k \in set PROVE \E i \in 1..(c + 1) : t[i] = k
      <3>1. CASE k = n
        BY <2>5, <2>8, <3>1
      <3>2. CASE k # n
        <4>1. PICK i \in 1..c : s[i] = k
          BY <2>7, <3>2
        <4>2. i + 1 \in 2..(c + 1) /\ (i + 1) - 1 = i /\ i + 1 \in 1..(c + 1)
          BY <2>5
        <4>3. t[i + 1] = k
          BY <2>9, <4>1, <4>2
        <4>4. QED
          BY <4>2, <4>3
      <3>3. QED
        BY <3>1, <3>2
    <2>12. ASSUME NEW i \in 1..(c + 1), NEW j \in 1..(c + 1), i < j PROVE t[i] > t[j]
      <3>1. j \in 2..(c + 1) /\ j - 1 \in 1..c /\ t[j] = s[j - 1]
        BY <2>5, <2>9, <2>12
      <3>2. CASE i = 1
        <4>1. s[j - 1] \in 1..n /\ s[j - 1] # n
          BY <1>3, <2>7, <3>1
        <4>2. t[i] = n
          BY <2>8, <3>2
        <4>3. QED
          BY <1>4, <3>1, <4>1, <4>2
      <3>3. CASE i # 1
        <4>1. i - 1 \in 1..c /\ t[i] = s[i - 1] /\ i - 1 < j - 1
          BY <2>5, <2>9, <2>12, <3>3
        <4>2. QED
          BY <2>7, <3>1, <4>1
      <3>4. QED
        BY <3>2, <3>3
    <2>13. Enumerates(t, set)
      BY <2>5, <2>10, <2>11, <2>12 DEF Enumerates
    <2>14. QED
      BY <1>3, <2>13
  <1>9. QED
    BY <1>7, <1>8

LEMMA NewestEnumerates ==
    ASSUME NEW m \in Nat, NEW nums \in SUBSET (1..m)
    PROVE  Enumerates(F!Newest(nums), nums)
  <1>1. F!Cardinality(nums) = Cardinality(nums)
    BY DEF F!Cardinality, Cardinality
  <1>2. PICK s : Enumerates(s, nums)
    BY Enumerated
  <1>3. \A t \in [1..Cardinality(nums) -> nums] : F!ToSet(t) = {t[i] : i \in 1..Cardinality(nums)}
    BY DEF F!ToSet
  <1>4. s \in [1..Cardinality(nums) -> nums] /\ F!ToSet(s) = nums
    BY <1>2, <1>3 DEF Enumerates
  <1>5. PICK t : t = F!Newest(nums)
    OBVIOUS
  <1>6. /\ t \in [1..Cardinality(nums) -> nums] /\ F!ToSet(t) = nums
        /\ \A i, j \in 1..Cardinality(nums) : i < j => t[i] > t[j]
    BY <1>1, <1>2, <1>4, <1>5 DEF F!Newest, Enumerates
  <1>7. ASSUME NEW n \in nums PROVE \E i \in 1..Cardinality(nums) : t[i] = n
    <2>1. nums = {t[i] : i \in 1..Cardinality(nums)}
      BY <1>3, <1>6
    <2>2. QED
      BY <2>1
  <1>8. QED
    BY <1>2, <1>5, <1>6, <1>7 DEF Enumerates

(* A part of it: newest first, and without a gap. *)
Listed(items, nums) ==
    /\ items \in Seq(nums)
    /\ \A i, j \in 1..Len(items) : i < j => items[i] > items[j]
    /\ \A n \in nums, i \in 1..Len(items) :
         items[i] < n /\ n <= items[1] => \E j \in 1..Len(items) : items[j] = n

LEMMA PartListed ==
    ASSUME NEW m \in Nat, NEW nums \in SUBSET (1..m), NEW s, Enumerates(s, nums),
           NEW a \in Nat, NEW b \in Nat, b <= Cardinality(nums)
    PROVE  Listed(SubSeq(s, a + 1, b), nums)
  <1>1. nums \subseteq Nat
    <2>1. \A n \in nums : n \in 1..m
      OBVIOUS
    <2>2. QED
      BY <2>1
  <1>2. PICK c : c = Cardinality(nums)
    OBVIOUS
  <1>3. /\ c \in Nat /\ s \in [1..c -> nums] /\ b <= c
        /\ \A n \in nums : \E i \in 1..c : s[i] = n
        /\ \A i, j \in 1..c : i < j => s[i] > s[j]
    BY <1>2 DEF Enumerates
  <1>4. PICK items : items = SubSeq(s, a + 1, b)
    OBVIOUS
  <1>5. s \in Seq(nums) /\ Len(s) = c
    BY <1>3
  <1>6. items \in Seq(nums)
        /\ Len(items) = (IF a + 1 <= b THEN b - a ELSE 0)
        /\ \A i \in 1..(b - a) : items[i] = s[a + i]
    BY <1>3, <1>4, <1>5
  <1>7. \A i \in 1..Len(items) : a + i \in 1..c /\ items[i] = s[a + i]
    BY <1>3, <1>6
  <1>8. \A i, j \in 1..Len(items) : i < j => items[i] > items[j]
    BY <1>3, <1>7
  <1>9. ASSUME NEW n \in nums, NEW i \in 1..Len(items), items[i] < n, n <= items[1]
        PROVE  \E j \in 1..Len(items) : items[j] = n
    <2>1. PICK k \in 1..c : s[k] = n
      BY <1>3
    <2>2. 1 \in 1..Len(items) /\ a + 1 \in 1..c /\ items[1] = s[a + 1] /\ Len(items) \in Nat
      BY <1>6, <1>7
    <2>3. items[i] = s[a + i] /\ a + i \in 1..c
      BY <1>7
    <2>4. \A x \in 1..c : s[x] \in Nat
      BY <1>1, <1>3
    <2>5. k < a + i
      <3>1. ~ (a + i < k) /\ a + i # k
        BY <1>3, <1>9, <2>1, <2>3, <2>4
      <3>2. QED
        BY <2>1, <2>3, <3>1
    <2>6. a + 1 <= k
      <3>1. ~ (k < a + 1)
        BY <1>3, <1>9, <2>1, <2>2, <2>4
      <3>2. QED
        BY <2>1, <2>2, <3>1
    <2>7. k - a \in 1..Len(items) /\ a + (k - a) = k
      BY <2>1, <2>2, <2>5, <2>6
    <2>8. items[k - a] = n
      BY <1>7, <2>1, <2>7
    <2>9. QED
      BY <2>7, <2>8
  <1>10. QED
    BY <1>4, <1>6, <1>8, <1>9 DEF Listed

LEMMA PageListed ==
    ASSUME NEW m \in Nat, NEW nums \in SUBSET (1..m), NEW p \in Nat
    PROVE  Listed(F!PageOf(F!Newest(nums), p), nums)
  <1>1. PICK s : s = F!Newest(nums)
    OBVIOUS
  <1>2. Enumerates(s, nums)
    BY <1>1, NewestEnumerates
  <1>3. Len(s) = Cardinality(nums) /\ Len(s) \in Nat
    BY <1>2 DEF Enumerates
  <1>4. PageSize \in Nat
    BY RouterAssumption DEF F!ActivityFeedAssumption
  <1>5. p * PageSize \in Nat /\ (p + 1) * PageSize \in Nat
    BY <1>4
  <1>6. PICK a \in Nat, b \in Nat : a = p * PageSize /\ b = (p + 1) * PageSize
    BY <1>5
  <1>7. PICK e \in Nat : e = IF b < Len(s) THEN b ELSE Len(s)
    BY <1>3
  <1>8. F!PageOf(s, p) = SubSeq(s, a + 1, e) /\ e <= Cardinality(nums)
    BY <1>3, <1>6, <1>7 DEF F!PageOf
  <1>9. QED
    BY <1>1, <1>2, <1>8, PartListed

(* The queries are told apart by their numbers, and their answers and what *)
(* waits behind the button are listed newest first.                        *)
FeedQuery(q) ==
    /\ q = [no |-> q.no, kind |-> q.kind, filter |-> q.filter, page |-> q.page,
            done |-> q.done, items |-> q.items, total |-> q.total]
    /\ q.no \in 1..asked /\ q.page \in Nat
    /\ Listed(q.items, F!Entries(q.filter))
FeedQueries ==
    /\ asked \in Nat /\ \A q \in queries : FeedQuery(q)
    /\ \A q, r \in queries : q.no = r.no => q = r
FeedLists ==
    /\ written \in Nat /\ latest \in 0..written /\ pageNo \in Nat
    /\ logs \in Seq(Nat) /\ pending \in Seq(Nat)
    /\ \A i, j \in 1..Len(pending) : i < j => pending[i] > pending[j]
FeedInv == FeedLists /\ FeedQueries

FeedAction ==
    /\ F!Twice' /\ ~ F!Twice =>
         \E q \in F!Ended : \/ pending # <<>> /\ ~ F!KeepsNewer(q)
                            \/ F!KeepsNewer(q) /\ \E n \in F!Shown : n > latest
    /\ F!Foreign' /\ ~ F!Foreign =>
         \/ F!LoadFailed \/ \E q \in F!Ended : F!Strange(q)
         \/ pending # <<>> /\ pending' = <<>>
    /\ F!Gap' /\ ~ F!Gap =>
         \/ F!LoadFailed \/ (logs = <<>> /\ pending # <<>> /\ pending' = <<>>)
         \/ \E q \in F!Ended :
              \/ F!Strange(q)
              \/ F!KeepsNewer(q) /\ (pending # <<>> \/ \A n \in F!ToSet(q.items) : n > latest)

(* A query is sent, served or ended. *)
LEMMA EntriesCounted ==
    ASSUME written \in Nat, NEW f
    PROVE  F!Entries(f) \in SUBSET (1..written)
  BY DEF F!Entries

LEMMA Elements ==
    ASSUME NEW nums, NEW items \in Seq(nums)
    PROVE  F!ToSet(items) = {items[i] : i \in 1..Len(items)}
  BY DEF F!ToSet

LEMMA QueriesSent ==
    ASSUME FeedQueries, written' = written, NEW kind, NEW f, NEW p \in Nat, F!Ask(kind, f, p)
    PROVE  FeedQueries'
  <1>1. PICK n : n = F!Query(kind, f, p)
    OBVIOUS
  <1>2. n.no = asked + 1 /\ n.items = <<>> /\ n.page = p
    BY <1>1 DEF F!Query
  <1>3. queries' = queries \cup {n} /\ asked' = asked + 1
    BY <1>1 DEF F!Ask
  <1>4. F!Entries(n.filter)' = F!Entries(n.filter)
    BY DEF F!Entries
  <1>5. Listed(<<>>, F!Entries(n.filter))
    BY DEF Listed
  <1>6. FeedQuery(n)'
    BY <1>1, <1>2, <1>3, <1>4, <1>5 DEF FeedQuery, F!Query, FeedQueries
  <1>7. ASSUME NEW q \in queries PROVE FeedQuery(q)'
    <2>1. F!Entries(q.filter)' = F!Entries(q.filter)
      BY DEF F!Entries
    <2>2. QED
      BY <1>3, <2>1 DEF FeedQueries, FeedQuery
  <1>8. \A q \in queries : q.no # n.no
    BY <1>2 DEF FeedQueries, FeedQuery
  <1>9. QED
    BY <1>3, <1>6, <1>7, <1>8 DEF FeedQueries

LEMMA QueriesKept ==
    ASSUME FeedQueries, written' = written, queries' \subseteq queries, asked' = asked
    PROVE  FeedQueries'
  <1>1. ASSUME NEW q \in queries PROVE FeedQuery(q)'
    <2>1. F!Entries(q.filter)' = F!Entries(q.filter)
      BY DEF F!Entries
    <2>2. QED
      BY <2>1 DEF FeedQueries, FeedQuery
  <1>2. QED
    BY <1>1 DEF FeedQueries

LEMMA QueriesServed ==
    ASSUME FeedInv, NEW q \in queries, F!Serve(q)
    PROVE  FeedQueries'
  <1>1. PICK n : n = [q EXCEPT !.done = TRUE, !.total = F!Cardinality(F!Entries(q.filter)),
                               !.items = F!PageOf(F!Newest(F!Entries(q.filter)), q.page)]
    OBVIOUS
  <1>2. queries' = (queries \ {q}) \cup {n} /\ written' = written /\ asked' = asked
    BY <1>1 DEF F!Serve
  <1>3. FeedQuery(q) /\ q.page \in Nat
    BY DEF FeedInv, FeedQueries, FeedQuery
  <1>4. /\ n = [no |-> n.no, kind |-> n.kind, filter |-> n.filter, page |-> n.page,
                done |-> n.done, items |-> n.items, total |-> n.total]
        /\ n.no = q.no /\ n.page = q.page /\ n.filter = q.filter
        /\ n.items = F!PageOf(F!Newest(F!Entries(q.filter)), q.page)
    BY <1>1, <1>3 DEF FeedQuery
  <1>5. Listed(n.items, F!Entries(n.filter))
    BY <1>3, <1>4, EntriesCounted, PageListed DEF FeedInv, FeedLists
  <1>6. \A f : F!Entries(f)' = F!Entries(f)
    BY <1>2 DEF F!Entries
  <1>7. FeedQuery(n)'
    BY <1>2, <1>3, <1>4, <1>5, <1>6 DEF FeedQuery
  <1>8. ASSUME NEW r \in queries PROVE FeedQuery(r)'
    BY <1>2, <1>6 DEF FeedInv, FeedQueries, FeedQuery
  <1>9. QED
    BY <1>2, <1>4, <1>7, <1>8 DEF FeedInv, FeedQueries

(* A new entry is newer than all there are. *)
LEMMA FeedWrites ==
    ASSUME FeedInv, F!Write
    PROVE  FeedInv' /\ FeedAction
  <1>1. /\ written' = written + 1 /\ written \in Nat /\ latest \in 0..written
        /\ UNCHANGED <<filters, pageNo, logs, loadingLogs, pending, latest, queries, asked>>
    BY DEF F!Write, FeedInv, FeedLists
  <1>2. \A f : /\ F!Entries(f) \subseteq F!Entries(f)' /\ F!Entries(f) \in SUBSET (1..written)
               /\ F!Entries(f)' \subseteq F!Entries(f) \cup {written + 1}
    BY <1>1 DEF F!Entries
  <1>3. ASSUME NEW q \in queries PROVE FeedQuery(q)'
    <2>1. FeedQuery(q)
      BY DEF FeedInv, FeedQueries
    <2>2. q.items \in Seq(F!Entries(q.filter)) /\ q.items \in Seq(F!Entries(q.filter)')
      BY <1>2, <2>1 DEF FeedQuery, Listed
    <2>3. \A i \in 1..Len(q.items) : q.items[i] \in 1..written
      BY <1>2, <2>2
    <2>4. ASSUME NEW n \in F!Entries(q.filter)', NEW i \in 1..Len(q.items), n <= q.items[1]
          PROVE  n \in F!Entries(q.filter)
      <3>1. 1 \in 1..Len(q.items)
        BY <2>2
      <3>2. q.items[1] \in 1..written
        BY <2>3, <3>1
      <3>3. n # written + 1
        BY <1>1, <2>4, <3>2
      <3>4. QED
        BY <1>2, <3>3
    <2>5. Listed(q.items, F!Entries(q.filter)')
      BY <2>1, <2>2, <2>4 DEF FeedQuery, Listed
    <2>6. QED
      BY <1>1, <2>1, <2>5 DEF FeedQuery
  <1>4. FeedInv'
    BY <1>1, <1>3 DEF FeedInv, FeedLists, FeedQueries
  <1>5. F!Twice' => F!Twice
    BY <1>1 DEF F!Twice, F!Shown
  <1>6. F!Foreign' => F!Foreign
    BY <1>1, <1>2 DEF F!Foreign, F!Shown
  <1>7. F!Gap' => F!Gap
    <2>1. \A n \in F!Entries(filters)' : n <= latest => n \in F!Entries(filters)
      BY <1>1, <1>2
    <2>2. QED
      BY <1>1, <2>1 DEF F!Gap, F!Shown
  <1>8. QED
    BY <1>4, <1>5, <1>6, <1>7 DEF FeedAction

(* The list is left as it is, or is being read again. *)
LEMMA FeedRests ==
    ASSUME FeedInv, FeedQueries', pageNo' \in Nat, UNCHANGED <<written, logs, pending, latest>>,
           loadingLogs' \/ UNCHANGED <<filters, pageNo, loadingLogs>>
    PROVE  FeedInv' /\ FeedAction
  <1>1. FeedInv'
    BY DEF FeedInv, FeedLists
  <1>2. F!Twice' => F!Twice
    BY DEF F!Twice, F!Shown
  <1>3. (F!Foreign' => F!Foreign) /\ (F!Gap' => F!Gap)
    BY DEF F!Foreign, F!Gap, F!Shown, F!Entries
  <1>4. QED
    BY <1>1, <1>2, <1>3 DEF FeedAction

LEMMA FeedApplies ==
    ASSUME FeedInv, F!ApplyPending
    PROVE  FeedInv' /\ FeedAction
  <1>1. /\ pending # <<>> /\ pending' = <<>> /\ logs' = pending \o logs
        /\ UNCHANGED <<written, filters, pageNo, loadingLogs, latest, queries, asked>>
        /\ logs \in Seq(Nat) /\ pending \in Seq(Nat)
    BY DEF F!ApplyPending, FeedInv, FeedLists
  <1>2. FeedQueries'
    BY <1>1, QueriesKept DEF FeedInv
  <1>3. FeedInv'
    BY <1>1, <1>2 DEF FeedInv, FeedLists
  <1>4. /\ F!Shown = {logs[i] : i \in 1..Len(logs)} /\ F!ToSet(pending) = {pending[i] : i \in 1..Len(pending)}
        /\ F!ToSet(pending') = {}
    <2>1. F!Shown = {logs[i] : i \in 1..Len(logs)}
      BY <1>1, Elements DEF F!Shown
    <2>2. F!ToSet(pending) = {pending[i] : i \in 1..Len(pending)}
      BY <1>1, Elements
    <2>3. F!ToSet(pending') = {}
      BY <1>1 DEF F!ToSet
    <2>4. QED
      BY <2>1, <2>2, <2>3
  <1>5. F!Twice' => F!Twice
    <2>1. SUFFICES ASSUME ~ F!Twice, F!Twice' PROVE FALSE
      OBVIOUS
    <2>2. PICK i \in 1..Len(logs'), j \in 1..Len(logs') : i < j /\ logs'[i] = logs'[j]
      BY <1>4, <2>1 DEF F!Twice
    <2>3. PICK p, l : p = Len(pending) /\ l = Len(logs)
      OBVIOUS
    <2>4. /\ Len(logs') = p + l /\ p \in Nat /\ l \in Nat
          /\ \A k \in 1..(p + l) : logs'[k] = IF k <= p THEN pending[k] ELSE logs[k - p]
      BY <1>1, <2>3
    <2>5. \A k \in 1..p, x \in 1..p : k < x => pending[k] # pending[x]
      BY <2>3 DEF FeedInv, FeedLists
    <2>6. \A k \in 1..l, x \in 1..l : k < x => logs[k] # logs[x]
      BY <2>1, <2>3 DEF F!Twice
    <2>7. \A k \in 1..p, x \in 1..l : pending[k] # logs[x]
      BY <1>4, <2>1, <2>3 DEF F!Twice
    <2>8. CASE j <= p
      BY <2>2, <2>4, <2>5, <2>8
    <2>9. CASE p < i
      <3>1. i - p \in 1..l /\ j - p \in 1..l /\ i - p < j - p /\ ~ (i <= p) /\ ~ (j <= p)
        BY <2>2, <2>4, <2>9
      <3>2. QED
        BY <2>2, <2>4, <2>6, <3>1
    <2>10. CASE i <= p /\ p < j
      <3>1. i \in 1..p /\ j - p \in 1..l /\ ~ (j <= p)
        BY <2>2, <2>4, <2>10
      <3>2. QED
        BY <2>2, <2>4, <2>7, <2>10, <3>1
    <2>11. QED
      BY <2>2, <2>4, <2>8, <2>9, <2>10
  <1>6. F!Gap' /\ ~ F!Gap => logs = <<>>
    <2>1. SUFFICES ASSUME F!Gap', logs # <<>> PROVE F!Gap
      OBVIOUS
    <2>2. PICK n \in F!Entries(filters) : /\ n <= latest /\ n > logs'[Len(logs')]
                                          /\ n \notin F!Shown' \cup F!ToSet(pending)'
      BY <1>1, <2>1 DEF F!Gap, F!Entries
    <2>3. /\ Len(logs') = Len(pending) + Len(logs) /\ Len(logs) # 0
          /\ Len(logs) \in Nat /\ Len(pending) \in Nat
      BY <1>1, <2>1
    <2>4. logs'[Len(logs')] = logs[Len(logs)]
      BY <1>1, <2>3
    <2>5. F!Shown' = F!Shown \cup F!ToSet(pending)
      <3>1. F!Shown' = {logs'[i] : i \in 1..Len(logs')}
        <4>1. logs' \in Seq(Nat)
          BY <1>1
        <4>2. QED
          BY <4>1, Elements DEF F!Shown
      <3>2. \A i \in 1..Len(pending) : i \in 1..Len(logs') /\ logs'[i] = pending[i]
        BY <1>1, <2>3
      <3>3. \A i \in 1..Len(logs) : i + Len(pending) \in 1..Len(logs') /\ logs'[i + Len(pending)] = logs[i]
        BY <1>1, <2>3
      <3>4. \A i \in 1..Len(logs') : \/ i \in 1..Len(pending) /\ logs'[i] = pending[i]
                                     \/ i - Len(pending) \in 1..Len(logs) /\ logs'[i] = logs[i - Len(pending)]
        BY <1>1, <2>3
      <3>5. QED
        BY <1>4, <3>1, <3>2, <3>3, <3>4
    <2>6. QED
      BY <1>1, <2>1, <2>2, <2>4, <2>5 DEF F!Gap
  <1>7. QED
    BY <1>1, <1>3, <1>5, <1>6 DEF FeedAction

(* A query is over. *)
LEMMA QueryEnds ==
    ASSUME FeedQueries, NEW q \in queries, queries' = queries \ {q}
    PROVE  q \in F!Ended
  BY DEF FeedQueries, F!Ended

LEMMA FeedFails ==
    ASSUME FeedInv, NEW q \in queries, F!Fail(q)
    PROVE  FeedInv' /\ FeedAction
  <1>1. /\ UNCHANGED <<written, filters, pageNo, logs, pending, latest, asked>> /\ queries' = queries \ {q}
        /\ loadingLogs' = (loadingLogs /\ q.kind # "load")
    BY DEF F!Fail
  <1>2. FeedQueries'
    BY <1>1, QueriesKept DEF FeedInv
  <1>3. FeedInv'
    BY <1>1, <1>2 DEF FeedInv, FeedLists
  <1>4. F!Twice' => F!Twice
    BY <1>1 DEF F!Twice, F!Shown
  <1>5. F!LoadFailed \/ (loadingLogs <=> loadingLogs')
    BY <1>1 DEF F!LoadFailed
  <1>6. (loadingLogs <=> loadingLogs') => (F!Foreign' => F!Foreign) /\ (F!Gap' => F!Gap)
    BY <1>1 DEF F!Foreign, F!Gap, F!Shown, F!Entries
  <1>7. QED
    BY <1>3, <1>4, <1>5, <1>6 DEF FeedAction

(* What newer entries a poll puts behind the button. *)
LEMMA NewerListed ==
    ASSUME FeedInv, NEW q \in queries
    PROVE  /\ F!Newer(q.items) \in Seq(Nat)
           /\ \A i, j \in 1..Len(F!Newer(q.items)) : i < j => F!Newer(q.items)[i] > F!Newer(q.items)[j]
           /\ F!ToSet(F!Newer(q.items)) = {n \in F!ToSet(q.items) : n > latest}
           /\ F!ToSet(q.items) = {q.items[i] : i \in 1..Len(q.items)}
           /\ F!ToSet(q.items) \in SUBSET (1..written)
  <1>1. written \in Nat /\ Listed(q.items, F!Entries(q.filter)) /\ F!Entries(q.filter) \in SUBSET (1..written)
    BY EntriesCounted DEF FeedInv, FeedLists, FeedQueries, FeedQuery
  <1>2. q.items \in Seq(F!Entries(q.filter))
    BY <1>1 DEF Listed
  <1>3. F!ToSet(q.items) = {q.items[i] : i \in 1..Len(q.items)}
    BY <1>2, Elements
  <1>4. F!ToSet(q.items) \in SUBSET (1..written)
    BY <1>1, <1>2, <1>3
  <1>5. PICK nums : nums = {n \in F!ToSet(q.items) : n > latest}
    OBVIOUS
  <1>6. nums \in SUBSET (1..written)
    BY <1>4, <1>5
  <1>7. PICK s : s = F!Newest(nums)
    OBVIOUS
  <1>8. Enumerates(s, nums)
    BY <1>1, <1>6, <1>7, NewestEnumerates
  <1>9. PICK c : c = Cardinality(nums)
    OBVIOUS
  <1>10. /\ c \in Nat /\ s \in [1..c -> nums] /\ \A n \in nums : \E i \in 1..c : s[i] = n
         /\ \A i, j \in 1..c : i < j => s[i] > s[j]
    BY <1>8, <1>9 DEF Enumerates
  <1>11. s \in Seq(nums) /\ Len(s) = c
    BY <1>10
  <1>12. F!ToSet(s) = nums
    <2>1. F!ToSet(s) = {s[i] : i \in 1..c}
      BY <1>11, Elements
    <2>2. QED
      BY <1>10, <2>1
  <1>13. s \in Seq(Nat)
    <2>1. nums \subseteq Nat
      <3>1. \A n \in nums : n \in 1..written
        BY <1>6
      <3>2. QED
        BY <1>1, <3>1
    <2>2. s \in [1..c -> Nat]
      BY <1>10, <2>1
    <2>3. QED
      BY <1>10, <2>2
  <1>14. F!Newer(q.items) = s
    BY <1>5, <1>7 DEF F!Newer
  <1>15. QED
    BY <1>3, <1>4, <1>5, <1>10, <1>11, <1>12, <1>13, <1>14

(* A poll that finds newer entries keeps them behind the button. *)
LEMMA FeedKeeps ==
    ASSUME FeedInv, NEW q \in queries, F!Arrive(q), F!KeepsNewer(q)
    PROVE  FeedInv' /\ FeedAction
  <1>1. /\ UNCHANGED <<written, filters, pageNo, logs, asked>> /\ queries' = queries \ {q}
        /\ q.kind = "poll" /\ q.items # <<>> /\ latest > 0 /\ q.items[1] > latest
        /\ pending' = F!Newer(q.items) /\ latest' = q.items[1]
        /\ loadingLogs' = (loadingLogs /\ q.kind = "poll")
    BY DEF F!Arrive, F!KeepsNewer
  <1>2. FeedQueries' /\ q \in F!Ended
    BY <1>1, QueriesKept, QueryEnds DEF FeedInv
  <1>3. /\ written \in Nat /\ latest \in Nat /\ logs \in Seq(Nat) /\ pending \in Seq(Nat) /\ pageNo \in Nat
        /\ Listed(q.items, F!Entries(q.filter)) /\ F!Entries(q.filter) \in SUBSET (1..written)
    BY EntriesCounted DEF FeedInv, FeedLists, FeedQueries, FeedQuery
  <1>4. /\ pending' \in Seq(Nat) /\ \A i, j \in 1..Len(pending') : i < j => pending'[i] > pending'[j]
        /\ F!ToSet(pending)' = {n \in F!ToSet(q.items) : n > latest}
        /\ F!ToSet(q.items) = {q.items[i] : i \in 1..Len(q.items)}
        /\ F!ToSet(q.items) \in SUBSET (1..written)
    BY <1>1, NewerListed
  <1>5. q.items \in Seq(F!Entries(q.filter)) /\ 1 \in 1..Len(q.items) /\ Len(q.items) \in 1..Len(q.items)
    BY <1>1, <1>3 DEF Listed
  <1>6. latest' \in 0..written
    BY <1>1, <1>3, <1>4, <1>5
  <1>7. FeedInv'
    BY <1>1, <1>2, <1>3, <1>4, <1>6 DEF FeedInv, FeedLists
  <1>8. F!Twice' /\ ~ F!Twice => \E n \in F!Shown : n > latest
    BY <1>1, <1>4 DEF F!Twice, F!Shown
  <1>9. F!Foreign' => F!Foreign
    BY <1>1 DEF F!Foreign, F!Shown, F!Entries
  <1>10. ASSUME F!Gap', ~ F!Gap, pending = <<>>
         PROVE  F!Strange(q) \/ \A n \in F!ToSet(q.items) : n > latest
    <2>1. SUFFICES ASSUME ~ F!Strange(q), NEW k \in F!ToSet(q.items), ~ (k > latest) PROVE FALSE
      OBVIOUS
    <2>2. PICK n \in F!Entries(filters) : /\ n <= latest' /\ n > logs[Len(logs)]
                                          /\ n \notin F!Shown \cup F!ToSet(pending)'
      BY <1>1, <1>10 DEF F!Gap, F!Shown, F!Entries
    <2>3. ~ loadingLogs /\ pageNo = 0 /\ logs # <<>>
      BY <1>1, <1>10 DEF F!Gap
    <2>4. F!ToSet(pending) = {}
      BY <1>10 DEF F!ToSet
    <2>5. n \in Nat /\ ~ (n <= latest)
      <3>1. n \in 1..written
        BY <1>3, EntriesCounted
      <3>2. QED
        BY <1>10, <2>2, <2>3, <2>4, <3>1 DEF F!Gap
    <2>6. PICK i \in 1..Len(q.items) : q.items[i] = k
      BY <1>4, <2>1
    <2>7. k \in Nat /\ k < n
      <3>1. k \in 1..written
        BY <1>4, <2>1
      <3>2. k \in Nat
        BY <1>3, <3>1
      <3>3. QED
        BY <1>3, <2>1, <2>5, <3>2
    <2>8. n \in F!Entries(q.filter) /\ n <= q.items[1]
      BY <1>1, <2>1, <2>2 DEF F!Strange
    <2>9. \E j \in 1..Len(q.items) : q.items[j] = n
      BY <1>3, <2>6, <2>7, <2>8 DEF Listed
    <2>10. n \in F!ToSet(pending)'
      BY <1>3, <1>4, <2>5, <2>9
    <2>11. QED
      BY <2>2, <2>10
  <1>11. QED
    BY <1>1, <1>2, <1>7, <1>8, <1>9, <1>10 DEF FeedAction

(* Any other answer takes the place of the list. *)
LEMMA FeedReplaces ==
    ASSUME FeedInv, NEW q \in queries, F!Arrive(q), ~ F!KeepsNewer(q)
    PROVE  FeedInv' /\ FeedAction
  <1>1. /\ UNCHANGED <<written, filters, pageNo, pending, asked>> /\ queries' = queries \ {q}
        /\ logs' = q.items /\ latest' = IF q.items # <<>> THEN q.items[1] ELSE latest
    BY DEF F!Arrive
  <1>2. FeedQueries' /\ q \in F!Ended
    BY <1>1, QueriesKept, QueryEnds DEF FeedInv
  <1>3. /\ written \in Nat /\ latest \in 0..written
        /\ Listed(q.items, F!Entries(q.filter)) /\ F!Entries(q.filter) \in SUBSET (1..written)
    BY EntriesCounted DEF FeedInv, FeedLists, FeedQueries, FeedQuery
  <1>4. F!ToSet(q.items) = {q.items[i] : i \in 1..Len(q.items)} /\ F!ToSet(q.items) \in SUBSET (1..written)
    BY NewerListed
  <1>5. q.items \in Seq(F!Entries(q.filter))
    BY <1>3 DEF Listed
  <1>6. \A i \in 1..Len(q.items) : q.items[i] \in F!Entries(q.filter) /\ q.items[i] \in 1..written
    BY <1>3, <1>5
  <1>7. logs' \in Seq(Nat)
    BY <1>1, <1>5, <1>6
  <1>8. latest' \in 0..written
    <2>1. q.items # <<>> => 1 \in 1..Len(q.items)
      BY <1>5
    <2>2. QED
      BY <1>1, <1>3, <1>6, <2>1
  <1>9. FeedInv'
    BY <1>1, <1>2, <1>7, <1>8 DEF FeedInv, FeedLists
  <1>10. F!Twice' => pending # <<>>
    <2>1. SUFFICES ASSUME pending = <<>>, F!Twice' PROVE FALSE
      OBVIOUS
    <2>2. F!ToSet(pending)' = {}
      BY <1>1, <2>1 DEF F!ToSet
    <2>3. PICK i \in 1..Len(q.items), j \in 1..Len(q.items) : i < j /\ q.items[i] = q.items[j]
      BY <1>1, <2>1, <2>2 DEF F!Twice
    <2>4. q.items[i] > q.items[j] /\ q.items[i] \in Nat
      BY <1>3, <1>6, <2>3 DEF Listed
    <2>5. QED
      BY <2>3, <2>4
  <1>11. \A f : F!Entries(f)' = F!Entries(f)
    BY <1>1 DEF F!Entries
  <1>12. F!Foreign' => F!Strange(q)
    BY <1>1, <1>4, <1>6, <1>11 DEF F!Foreign, F!Shown, F!Strange
  <1>13. F!Gap' => F!Strange(q)
    <2>1. SUFFICES ASSUME ~ F!Strange(q), F!Gap' PROVE FALSE
      OBVIOUS
    <2>2. PICK n \in F!Entries(filters) : n <= latest' /\ n > logs'[Len(logs')] /\ n \notin F!Shown'
      BY <1>1, <1>11, <2>1 DEF F!Gap
    <2>3. q.items # <<>>
      BY <1>1, <2>1 DEF F!Gap
    <2>4. Len(q.items) \in 1..Len(q.items) /\ n <= q.items[1] /\ q.items[Len(q.items)] < n
      BY <1>1, <1>5, <2>2, <2>3
    <2>5. n \in F!Entries(q.filter)
      BY <2>1, <2>2 DEF F!Strange
    <2>6. \E j \in 1..Len(q.items) : q.items[j] = n
      BY <1>3, <2>4, <2>5 DEF Listed
    <2>7. n \in F!Shown'
      BY <1>1, <1>4, <2>6 DEF F!Shown
    <2>8. QED
      BY <2>2, <2>7
  <1>14. QED
    BY <1>2, <1>9, <1>10, <1>12, <1>13 DEF FeedAction

LEMMA FeedStart == Init => FeedInv
  <1>1. SUFFICES ASSUME Init PROVE FeedInv
    OBVIOUS
  <1>2. /\ written = 2 /\ latest = 0 /\ pageNo = 0 /\ logs = <<>> /\ pending = <<>>
        /\ queries = {} /\ asked = 0
    BY <1>1 DEF Init, F!FeedInit
  <1>3. QED
    BY <1>2 DEF FeedInv, FeedLists, FeedQueries

(* The actions that only ask. *)
LEMMA FeedAsks ==
    ASSUME FeedInv, NEW kind, NEW f, NEW p \in Nat, F!Ask(kind, f, p), pageNo' \in Nat,
           UNCHANGED <<written, logs, pending, latest>>,
           loadingLogs' \/ UNCHANGED <<filters, pageNo, loadingLogs>>
    PROVE  FeedInv' /\ FeedAction
  <1>1. FeedQueries'
    BY QueriesSent DEF FeedInv
  <1>2. QED
    BY <1>1, FeedRests

(* The actions that neither ask nor touch the list. *)
LEMMA FeedIdles ==
    ASSUME FeedInv, queries' \subseteq queries,
           UNCHANGED <<written, filters, pageNo, logs, pending, latest, loadingLogs, asked>>
    PROVE  FeedInv' /\ FeedAction
  <1>1. FeedQueries' /\ pageNo' \in Nat
    BY QueriesKept DEF FeedInv, FeedLists
  <1>2. QED
    BY <1>1, FeedRests

LEMMA FeedStep ==
    ASSUME FeedInv, F!FeedNext
    PROVE  FeedInv' /\ FeedAction
  <1>1. pageNo \in Nat /\ written \in Nat
    BY DEF FeedInv, FeedLists
  <1>2. CASE F!FeedMount \/ F!Refresh
    <2>1. /\ F!Ask("load", filters, pageNo) /\ UNCHANGED <<written, logs, pending, latest, pageNo>>
          /\ loadingLogs'
      BY <1>2 DEF F!FeedMount, F!Refresh
    <2>2. QED
      BY <1>1, <2>1, FeedAsks
  <1>3. CASE F!ToggleLive \/ (\E n \in F!Shown : F!ToggleBookmark(n))
    <2>1. /\ queries' \subseteq queries
          /\ UNCHANGED <<written, filters, pageNo, logs, pending, latest, loadingLogs, asked>>
      BY <1>3 DEF F!ToggleLive, F!ToggleBookmark
    <2>2. QED
      BY <2>1, FeedIdles
  <1>4. CASE F!ApplyPending
    BY <1>4, FeedApplies
  <1>5. CASE F!Poll
    <2>1. /\ F!Ask("poll", filters, pageNo)
          /\ UNCHANGED <<written, filters, pageNo, logs, pending, latest, loadingLogs>>
      BY <1>5 DEF F!Poll
    <2>2. QED
      BY <1>1, <2>1, FeedAsks
  <1>6. CASE F!Write
    BY <1>6, FeedWrites
  <1>7. CASE \E f \in F!Filters : F!SetFilter(f)
    <2>1. PICK f \in F!Filters : F!SetFilter(f)
      BY <1>7
    <2>2. /\ F!Ask("load", f, 0) /\ UNCHANGED <<written, logs, pending, latest>>
          /\ loadingLogs' /\ pageNo' = 0
      BY <2>1 DEF F!SetFilter
    <2>3. QED
      BY <2>2, FeedAsks
  <1>8. CASE \E p \in 0..MaxLog : F!SetPage(p)
    <2>1. PICK p \in 0..MaxLog : F!SetPage(p)
      BY <1>8
    <2>2. /\ F!Ask("load", filters, p) /\ UNCHANGED <<written, logs, pending, latest>>
          /\ loadingLogs' /\ pageNo' = p /\ p \in Nat
      BY <2>1 DEF F!SetPage
    <2>3. QED
      BY <2>2, FeedAsks
  <1>9. CASE \E v \in {"logs", "analytics", "bookmarks"} : F!SetTab(v)
    <2>1. PICK v : F!SetTab(v)
      BY <1>9
    <2>2. /\ F!Ask("stats", "all", 0) \/ UNCHANGED <<queries, asked>>
          /\ UNCHANGED <<written, filters, pageNo, logs, pending, latest, loadingLogs>>
      BY <2>1 DEF F!SetTab
    <2>3. CASE F!Ask("stats", "all", 0)
      BY <1>1, <2>2, <2>3, FeedAsks
    <2>4. CASE UNCHANGED <<queries, asked>>
      BY <2>2, <2>4, FeedIdles
    <2>5. QED
      BY <2>2, <2>3, <2>4
  <1>10. CASE \E q \in queries : F!Serve(q) \/ F!Arrive(q) \/ F!StatsArrive(q) \/ F!Fail(q)
    <2>1. PICK q \in queries : F!Serve(q) \/ F!Arrive(q) \/ F!StatsArrive(q) \/ F!Fail(q)
      BY <1>10
    <2>2. CASE F!Serve(q)
      <3>1. FeedQueries'
        BY <2>2, QueriesServed
      <3>2. UNCHANGED <<written, filters, pageNo, logs, pending, latest, loadingLogs>>
        BY <2>2 DEF F!Serve
      <3>3. QED
        BY <1>1, <3>1, <3>2, FeedRests
    <2>3. CASE F!Arrive(q)
      BY <2>3, FeedKeeps, FeedReplaces
    <2>4. CASE F!StatsArrive(q)
      <3>1. /\ queries' \subseteq queries
            /\ UNCHANGED <<written, filters, pageNo, logs, pending, latest, loadingLogs, asked>>
        BY <2>4 DEF F!StatsArrive
      <3>2. QED
        BY <3>1, FeedIdles
    <2>5. CASE F!Fail(q)
      BY <2>5, FeedFails
    <2>6. QED
      BY <2>1, <2>2, <2>3, <2>4, <2>5
  <1>11. QED
    BY <1>2, <1>3, <1>4, <1>5, <1>6, <1>7, <1>8, <1>9, <1>10 DEF F!FeedNext

LEMMA FeedNextStep ==
    ASSUME FeedInv, [Next]_vars
    PROVE  FeedInv' /\ (FeedAction \/ UNCHANGED feedVars)
  <1>1. UNCHANGED feedVars \/ F!FeedNext
    BY DEF Next, vars
  <1>2. CASE UNCHANGED feedVars
    <2>1. FeedInv'
      BY <1>2, FeedIdles DEF feedVars
    <2>2. QED
      BY <1>2, <2>1
  <1>3. QED
    BY <1>1, <1>2, FeedStep

(* An entry comes to be listed twice only when the list is read again while *)
(* others wait behind the button, or a page of older entries has set        *)
(* latestIdRef back; entries of another filter, and gaps, appear only with  *)
(* an answer to an earlier question, a failed read, the button, or a poll   *)
(* that replaces what was waiting or is newer throughout                    *)
(* (ActivityLogs.jsx:369-430), for any log and any number of clicks.        *)
THEOREM FeedAlwaysExplained == Spec => FeedExplained
  <1>1. Init => FeedInv
    BY FeedStart
  <1>2. FeedInv /\ [Next]_vars => FeedInv' /\ (FeedAction \/ UNCHANGED feedVars)
    BY FeedNextStep
  <1>3. UNCHANGED feedVars => UNCHANGED F!feedVars
    BY DEF feedVars, F!feedVars
  <1>4. QED
    BY <1>1, <1>2, <1>3, PTL DEF Spec, FeedExplained, F!FeedExplained, FeedAction

=============================================================================
