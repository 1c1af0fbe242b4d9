--------------------------- MODULE BookingsProofs ---------------------------
(***************************************************************************)
(* Proofs about Bookings, for any sets of workers, rooms, stays, bookings, *)
(* payments, blackout dates and override statuses: types and money, stays  *)
(* that are funded, the refinement of the ledger; then what an             *)
(* availability check is worth later: of two bookings that hold one room   *)
(* on one night, of a booking on a closed night, and of requests that do   *)
(* not overlap.                                                            *)
(***************************************************************************)
EXTENDS Bookings, TLAPS

(* A request's pc tells which fields it carries. *)
LEMMA RequestByPc ==
    ASSUME NEW r \in Request
    PROVE  /\ r.pc \in {"rooms", "insert"} => r \in CreateRequest
           /\ r.pc = "write" => r \in WriteRequest
           /\ r.pc = "notify" => r \in NotifyRequest
           /\ r.pc = "open" => r \in OpenPaymentRequest
           /\ r.pc \in PaymentPcs => r \in PaymentRequest
  BY DEF Request, Idle, CreateRequest, WriteRequest, NotifyRequest,
         OpenPaymentRequest, PaymentRequest, PaymentPcs

(* A row that is placed has the fields of a booking, one that is not is    *)
(* NoBooking; likewise for payments.                                       *)
LEMMA RowByStatus ==
    ASSUME TypeOK
    PROVE  /\ \A b \in BookingIds : Placed(b) <=> bookings[b] \in Booking
           /\ \A p \in PaymentIds : Opened(p) <=> payments[p] \in Payment
  BY DEF TypeOK, Placed, Opened, Booking, NoBooking, BookingStatus, Payment, NoPayment

(* Overlap is symmetric: it does not matter which of two stays was first.  *)
LEMMA OverlapsSymmetric ==
    ASSUME NEW s \in Stays, NEW t \in Stays
    PROVE  Overlaps(s, t) <=> Overlaps(t, s)
  BY StaysAssumption DEF Overlaps, Stay

-----------------------------------------------------------------------------
(* The inductive invariants. *)

(* What a request holds: rows that exist, and the status its kind writes.  *)
(* A check-in read "confirmed", and only staff can have made it pending    *)
(* again since.                                                            *)
RequestOK(w) ==
    LET r == req[w] IN
    /\ r.pc \in {"write", "open"} \cup PaymentPcs => Placed(r.booking)
    /\ r.pc = "notify" => Placed(r.notice.booking)
    /\ r.pc = "write" /\ r.by = "guest" => r.target = "cancelled"
    /\ r.pc = "write" /\ r.by = "desk" =>
          /\ r.target = "completed"
          /\ r.loaded = "confirmed"
          /\ bookings[r.booking].status = "pending" => r.booking \in overridden

RequestInv == \A w \in Workers : RequestOK(w)

(* Which row and which charge a payment request is responsible for. *)
PaymentOK(w) ==
    LET r == req[w] IN
    /\ r.pc \in {"charge", "succeeded", "failed"} =>
          payments[r.payment] = [booking |-> r.booking, status |-> "pending"]
    /\ r.pc = "confirm" =>
          payments[r.payment] = [booking |-> r.booking, status |-> "succeeded"]
    /\ r.pc \in {"charge", "failed"} => r.payment \notin charged
    /\ r.pc \in {"succeeded", "confirm"} => r.payment \in charged

(* No two requests work on one payment. *)
PaymentsOwned ==
    \A v, w \in Workers :
        v # w /\ req[v].pc \in PaymentPcs /\ req[w].pc \in PaymentPcs =>
            req[v].payment # req[w].payment

PaymentRowsOK == \A p \in PaymentIds : Opened(p) => Placed(payments[p].booking)

PaymentInv ==
    /\ \A w \in Workers : PaymentOK(w)
    /\ PaymentsOwned
    /\ PaymentRowsOK
    /\ MoneyAccounted

CoreInv == TypeOK /\ RequestInv /\ PaymentInv

-----------------------------------------------------------------------------
(* Type correctness. *)

LEMMA TypeInit == Init => TypeOK
  BY DEF Init, TypeOK, Request, Idle, NoEvidence, Evidence

LEMMA TypeStart ==
    ASSUME TypeOK, NEW w \in Workers, Start(w)
    PROVE  TypeOK'
  <1> USE DEF TypeOK, Serve, tables, history
  <1>1. ASSUME NEW r \in Rooms, NEW s \in Stays, StartCreate(w, r, s)
        PROVE  TypeOK'
    <2>1. HotelWide(blackouts) \subseteq Closures
      BY DEF HotelWide
    <2>2. [pc |-> "rooms", room |-> r, stay |-> s,
           saw |-> [bookings |-> {}, closures |-> HotelWide(blackouts)]] \in Request
      BY <2>1 DEF Request, CreateRequest, Evidence
    <2>3. QED
      BY <1>1, <2>2 DEF StartCreate
  <1>2. ASSUME NEW b \in BookingIds, NEW t \in BookingStatus,
               NEW y \in {"guest", "desk", "staff"}, Placed(b), StartWrite(w, b, t, y),
               UNCHANGED <<tables, history>>
        PROVE  TypeOK'
    <2>1. bookings[b].status \in BookingStatus
      BY <1>2, RowByStatus DEF Booking
    <2>2. [pc |-> "write", booking |-> b, loaded |-> bookings[b].status,
           target |-> t, by |-> y] \in Request
      BY <2>1 DEF Request, WriteRequest
    <2>3. QED
      BY <1>2, <2>2 DEF StartWrite
  <1>3. ASSUME NEW b \in BookingIds, StartCancel(w, b)
        PROVE  TypeOK'
    BY <1>2, <1>3 DEF StartCancel, BookingStatus
  <1>4. ASSUME NEW b \in BookingIds, StartCheckIn(w, b)
        PROVE  TypeOK'
    BY <1>2, <1>4 DEF StartCheckIn, BookingStatus, Placed
  <1>5. ASSUME NEW b \in BookingIds, StartCheckOut(w, b)
        PROVE  TypeOK'
    BY <1>5 DEF StartCheckOut, Request, NotifyRequest, Notice
  <1>6. ASSUME NEW b \in BookingIds, StartPayment(w, b)
        PROVE  TypeOK'
    BY <1>6 DEF StartPayment, Request, OpenPaymentRequest
  <1>7. ASSUME NEW b \in BookingIds, NEW s \in OverrideStatuses, StartOverride(w, b, s)
        PROVE  TypeOK'
    BY <1>2, <1>7, OverrideAssumption DEF StartOverride
  <1>8. QED
    BY <1>1, <1>3, <1>4, <1>5, <1>6, <1>7 DEF Start

LEMMA TypeContinue ==
    ASSUME TypeOK, RequestInv, PaymentInv, NEW w \in Workers, Continue(w)
    PROVE  TypeOK'
  <1> USE DEF TypeOK, Serve, tables, history
  <1>0. /\ req[w] \in Request
        /\ Idle \in Request
    BY DEF Request
  <1>1. ASSUME QueryRooms(w)
        PROVE  TypeOK'
    <2> DEFINE saw == [bookings |-> PlacedIds,
                       closures |-> req[w].saw.closures \cup RoomScoped(blackouts)]
    <2>1. req[w] \in CreateRequest
      BY <1>0, <1>1, RequestByPc DEF QueryRooms
    <2>2. saw \in Evidence
      BY <2>1 DEF CreateRequest, Evidence, PlacedIds, RoomScoped
    <2>3. [pc |-> "insert", room |-> req[w].room, stay |-> req[w].stay, saw |-> saw]
            \in Request
      BY <2>1, <2>2 DEF CreateRequest, Request
    <2>4. QED
      BY <1>0, <1>1, <2>3 DEF QueryRooms
  <1>2. ASSUME NEW b \in BookingIds, InsertBooking(w, b)
        PROVE  TypeOK'
    <2>1. req[w] \in CreateRequest
      BY <1>0, <1>2, RequestByPc DEF InsertBooking
    <2>2. /\ [room |-> req[w].room, stay |-> req[w].stay, status |-> "pending"] \in Booking
          /\ req[w].saw \in Evidence
      BY <2>1 DEF CreateRequest, Booking, BookingStatus
    <2>3. QED
      BY <1>0, <1>2, <2>2 DEF InsertBooking
  <1>3. ASSUME WriteStatus(w)
        PROVE  TypeOK'
    <2>1. req[w] \in WriteRequest
      BY <1>0, <1>3, RequestByPc DEF WriteStatus
    <2>2. AfterWrite(req[w]) \in Request
      BY <2>1 DEF AfterWrite, WriteRequest, Request, NotifyRequest, Notice
    <2>3. bookings' \in [BookingIds -> Booking \cup {NoBooking}]
      <3>1. bookings[req[w].booking] \in Booking
        BY <1>3, <2>1, RowByStatus DEF WriteStatus, RequestInv, RequestOK, WriteRequest
      <3>2. [bookings[req[w].booking] EXCEPT !.status = req[w].target] \in Booking
        BY <2>1, <3>1 DEF Booking, WriteRequest
      <3>3. QED
        BY <1>3, <3>2 DEF WriteStatus
    <2>4. /\ revived' \subseteq BookingIds
          /\ confirmed' \subseteq BookingIds
          /\ overridden' \subseteq BookingIds
      BY <1>3, <2>1 DEF WriteStatus, WriteRequest, Revive
    <2>5. QED
      BY <1>3, <2>2, <2>3, <2>4 DEF WriteStatus
  <1>4. ASSUME WriteNotice(w)
        PROVE  TypeOK'
    <2>1. req[w] \in NotifyRequest
      BY <1>0, <1>4, RequestByPc DEF WriteNotice
    <2>2. QED
      BY <1>0, <1>4, <2>1 DEF WriteNotice, NotifyRequest
  <1>5. ASSUME NEW p \in PaymentIds, OpenPayment(w, p)
        PROVE  TypeOK'
    <2>1. req[w] \in OpenPaymentRequest
      BY <1>0, <1>5, RequestByPc DEF OpenPayment
    <2>2. [pc |-> "charge", booking |-> req[w].booking, payment |-> p] \in Request
      BY <2>1 DEF OpenPaymentRequest, Request, PaymentRequest
    <2>3. [booking |-> req[w].booking, status |-> "pending"] \in Payment
      BY <2>1 DEF OpenPaymentRequest, Payment
    <2>4. QED
      BY <1>5, <2>2, <2>3 DEF OpenPayment
  <1>6. ASSUME ChargeCard(w)
        PROVE  TypeOK'
    <2>1. req[w] \in PaymentRequest
      BY <1>0, <1>6, RequestByPc DEF ChargeCard, PaymentPcs
    <2>2. /\ [req[w] EXCEPT !.pc = "succeeded"] \in Request
          /\ [req[w] EXCEPT !.pc = "failed"] \in Request
      BY <2>1 DEF PaymentRequest, Request
    <2>3. QED
      BY <1>6, <2>1, <2>2 DEF ChargeCard, PaymentRequest
  <1>7. ASSUME RecordPayment(w)
        PROVE  TypeOK'
    <2>1. req[w] \in PaymentRequest
      BY <1>0, <1>7, RequestByPc DEF RecordPayment, PaymentPcs
    <2>2. [req[w] EXCEPT !.pc = "confirm"] \in Request
      BY <2>1 DEF PaymentRequest, Request
    <2>3. payments' \in [PaymentIds -> Payment \cup {NoPayment}]
      <3>1. payments[req[w].payment] = [booking |-> req[w].booking, status |-> "pending"]
        BY <1>7 DEF RecordPayment, PaymentInv, PaymentOK
      <3>2. [payments[req[w].payment] EXCEPT !.status = req[w].pc] \in Payment
        BY <1>7, <2>1, <3>1 DEF RecordPayment, PaymentRequest, Payment
      <3>3. QED
        BY <1>7, <3>2 DEF RecordPayment
    <2>4. QED
      BY <1>0, <1>7, <2>2, <2>3 DEF RecordPayment
  <1>8. ASSUME ConfirmBooking(w)
        PROVE  TypeOK'
    <2>1. req[w] \in PaymentRequest
      BY <1>0, <1>8, RequestByPc DEF ConfirmBooking, PaymentPcs
    <2>2. bookings' \in [BookingIds -> Booking \cup {NoBooking}]
      <3>1. bookings[req[w].booking] \in Booking
        BY <1>8, <2>1, RowByStatus
        DEF ConfirmBooking, RequestInv, RequestOK, PaymentRequest, PaymentPcs
      <3>2. [bookings[req[w].booking] EXCEPT !.status = "confirmed"] \in Booking
        BY <3>1 DEF Booking, BookingStatus
      <3>3. QED
        BY <1>8, <3>2 DEF ConfirmBooking
    <2>3. QED
      BY <1>0, <1>8, <2>1, <2>2 DEF ConfirmBooking, PaymentRequest, Revive
  <1>9. QED
    BY <1>1, <1>2, <1>3, <1>4, <1>5, <1>6, <1>7, <1>8 DEF Continue

LEMMA TypeNext ==
    ASSUME CoreInv, [Next]_vars
    PROVE  TypeOK'
  <1> USE DEF CoreInv
  <1>1. ASSUME NEW w \in Workers, Start(w)
        PROVE  TypeOK'
    BY <1>1, TypeStart
  <1>2. ASSUME NEW w \in Workers, Continue(w)
        PROVE  TypeOK'
    BY <1>2, TypeContinue
  <1>3. ASSUME NEW w \in Workers, Crash(w)
        PROVE  TypeOK'
    <2>1. req[w] \in Request /\ Idle \in Request
      BY DEF TypeOK, Request
    <2>2. req[w].pc \in PaymentPcs => req[w].payment \in PaymentIds
      BY <2>1, RequestByPc DEF PaymentRequest
    <2>3. QED
      BY <1>3, <2>1, <2>2 DEF TypeOK, Crash, Serve, tables
  <1>4. ASSUME Manage
        PROVE  TypeOK'
    BY <1>4 DEF TypeOK, Manage, CreateBlackout, DeleteBlackout, DeactivateRoom,
                ActivateRoom, history
  <1>5. ASSUME UNCHANGED vars
        PROVE  TypeOK'
    BY <1>5 DEF TypeOK, vars, tables, history
  <1>6. QED
    BY <1>1, <1>2, <1>3, <1>4, <1>5 DEF Next

-----------------------------------------------------------------------------
(* What a step may do to the booking rows and to the requests. *)

(* Rows are never removed or moved to another room or stay; a row becomes  *)
(* pending only by a staff override, and leaves "cancelled" only into      *)
(* revived; the history of a placed row grows.                             *)
BookingsGrow ==
    /\ overridden \subseteq overridden'
    /\ revived \subseteq revived'
    /\ \A b \in BookingIds : Placed(b) =>
          /\ Placed(b)'
          /\ bookings'[b].room = bookings[b].room
          /\ bookings'[b].stay = bookings[b].stay
          /\ bookings'[b].status = "pending" =>
                bookings[b].status = "pending" \/ b \in overridden'
          /\ bookings[b].status = "cancelled" =>
                bookings'[b].status = "cancelled" \/ b \in revived'
          /\ evidence'[b] = evidence[b]

LEMMA StatusUpdate ==
    ASSUME TypeOK, NEW c \in BookingIds, Placed(c), NEW t \in BookingStatus,
           bookings' = [bookings EXCEPT ![c].status = t]
    PROVE  /\ \A b \in BookingIds : Placed(b) =>
                 /\ Placed(b)'
                 /\ bookings'[b].room = bookings[b].room
                 /\ bookings'[b].stay = bookings[b].stay
           /\ bookings'[c].status = t
           /\ \A b \in BookingIds \ {c} : bookings'[b] = bookings[b]
  <1>1. bookings[c] \in Booking
    BY RowByStatus
  <1>2. bookings'[c] = [bookings[c] EXCEPT !.status = t]
    BY DEF TypeOK
  <1>3. \A b \in BookingIds \ {c} : bookings'[b] = bookings[b]
    BY DEF TypeOK
  <1>4. /\ bookings'[c].room = bookings[c].room
        /\ bookings'[c].stay = bookings[c].stay
        /\ bookings'[c].status = t
    BY <1>1, <1>2 DEF Booking
  <1>5. QED
    BY <1>3, <1>4 DEF Placed, BookingStatus

LEMMA BookingsGrowNext ==
    ASSUME CoreInv, [Next]_vars
    PROVE  BookingsGrow
  <1> USE DEF CoreInv
  <1>1. ASSUME UNCHANGED <<bookings, evidence, revived, overridden>>
        PROVE  BookingsGrow
    BY <1>1 DEF BookingsGrow, Placed
  <1>2. ASSUME NEW w \in Workers, NEW c \in BookingIds, InsertBooking(w, c)
        PROVE  BookingsGrow
    BY <1>2 DEF InsertBooking, BookingsGrow, TypeOK, Placed
  <1>3. ASSUME NEW w \in Workers, WriteStatus(w)
        PROVE  BookingsGrow
    <2>1. /\ req[w] \in WriteRequest
          /\ Placed(req[w].booking)
          /\ RequestOK(w)
      BY <1>3, RequestByPc DEF WriteStatus, TypeOK, RequestInv, RequestOK
    <2>2. CASE req[w].loaded = req[w].target
      BY <1>1, <1>3, <2>2 DEF WriteStatus
    <2>3. CASE req[w].loaded # req[w].target
      <3>1. /\ bookings' = [bookings EXCEPT ![req[w].booking].status = req[w].target]
            /\ Revive(req[w].booking, req[w].target)
            /\ overridden' = IF req[w].by = "staff" THEN overridden \cup {req[w].booking}
                             ELSE overridden
            /\ evidence' = evidence
        BY <1>3, <2>3 DEF WriteStatus
      <3>2. req[w].target = "pending" => req[w].by = "staff"
        BY <1>3, <2>1 DEF RequestOK, WriteRequest, WriteStatus
      <3>3. /\ \A b \in BookingIds : Placed(b) =>
                 /\ Placed(b)'
                 /\ bookings'[b].room = bookings[b].room
                 /\ bookings'[b].stay = bookings[b].stay
            /\ bookings'[req[w].booking].status = req[w].target
            /\ \A b \in BookingIds \ {req[w].booking} : bookings'[b] = bookings[b]
        BY <2>1, <3>1, StatusUpdate DEF WriteRequest
      <3>4. QED
        BY <2>1, <3>1, <3>2, <3>3 DEF BookingsGrow, Revive, WriteRequest
    <2>4. QED
      BY <2>2, <2>3
  <1>4. ASSUME NEW w \in Workers, ConfirmBooking(w)
        PROVE  BookingsGrow
    <2>1. /\ req[w] \in PaymentRequest
          /\ Placed(req[w].booking)
      BY <1>4, RequestByPc DEF ConfirmBooking, TypeOK, RequestInv, RequestOK, PaymentPcs
    <2>2. /\ \A b \in BookingIds : Placed(b) =>
                 /\ Placed(b)'
                 /\ bookings'[b].room = bookings[b].room
                 /\ bookings'[b].stay = bookings[b].stay
          /\ bookings'[req[w].booking].status = "confirmed"
          /\ \A b \in BookingIds \ {req[w].booking} : bookings'[b] = bookings[b]
      BY <1>4, <2>1, StatusUpdate DEF ConfirmBooking, PaymentRequest, BookingStatus
    <2>3. QED
      BY <1>4, <2>1, <2>2 DEF BookingsGrow, ConfirmBooking, Revive, PaymentRequest
  <1>5. ASSUME NEW w \in Workers, Start(w)
        PROVE  UNCHANGED <<bookings, evidence, revived, overridden>>
    BY <1>5 DEF Start, StartCreate, StartCancel, StartCheckIn, StartCheckOut,
                StartOverride, StartPayment, tables, history
  <1>6. ASSUME NEW w \in Workers,
               \/ QueryRooms(w) \/ WriteNotice(w) \/ ChargeCard(w) \/ RecordPayment(w)
               \/ Crash(w) \/ \E p \in PaymentIds : OpenPayment(w, p)
        PROVE  UNCHANGED <<bookings, evidence, revived, overridden>>
    BY <1>6 DEF QueryRooms, WriteNotice, ChargeCard, RecordPayment, Crash, OpenPayment,
                tables, history
  <1>7. ASSUME Manage
        PROVE  UNCHANGED <<bookings, evidence, revived, overridden>>
    BY <1>7 DEF Manage, CreateBlackout, DeleteBlackout, DeactivateRoom, ActivateRoom, history
  <1>8. ASSUME UNCHANGED vars
        PROVE  UNCHANGED <<bookings, evidence, revived, overridden>>
    BY <1>8 DEF vars, tables, history
  <1>9. QED
    BY <1>1, <1>2, <1>3, <1>4, <1>5, <1>6, <1>7, <1>8 DEF Next, Continue

(* A step of one worker leaves the requests of the others alone. *)
LEMMA OtherRequests ==
    ASSUME TypeOK, NEW w \in Workers, Start(w) \/ Continue(w) \/ Crash(w),
           NEW v \in Workers \ {w}
    PROVE  req'[v] = req[v]
  BY DEF TypeOK, Start, StartCreate, StartCancel, StartCheckIn, StartCheckOut,
         StartOverride, StartPayment, StartWrite, Continue, QueryRooms, InsertBooking,
         WriteStatus, WriteNotice, OpenPayment, ChargeCard, RecordPayment,
         ConfirmBooking, Crash, Serve

(* A request that starts holds no payment. *)
LEMMA StartPc ==
    ASSUME TypeOK, NEW w \in Workers, Start(w)
    PROVE  req'[w].pc \in {"rooms", "write", "notify", "open"}
  <1> USE DEF TypeOK, Serve
  <1>1. ASSUME NEW r \in Rooms, NEW s \in Stays, StartCreate(w, r, s)
        PROVE  req'[w].pc = "rooms"
    <2> DEFINE saw == [bookings |-> {}, closures |-> HotelWide(blackouts)]
    <2>1. req'[w] = [pc |-> "rooms", room |-> r, stay |-> s, saw |-> saw]
      BY <1>1 DEF StartCreate
    <2> HIDE DEF saw
    <2>2. QED
      BY <2>1
  <1>2. ASSUME NEW b \in BookingIds, StartCheckOut(w, b)
        PROVE  req'[w].pc = "notify"
    <2> DEFINE n == [booking |-> b, title |-> "Checked Out"]
    <2>1. req'[w] = [pc |-> "notify", notice |-> n]
      BY <1>2 DEF StartCheckOut
    <2> HIDE DEF n
    <2>2. QED
      BY <2>1
  <1>3. ASSUME NEW b \in BookingIds,
               \/ StartCancel(w, b) \/ StartCheckIn(w, b)
               \/ \E s \in OverrideStatuses : StartOverride(w, b, s)
        PROVE  req'[w].pc = "write"
    BY <1>3 DEF StartCancel, StartCheckIn, StartOverride, StartWrite
  <1>4. ASSUME NEW b \in BookingIds, StartPayment(w, b)
        PROVE  req'[w].pc = "open"
    BY <1>4 DEF StartPayment
  <1>5. QED
    BY <1>1, <1>2, <1>3, <1>4 DEF Start

LEMMA ManageRequests ==
    ASSUME Manage \/ UNCHANGED vars
    PROVE  req' = req
  BY DEF Manage, CreateBlackout, DeleteBlackout, DeactivateRoom, ActivateRoom, vars

-----------------------------------------------------------------------------
(* RequestInv. *)

LEMMA RequestInit == Init => RequestInv
  BY DEF Init, RequestInv, RequestOK, Idle, PaymentPcs

(* A request that is left alone stays in order whatever the rows do. *)
LEMMA RequestFrame ==
    ASSUME CoreInv, [Next]_vars, NEW v \in Workers, req'[v] = req[v]
    PROVE  RequestOK(v)'
  <1>1. req[v] \in Request /\ RequestOK(v)
    BY DEF CoreInv, TypeOK, RequestInv
  <1>2. BookingsGrow
    BY BookingsGrowNext
  <1>3. /\ req[v].pc \in {"write", "open"} \cup PaymentPcs => req[v].booking \in BookingIds
        /\ req[v].pc = "notify" => req[v].notice.booking \in BookingIds
    BY <1>1, RequestByPc
    DEF WriteRequest, NotifyRequest, Notice, OpenPaymentRequest, PaymentRequest
  <1>4. PaymentPcs' = PaymentPcs
    BY DEF PaymentPcs
  <1>5. QED
    BY <1>1, <1>2, <1>3, <1>4 DEF RequestOK, BookingsGrow

LEMMA RequestOwnStart ==
    ASSUME CoreInv, NEW w \in Workers, Start(w)
    PROVE  RequestOK(w)'
  <1> USE DEF CoreInv, TypeOK, Serve, RequestOK, tables, history, PaymentPcs
  <1>1. UNCHANGED <<bookings, overridden>>
    BY DEF Start, StartCreate, StartCancel, StartCheckIn, StartCheckOut,
           StartOverride, StartPayment
  <1>2. ASSUME NEW r \in Rooms, NEW s \in Stays, StartCreate(w, r, s)
        PROVE  RequestOK(w)'
    BY <1>2 DEF StartCreate
  <1>3. ASSUME NEW b \in BookingIds, StartCancel(w, b)
        PROVE  RequestOK(w)'
    BY <1>3 DEF StartCancel, StartWrite, Placed
  <1>4. ASSUME NEW b \in BookingIds, StartCheckIn(w, b)
        PROVE  RequestOK(w)'
    BY <1>4 DEF StartCheckIn, StartWrite, Placed
  <1>5. ASSUME NEW b \in BookingIds, StartCheckOut(w, b)
        PROVE  RequestOK(w)'
    BY <1>5 DEF StartCheckOut, Placed
  <1>6. ASSUME NEW b \in BookingIds, StartPayment(w, b)
        PROVE  RequestOK(w)'
    BY <1>6 DEF StartPayment, Placed
  <1>7. ASSUME NEW b \in BookingIds, NEW s \in OverrideStatuses, StartOverride(w, b, s)
        PROVE  RequestOK(w)'
    BY <1>7 DEF StartOverride, StartWrite, Placed
  <1>8. QED
    BY <1>2, <1>3, <1>4, <1>5, <1>6, <1>7 DEF Start

LEMMA RequestOwnContinue ==
    ASSUME CoreInv, NEW w \in Workers, Continue(w)
    PROVE  RequestOK(w)'
  <1>0. /\ req \in [Workers -> Request]
        /\ req[w] \in Request
        /\ RequestOK(w)
        /\ BookingsGrow
    BY BookingsGrowNext DEF CoreInv, TypeOK, RequestInv, Next
  <1>1. ASSUME QueryRooms(w)
        PROVE  RequestOK(w)'
    <2>1. req[w] \in CreateRequest
      BY <1>0, <1>1, RequestByPc DEF QueryRooms
    <2>2. req'[w].pc \in {"insert", "idle"}
      BY <1>0, <1>1, <2>1 DEF QueryRooms, Serve, Idle
    <2>3. QED
      BY <2>2 DEF RequestOK, PaymentPcs
  <1>2. ASSUME req'[w] = Idle
        PROVE  RequestOK(w)'
    BY <1>2 DEF RequestOK, Idle, PaymentPcs
  <1>3. ASSUME WriteStatus(w)
        PROVE  RequestOK(w)'
    <2>1. /\ req[w] \in WriteRequest
          /\ req'[w] = AfterWrite(req[w])
      BY <1>0, <1>3, RequestByPc DEF WriteStatus, Serve
    <2>2. Placed(req[w].booking)
      BY <1>0, <1>3 DEF RequestOK, WriteStatus
    <2>3. bookings'[req[w].booking].status # "none"
      BY <1>0, <2>1, <2>2 DEF BookingsGrow, WriteRequest, Placed
    <2>4. CASE req[w].by = "desk"
      <3> DEFINE n == [booking |-> req[w].booking, title |-> "Checked In"]
      <3>1. req'[w] = [pc |-> "notify", notice |-> n] /\ n.booking = req[w].booking
        BY <2>1, <2>4 DEF AfterWrite
      <3> HIDE DEF n
      <3>2. req'[w].pc = "notify" /\ req'[w].notice.booking = req[w].booking
        BY <3>1
      <3>3. QED
        BY <2>3, <3>2 DEF RequestOK, PaymentPcs, Placed
    <2>5. QED
      BY <1>2, <2>1, <2>4 DEF AfterWrite
  <1>4. ASSUME NEW p \in PaymentIds, OpenPayment(w, p)
        PROVE  RequestOK(w)'
    BY <1>0, <1>4 DEF OpenPayment, Serve, RequestOK, Placed, PaymentPcs
  <1>5. ASSUME ChargeCard(w) \/ RecordPayment(w)
        PROVE  RequestOK(w)'
    <2>1. req[w] \in PaymentRequest
      BY <1>0, <1>5, RequestByPc DEF ChargeCard, RecordPayment, PaymentPcs
    <2>2. \/ req'[w] = Idle
          \/ req'[w].pc \in PaymentPcs /\ req'[w].booking = req[w].booking
      BY <1>0, <1>5, <2>1 DEF ChargeCard, RecordPayment, PaymentRequest, Serve, PaymentPcs
    <2>3. bookings'[req[w].booking].status # "none"
      BY <1>0, <2>1 DEF BookingsGrow, RequestOK, PaymentRequest, Placed, PaymentPcs
    <2>4. QED
      BY <1>2, <2>2, <2>3 DEF RequestOK, PaymentPcs, Placed
  <1>6. QED
    BY <1>0, <1>1, <1>2, <1>3, <1>4, <1>5
    DEF Continue, InsertBooking, WriteNotice, ConfirmBooking, Serve

LEMMA RequestNext ==
    ASSUME CoreInv, [Next]_vars
    PROVE  RequestInv'
  <1> SUFFICES ASSUME NEW v \in Workers
               PROVE  RequestOK(v)'
    BY DEF RequestInv
  <1>1. CASE req'[v] = req[v]
    BY <1>1, RequestFrame
  <1>2. CASE Start(v) \/ Continue(v)
    BY <1>2, RequestOwnStart, RequestOwnContinue
  <1>3. CASE Crash(v)
    BY <1>3 DEF CoreInv, TypeOK, Crash, Serve, RequestOK, Idle, PaymentPcs
  <1>4. QED
    BY <1>1, <1>2, <1>3, OtherRequests, ManageRequests DEF Next, CoreInv

-----------------------------------------------------------------------------
(* PaymentInv. *)

LEMMA PaymentInit == Init => PaymentInv
  BY DEF Init, PaymentInv, PaymentOK, PaymentsOwned, PaymentRowsOK, MoneyAccounted,
         Idle, PaymentPcs, NoPayment, Opened

(* The steps that touch neither the payments nor the gateway: each request *)
(* is left alone or becomes one without a payment, and it gives up a       *)
(* charge that is not recorded only as an orphan.                          *)
LEMMA PaymentFrame ==
    ASSUME CoreInv, [Next]_vars, UNCHANGED <<payments, charged>>,
           orphaned \subseteq orphaned',
           \A v \in Workers :
               \/ req'[v] = req[v]
               \/ /\ req'[v].pc \notin PaymentPcs
                  /\ req[v].pc = "succeeded" => req[v].payment \in orphaned'
    PROVE  PaymentInv'
  <1> USE DEF CoreInv, PaymentInv
  <1>1. \A v \in Workers : PaymentOK(v)'
    BY DEF PaymentOK, PaymentPcs
  <1>2. PaymentsOwned'
    BY DEF PaymentsOwned, PaymentPcs
  <1>3. PaymentRowsOK'
    <2>1. BookingsGrow
      BY BookingsGrowNext
    <2>2. \A p \in PaymentIds : Opened(p) => payments[p].booking \in BookingIds
      BY RowByStatus DEF Payment
    <2>3. QED
      BY <2>1, <2>2 DEF PaymentRowsOK, BookingsGrow, Opened, Placed
  <1>4. MoneyAccounted'
    BY DEF MoneyAccounted, InFlight, PaymentPcs
  <1>5. QED
    BY <1>1, <1>2, <1>3, <1>4

LEMMA PaymentOpen ==
    ASSUME CoreInv, NEW w \in Workers, NEW p \in PaymentIds, OpenPayment(w, p)
    PROVE  PaymentInv'
  <1> DEFINE b == req[w].booking
  <1>1. /\ b \in BookingIds
        /\ Placed(b)
        /\ req[w].pc = "open"
        /\ payments[p].status = "none"
        /\ payments \in [PaymentIds -> Payment \cup {NoPayment}]
        /\ req \in [Workers -> Request]
    BY RequestByPc
    DEF CoreInv, TypeOK, OpenPayment, OpenPaymentRequest, RequestInv, RequestOK, Opened
  <1>2. /\ payments'[p] = [booking |-> b, status |-> "pending"]
        /\ \A q \in PaymentIds \ {p} : payments'[q] = payments[q]
        /\ req'[w] = [pc |-> "charge", booking |-> b, payment |-> p]
        /\ \A v \in Workers \ {w} : req'[v] = req[v]
        /\ UNCHANGED <<bookings, charged, orphaned>>
    BY <1>1 DEF OpenPayment, Serve, history
  <1> HIDE DEF b
  <1>3. p \notin charged
    BY <1>1 DEF CoreInv, PaymentInv, MoneyAccounted
  <1>4. \A v \in Workers : req[v].pc \in PaymentPcs =>
            req[v].payment \in PaymentIds /\ req[v].payment # p
    <2> SUFFICES ASSUME NEW v \in Workers, req[v].pc \in PaymentPcs
                 PROVE  req[v].payment \in PaymentIds /\ req[v].payment # p
      OBVIOUS
    <2>1. req[v].payment \in PaymentIds
      BY <1>1, RequestByPc DEF PaymentRequest
    <2>2. payments[req[v].payment].status \in {"pending", "succeeded"}
      <3>1. PaymentOK(v)
        BY DEF CoreInv, PaymentInv
      <3>2. QED
        BY <3>1 DEF PaymentOK, PaymentPcs
    <2>3. QED
      BY <1>1, <2>1, <2>2
  <1>5. \A v \in Workers : PaymentOK(v)'
    BY <1>2, <1>3, <1>4 DEF CoreInv, PaymentInv, PaymentOK, PaymentPcs
  <1>6. PaymentsOwned'
    BY <1>2, <1>4 DEF CoreInv, PaymentInv, PaymentsOwned, PaymentPcs
  <1>7. PaymentRowsOK'
    BY <1>1, <1>2 DEF CoreInv, PaymentInv, PaymentRowsOK, Opened, Placed
  <1>8. MoneyAccounted'
    <2>1. \A q \in PaymentIds : InFlight(q, "succeeded") => InFlight(q, "succeeded")'
      BY <1>1, <1>2 DEF InFlight
    <2>2. QED
      BY <1>2, <1>3, <2>1 DEF CoreInv, PaymentInv, MoneyAccounted
  <1>9. QED
    BY <1>5, <1>6, <1>7, <1>8 DEF PaymentInv

(* The facts about one payment request that the next two lemmas share. *)
LEMMA PaymentHeld ==
    ASSUME CoreInv, NEW w \in Workers, req[w].pc \in PaymentPcs
    PROVE  /\ req[w] \in PaymentRequest
           /\ req[w].booking \in BookingIds
           /\ req[w].payment \in PaymentIds
           /\ Placed(req[w].booking)
           /\ \A v \in Workers \ {w} :
                  req[v].pc \in PaymentPcs =>
                      req[v].payment \in PaymentIds \ {req[w].payment}
  <1>1. \A v \in Workers : req[v].pc \in PaymentPcs => req[v] \in PaymentRequest
    BY RequestByPc DEF CoreInv, TypeOK
  <1>2. QED
    BY <1>1 DEF CoreInv, PaymentRequest, RequestInv, RequestOK, PaymentInv, PaymentsOwned

LEMMA PaymentCharge ==
    ASSUME CoreInv, NEW w \in Workers, ChargeCard(w)
    PROVE  PaymentInv'
  <1>0. PICK p : p = req[w].payment
    OBVIOUS
  <1>1. /\ req[w].pc = "charge"
        /\ req[w].pc \in PaymentPcs
        /\ req \in [Workers -> Request]
        /\ UNCHANGED <<bookings, payments, orphaned>>
    BY DEF CoreInv, TypeOK, ChargeCard, PaymentPcs, history
  <1>2. /\ req[w] \in PaymentRequest
        /\ p \in PaymentIds
        /\ payments[p] = [booking |-> req[w].booking, status |-> "pending"]
        /\ p \notin charged
    BY <1>0, <1>1, PaymentHeld DEF CoreInv, PaymentInv, PaymentOK
  <1>3. /\ \/ req'[w].pc = "succeeded" /\ charged' = charged \cup {p}
           \/ req'[w].pc = "failed" /\ charged' = charged
        /\ req'[w].booking = req[w].booking
        /\ req'[w].payment = p
        /\ \A v \in Workers \ {w} : req'[v] = req[v]
    BY <1>0, <1>1, <1>2 DEF ChargeCard, Serve, PaymentRequest
  <1>4. \A v \in Workers \ {w} :
            req[v].pc \in PaymentPcs => req[v].payment \in PaymentIds \ {p}
    BY <1>0, <1>1, PaymentHeld
  <1>5. \A v \in Workers : PaymentOK(v)'
    BY <1>1, <1>2, <1>3, <1>4 DEF CoreInv, PaymentInv, PaymentOK, PaymentPcs
  <1>6. PaymentsOwned'
    BY <1>3, <1>4 DEF CoreInv, PaymentInv, PaymentsOwned, PaymentPcs
  <1>7. PaymentRowsOK'
    BY <1>1 DEF CoreInv, PaymentInv, PaymentRowsOK, Opened, Placed
  <1>8. MoneyAccounted'
    <2>1. \A q \in PaymentIds : InFlight(q, "succeeded") => InFlight(q, "succeeded")'
      BY <1>1, <1>3 DEF InFlight
    <2>2. p \in charged' => InFlight(p, "succeeded")'
      BY <1>2, <1>3 DEF InFlight
    <2>3. \A q \in PaymentIds \ {p} : q \in charged' <=> q \in charged
      BY <1>3
    <2>4. payments[p].status = "pending"
      BY <1>2
    <2>5. QED
      BY <1>1, <1>2, <2>1, <2>2, <2>3, <2>4 DEF CoreInv, PaymentInv, MoneyAccounted
  <1>9. QED
    BY <1>5, <1>6, <1>7, <1>8 DEF PaymentInv

LEMMA PaymentRecord ==
    ASSUME CoreInv, NEW w \in Workers, RecordPayment(w)
    PROVE  PaymentInv'
  <1>0. PICK p, b : p = req[w].payment /\ b = req[w].booking
    OBVIOUS
  <1>1. /\ req[w].pc \in {"succeeded", "failed"}
        /\ req[w].pc \in PaymentPcs
        /\ req \in [Workers -> Request]
        /\ payments \in [PaymentIds -> Payment \cup {NoPayment}]
        /\ UNCHANGED <<bookings, charged, orphaned>>
    BY DEF CoreInv, TypeOK, RecordPayment, PaymentPcs, history
  <1>2. /\ req[w] \in PaymentRequest
        /\ p \in PaymentIds
        /\ b \in BookingIds
        /\ Placed(b)
        /\ payments[p] = [booking |-> b, status |-> "pending"]
        /\ req[w].pc = "succeeded" <=> p \in charged
    BY <1>0, <1>1, PaymentHeld DEF CoreInv, PaymentInv, PaymentOK
  <1>3. /\ payments'[p] = [booking |-> b, status |-> req[w].pc]
        /\ \A q \in PaymentIds \ {p} : payments'[q] = payments[q]
        /\ \A v \in Workers \ {w} : req'[v] = req[v]
    BY <1>0, <1>1, <1>2 DEF RecordPayment, Serve
  <1>4. \/ /\ req[w].pc = "succeeded"
           /\ req'[w].pc = "confirm"
           /\ req'[w].booking = b
           /\ req'[w].payment = p
        \/ /\ req[w].pc = "failed"
           /\ req'[w].pc = "idle"
    BY <1>0, <1>1, <1>2 DEF RecordPayment, Serve, PaymentRequest, Idle
  <1>5. \A v \in Workers \ {w} :
            req[v].pc \in PaymentPcs => req[v].payment \in PaymentIds \ {p}
    BY <1>0, <1>1, PaymentHeld
  <1>6. \A v \in Workers : PaymentOK(v)'
    BY <1>0, <1>1, <1>2, <1>3, <1>4, <1>5 DEF CoreInv, PaymentInv, PaymentOK, PaymentPcs
  <1>7. PaymentsOwned'
    BY <1>0, <1>3, <1>4, <1>5 DEF CoreInv, PaymentInv, PaymentsOwned, PaymentPcs
  <1>8. PaymentRowsOK'
    BY <1>1, <1>2, <1>3 DEF CoreInv, PaymentInv, PaymentRowsOK, Opened, Placed
  <1>9. MoneyAccounted'
    <2>1. \A q \in PaymentIds \ {p} :
              InFlight(q, "succeeded") => InFlight(q, "succeeded")'
      BY <1>0, <1>3 DEF InFlight
    <2>2. payments'[p].status = req[w].pc
      BY <1>3
    <2>3. QED
      BY <1>1, <1>2, <1>3, <2>1, <2>2 DEF CoreInv, PaymentInv, MoneyAccounted
  <1>10. QED
    BY <1>6, <1>7, <1>8, <1>9 DEF PaymentInv

LEMMA PaymentNext ==
    ASSUME CoreInv, [Next]_vars
    PROVE  PaymentInv'
  <1>0. TypeOK /\ req \in [Workers -> Request]
    BY DEF CoreInv, TypeOK
  <1>1. ASSUME NEW w \in Workers, Start(w)
        PROVE  PaymentInv'
    <2>1. /\ UNCHANGED <<payments, charged, orphaned>>
          /\ req[w] = Idle
      BY <1>1 DEF Start, StartCreate, StartCancel, StartCheckIn, StartCheckOut,
                  StartOverride, StartPayment, tables, history
    <2>2. req'[w].pc \in {"rooms", "write", "notify", "open"}
      BY <1>0, <1>1, StartPc
    <2>3. QED
      BY <1>0, <1>1, <2>1, <2>2, PaymentFrame, OtherRequests DEF Idle, PaymentPcs
  <1>2. ASSUME NEW w \in Workers,
               \/ QueryRooms(w) \/ WriteStatus(w) \/ WriteNotice(w) \/ ConfirmBooking(w)
               \/ \E b \in BookingIds : InsertBooking(w, b)
        PROVE  PaymentInv'
    <2>1. Continue(w)
      BY <1>2 DEF Continue
    <2>2. /\ UNCHANGED <<payments, charged, orphaned>>
          /\ req[w].pc # "succeeded"
      BY <1>2 DEF QueryRooms, WriteStatus, WriteNotice, ConfirmBooking, InsertBooking,
                  tables, history
    <2>3. CASE QueryRooms(w)
      <3>1. req'[w].pc \in {"idle", "insert"}
        BY <1>0, <2>3 DEF QueryRooms, Serve, Idle
      <3>2. QED
        BY <1>0, <2>1, <2>2, <3>1, PaymentFrame, OtherRequests DEF PaymentPcs
    <2>4. CASE WriteStatus(w)
      <3>1. req'[w].pc \in {"idle", "notify"}
        <4> DEFINE n == [booking |-> req[w].booking, title |-> "Checked In"]
        <4>1. req'[w] = Idle \/ req'[w] = [pc |-> "notify", notice |-> n]
          BY <1>0, <2>4 DEF WriteStatus, AfterWrite, Serve
        <4> HIDE DEF n
        <4>2. QED
          BY <4>1 DEF Idle
      <3>2. QED
        BY <1>0, <2>1, <2>2, <3>1, PaymentFrame, OtherRequests DEF PaymentPcs
    <2>5. CASE req'[w] = Idle
      BY <1>0, <2>1, <2>2, <2>5, PaymentFrame, OtherRequests DEF PaymentPcs, Idle
    <2>6. QED
      BY <1>0, <1>2, <2>3, <2>4, <2>5
      DEF WriteNotice, ConfirmBooking, InsertBooking, Serve
  <1>3. ASSUME NEW w \in Workers, Crash(w)
        PROVE  PaymentInv'
    <2>1. /\ UNCHANGED <<payments, charged>>
          /\ orphaned \subseteq orphaned'
          /\ req[w].pc = "succeeded" => req[w].payment \in orphaned'
          /\ req'[w].pc = "idle"
      BY <1>0, <1>3 DEF Crash, Serve, Idle, tables, PaymentPcs
    <2>2. QED
      BY <1>0, <1>3, <2>1, PaymentFrame, OtherRequests DEF PaymentPcs
  <1>4. ASSUME Manage \/ UNCHANGED vars
        PROVE  PaymentInv'
    <2>1. UNCHANGED <<payments, charged, orphaned, req>>
      BY <1>4 DEF Manage, CreateBlackout, DeleteBlackout, DeactivateRoom, ActivateRoom,
                  vars, tables, history
    <2>2. QED
      BY <2>1, PaymentFrame
  <1>5. QED
    BY <1>1, <1>2, <1>3, <1>4, PaymentOpen, PaymentCharge, PaymentRecord
    DEF Next, Continue

-----------------------------------------------------------------------------
(* Every behaviour keeps the rows well formed and the payments accounted.  *)
THEOREM CoreInvariant == Spec => []CoreInv
  <1>1. Init => CoreInv
    BY TypeInit, RequestInit, PaymentInit DEF CoreInv
  <1>2. CoreInv /\ [Next]_vars => CoreInv'
    BY TypeNext, RequestNext, PaymentNext DEF CoreInv
  <1>3. QED
    BY <1>1, <1>2, PTL DEF Spec

(* The tables and the requests always have their types. *)
THEOREM TypeCorrect == Spec => []TypeOK
  BY CoreInvariant, PTL DEF CoreInv

(* The payments table and the gateway agree, whatever crashes. *)
THEOREM MoneyIsAccounted == Spec => []MoneyAccounted
  BY CoreInvariant, PTL DEF CoreInv, PaymentInv

-----------------------------------------------------------------------------
(* StayFunded.  A request that is about to complete a booking or to tell   *)
(* the guest about it read a status that was already funded.               *)

Backed == Funded \cup overridden

FundedOK(w) ==
    LET r == req[w] IN
    /\ r.pc = "write" /\ r.by = "desk" => r.booking \in Backed
    /\ r.pc = "notify" => r.notice.booking \in Backed

FundedInv == StayFunded /\ \A w \in Workers : FundedOK(w)

(* A succeeded payment stays succeeded, so what is backed stays backed. *)
LEMMA BackedGrows ==
    ASSUME CoreInv, [Next]_vars
    PROVE  Backed \subseteq Backed'
  <1>1. overridden \subseteq overridden'
    BY BookingsGrowNext DEF BookingsGrow
  <1>2. ASSUME NEW p \in PaymentIds, payments[p].status = "succeeded"
        PROVE  payments'[p] = payments[p]
    <2>1. ASSUME NEW w \in Workers, NEW q \in PaymentIds, OpenPayment(w, q)
          PROVE  payments'[p] = payments[p]
      BY <1>2, <2>1 DEF OpenPayment, Opened, CoreInv, TypeOK
    <2>2. ASSUME NEW w \in Workers, RecordPayment(w)
          PROVE  payments'[p] = payments[p]
      <3>1. payments[req[w].payment] = [booking |-> req[w].booking, status |-> "pending"]
        BY <2>2 DEF RecordPayment, CoreInv, PaymentInv, PaymentOK
      <3>2. req[w].payment # p
        BY <1>2, <3>1
      <3>3. QED
        BY <2>2, <3>2 DEF RecordPayment, CoreInv, TypeOK
    <2>3. ASSUME UNCHANGED payments
          PROVE  payments'[p] = payments[p]
      BY <2>3
    <2>4. ASSUME NEW w \in Workers,
                 \/ Start(w) \/ QueryRooms(w) \/ WriteStatus(w) \/ WriteNotice(w)
                 \/ ChargeCard(w) \/ ConfirmBooking(w) \/ Crash(w)
                 \/ \E b \in BookingIds : InsertBooking(w, b)
          PROVE  UNCHANGED payments
      BY <2>4 DEF Start, StartCreate, StartCancel, StartCheckIn, StartCheckOut,
                  StartOverride, StartPayment, QueryRooms, WriteStatus, WriteNotice,
                  ChargeCard, ConfirmBooking, Crash, InsertBooking, tables
    <2>5. ASSUME Manage \/ UNCHANGED vars
          PROVE  UNCHANGED payments
      BY <2>5 DEF Manage, CreateBlackout, DeleteBlackout, DeactivateRoom, ActivateRoom,
                  vars, tables
    <2>6. QED
      BY <2>1, <2>2, <2>3, <2>4, <2>5 DEF Next, Continue
  <1>3. QED
    BY <1>1, <1>2 DEF Backed, Funded

LEMMA FundedInit == Init => FundedInv
  BY DEF Init, FundedInv, StayFunded, FundedOK, NoBooking, Idle

(* The steps that leave rows and notices alone and start neither a write   *)
(* nor a notification.                                                     *)
LEMMA FundedFrame ==
    ASSUME CoreInv, FundedInv, [Next]_vars, UNCHANGED <<bookings, notices>>,
           \A v \in Workers :
               req'[v] = req[v] \/ req'[v].pc \notin {"write", "notify"}
    PROVE  FundedInv'
  BY BackedGrows DEF FundedInv, StayFunded, FundedOK, Backed

LEMMA FundedNext ==
    ASSUME CoreInv, FundedInv, [Next]_vars
    PROVE  FundedInv'
  <1>0. /\ TypeOK
        /\ req \in [Workers -> Request]
        /\ Backed \subseteq Backed'
        /\ StayFunded
    BY BackedGrows DEF CoreInv, TypeOK, FundedInv
  <1>1. ASSUME NEW w \in Workers, NEW b \in BookingIds,
               StartCancel(w, b) \/ \E s \in OverrideStatuses : StartOverride(w, b, s)
        PROVE  FundedInv'
    <2>1. UNCHANGED <<bookings, notices>>
      BY <1>1 DEF StartCancel, StartOverride, tables
    <2>2. req'[w].pc = "write" /\ req'[w].by # "desk"
      BY <1>0, <1>1 DEF StartCancel, StartOverride, StartWrite, Serve
    <2>3. Start(w)
      BY <1>1 DEF Start
    <2>4. QED
      BY <1>0, <2>1, <2>2, <2>3, OtherRequests DEF FundedInv, StayFunded, FundedOK, Backed
  <1>2. ASSUME NEW w \in Workers, NEW b \in BookingIds, StartCheckIn(w, b)
        PROVE  FundedInv'
    <2>1. UNCHANGED <<bookings, notices>> /\ b \in Backed
      BY <1>0, <1>2 DEF StartCheckIn, tables, StayFunded, Backed
    <2>2. req'[w].pc = "write" /\ req'[w].booking = b
      BY <1>0, <1>2 DEF StartCheckIn, StartWrite, Serve
    <2>3. Start(w)
      BY <1>2 DEF Start
    <2>4. QED
      BY <1>0, <2>1, <2>2, <2>3, OtherRequests DEF FundedInv, StayFunded, FundedOK, Backed
  <1>3. ASSUME NEW w \in Workers, NEW b \in BookingIds, StartCheckOut(w, b)
        PROVE  FundedInv'
    <2> DEFINE n == [booking |-> b, title |-> "Checked Out"]
    <2>1. UNCHANGED <<bookings, notices>> /\ b \in Backed
      BY <1>0, <1>3 DEF StartCheckOut, tables, StayFunded, Backed
    <2>2. req'[w] = [pc |-> "notify", notice |-> n] /\ n.booking = b
      BY <1>0, <1>3 DEF StartCheckOut, Serve
    <2> HIDE DEF n
    <2>3. req'[w].pc = "notify" /\ req'[w].notice.booking = b
      BY <2>2
    <2>4. Start(w)
      BY <1>3 DEF Start
    <2>5. QED
      BY <1>0, <2>1, <2>3, <2>4, OtherRequests DEF FundedInv, StayFunded, FundedOK, Backed
  <1>4. ASSUME NEW w \in Workers,
               \/ \E r \in Rooms, s \in Stays : StartCreate(w, r, s)
               \/ \E b \in BookingIds : StartPayment(w, b)
        PROVE  FundedInv'
    <2>1. UNCHANGED <<bookings, notices>>
      BY <1>4 DEF StartCreate, StartPayment, tables
    <2>2. req'[w].pc \notin {"write", "notify"}
      <3>1. CASE \E b \in BookingIds : StartPayment(w, b)
        BY <1>0, <3>1 DEF StartPayment, Serve
      <3>2. ASSUME NEW r \in Rooms, NEW s \in Stays, StartCreate(w, r, s)
            PROVE  req'[w].pc = "rooms"
        <4> DEFINE saw == [bookings |-> {}, closures |-> HotelWide(blackouts)]
        <4>1. req'[w] = [pc |-> "rooms", room |-> r, stay |-> s, saw |-> saw]
          BY <1>0, <3>2 DEF StartCreate, Serve
        <4> HIDE DEF saw
        <4>2. QED
          BY <4>1
      <3>3. QED
        BY <1>4, <3>1, <3>2
    <2>3. Start(w)
      BY <1>4 DEF Start
    <2>4. QED
      BY <1>0, <2>1, <2>2, <2>3, OtherRequests, FundedFrame
  <1>5. ASSUME NEW w \in Workers, NEW c \in BookingIds, InsertBooking(w, c)
        PROVE  FundedInv'
    <2>1. /\ \A b \in BookingIds \ {c} : bookings'[b] = bookings[b]
          /\ bookings'[c].status = "pending"
          /\ UNCHANGED notices
      BY <1>0, <1>5 DEF InsertBooking, TypeOK
    <2>2. req'[w] = Idle /\ Continue(w)
      BY <1>0, <1>5 DEF InsertBooking, Serve, Continue
    <2>3. QED
      BY <1>0, <2>1, <2>2, OtherRequests
      DEF FundedInv, StayFunded, FundedOK, Backed, Idle
  <1>6. ASSUME NEW w \in Workers, WriteStatus(w)
        PROVE  FundedInv'
    <2>1. /\ req[w] \in WriteRequest
          /\ Placed(req[w].booking)
          /\ RequestOK(w)
          /\ FundedOK(w)
          /\ Continue(w)
          /\ UNCHANGED notices
      BY <1>0, <1>6, RequestByPc
      DEF WriteStatus, CoreInv, RequestInv, RequestOK, FundedInv, Continue
    <2>2. PICK c \in BookingIds, t \in BookingStatus : c = req[w].booking /\ t = req[w].target
      BY <2>1 DEF WriteRequest
    <2>3. /\ \A b \in BookingIds \ {c} : bookings'[b] = bookings[b]
          /\ \/ bookings'[c] = bookings[c]
             \/ /\ bookings'[c].status = t
                /\ req[w].by = "staff" => c \in overridden'
      <3>1. CASE req[w].loaded = req[w].target
        BY <1>6, <3>1 DEF WriteStatus
      <3>2. CASE req[w].loaded # req[w].target
        BY <1>0, <1>6, <2>1, <2>2, <3>2, StatusUpdate DEF WriteStatus
      <3>3. QED
        BY <3>1, <3>2
    <2>4. bookings'[c].status \in {"confirmed", "completed"} => c \in Backed'
      <3>1. CASE bookings'[c] = bookings[c]
        BY <1>0, <3>1 DEF StayFunded, Backed
      <3>2. CASE bookings'[c].status = t /\ req[w].by = "staff"
        BY <2>3, <3>2, <1>0 DEF StayFunded, Backed
      <3>3. CASE bookings'[c].status = t /\ req[w].by = "guest"
        BY <1>6, <2>1, <2>2, <3>3 DEF RequestOK, WriteStatus
      <3>4. CASE bookings'[c].status = t /\ req[w].by = "desk"
        BY <1>0, <1>6, <2>1, <2>2, <3>4 DEF FundedOK, WriteStatus
      <3>5. QED
        BY <2>1, <2>3, <3>1, <3>2, <3>3, <3>4 DEF WriteRequest
    <2>5. StayFunded'
      BY <1>0, <2>1, <2>3, <2>4 DEF StayFunded, Backed
    <2>6. FundedOK(w)'
      <3> DEFINE n == [booking |-> c, title |-> "Checked In"]
      <3>1. \/ req'[w] = Idle
            \/ req[w].by = "desk" /\ req'[w] = [pc |-> "notify", notice |-> n]
        BY <1>0, <1>6, <2>2 DEF WriteStatus, AfterWrite, Serve
      <3>2. n.booking = c
        OBVIOUS
      <3> HIDE DEF n
      <3>3. \/ req'[w].pc = "idle"
            \/ req[w].by = "desk" /\ req'[w].pc = "notify" /\ req'[w].notice.booking = c
        BY <3>1, <3>2 DEF Idle
      <3>4. req[w].by = "desk" => c \in Backed'
        BY <1>0, <1>6, <2>1, <2>2 DEF FundedOK, WriteStatus
      <3>5. QED
        BY <3>3, <3>4 DEF FundedOK
    <2>7. QED
      BY <1>0, <2>1, <2>5, <2>6, OtherRequests DEF FundedInv, FundedOK
  <1>7. ASSUME NEW w \in Workers, WriteNotice(w)
        PROVE  FundedInv'
    <2>1. /\ FundedOK(w)
          /\ Continue(w)
          /\ UNCHANGED bookings
          /\ req'[w] = Idle
      BY <1>0, <1>7 DEF WriteNotice, FundedInv, Continue, Serve
    <2>2. req[w].notice.booking \in Backed
      BY <1>7, <2>1 DEF FundedOK, WriteNotice
    <2>3. notices' = notices \cup {req[w].notice}
      BY <1>7 DEF WriteNotice
    <2>4. StayFunded'
      BY <1>0, <2>1, <2>2, <2>3 DEF StayFunded, Backed
    <2>5. QED
      BY <1>0, <2>1, <2>4, OtherRequests DEF FundedInv, FundedOK, Idle
  <1>8. ASSUME NEW w \in Workers, ConfirmBooking(w)
        PROVE  FundedInv'
    <2>1. /\ req[w].pc \in PaymentPcs
          /\ PaymentOK(w)
          /\ Continue(w)
          /\ UNCHANGED notices
          /\ req'[w] = Idle
      BY <1>0, <1>8 DEF ConfirmBooking, CoreInv, PaymentInv, Continue, Serve, PaymentPcs
    <2>2. PICK c \in BookingIds : c = req[w].booking
      BY <2>1, PaymentHeld
    <2>3. c \in Backed
      BY <1>8, <2>1, <2>2, PaymentHeld DEF ConfirmBooking, PaymentOK, Backed, Funded
    <2>4. \A b \in BookingIds \ {c} : bookings'[b] = bookings[b]
      BY <1>8, <2>2 DEF ConfirmBooking, CoreInv, TypeOK
    <2>5. StayFunded'
      BY <1>0, <2>1, <2>3, <2>4 DEF StayFunded, Backed
    <2>6. QED
      BY <1>0, <2>1, <2>5, OtherRequests DEF FundedInv, FundedOK, Idle
  <1>9. ASSUME NEW w \in Workers,
               \/ QueryRooms(w) \/ ChargeCard(w) \/ RecordPayment(w) \/ Crash(w)
               \/ \E p \in PaymentIds : OpenPayment(w, p)
        PROVE  FundedInv'
    <2>1. UNCHANGED <<bookings, notices>>
      BY <1>9 DEF QueryRooms, ChargeCard, RecordPayment, Crash, OpenPayment, tables
    <2>2. Continue(w) \/ Crash(w)
      BY <1>9 DEF Continue
    <2>3. ASSUME ChargeCard(w) \/ RecordPayment(w)
          PROVE  req'[w].pc \notin {"write", "notify"}
      <3>1. req[w] \in PaymentRequest
        BY <2>3, PaymentHeld DEF ChargeCard, RecordPayment, PaymentPcs
      <3>2. QED
        BY <1>0, <2>3, <3>1 DEF ChargeCard, RecordPayment, PaymentRequest, Serve, Idle
    <2>4. ASSUME QueryRooms(w) \/ Crash(w) \/ \E p \in PaymentIds : OpenPayment(w, p)
          PROVE  req'[w].pc \notin {"write", "notify"}
      BY <1>0, <2>4 DEF QueryRooms, Crash, OpenPayment, Serve, Idle
    <2>5. QED
      BY <1>0, <1>9, <2>1, <2>2, <2>3, <2>4, OtherRequests, FundedFrame
  <1>10. ASSUME Manage \/ UNCHANGED vars
         PROVE  FundedInv'
    <2>1. UNCHANGED <<bookings, notices, req>>
      BY <1>10 DEF Manage, CreateBlackout, DeleteBlackout, DeactivateRoom, ActivateRoom,
                   vars, tables
    <2>2. QED
      BY <2>1, FundedFrame
  <1>11. QED
    BY <1>1, <1>2, <1>3, <1>4, <1>5, <1>6, <1>7, <1>8, <1>9, <1>10
    DEF Next, Start, Continue

(* No booking is confirmed, completed or announced without a captured      *)
(* payment or a staff override.                                            *)
THEOREM StaysAreFunded == Spec => []StayFunded
  <1>1. Init => FundedInv
    BY FundedInit
  <1>2. CoreInv /\ FundedInv /\ [Next]_vars => FundedInv'
    BY FundedNext
  <1>3. QED
    BY <1>1, <1>2, CoreInvariant, PTL DEF Spec, FundedInv

-----------------------------------------------------------------------------

(* The statements that write the bookings or payments tables, and all the  *)
(* others, which leave both and their history alone.                       *)
LEMMA LedgerSteps ==
    ASSUME [Next]_vars
    PROVE  \/ \E w \in Workers, b \in BookingIds : InsertBooking(w, b)
           \/ \E w \in Workers, p \in PaymentIds : OpenPayment(w, p)
           \/ \E w \in Workers : WriteStatus(w) \/ RecordPayment(w) \/ ConfirmBooking(w)
           \/ \E w \in Workers : /\ \/ Start(w) \/ Crash(w) \/ QueryRooms(w)
                                    \/ WriteNotice(w) \/ ChargeCard(w)
                                 /\ UNCHANGED <<bookings, payments, confirmed, overridden>>
           \/ UNCHANGED <<bookings, payments, confirmed, overridden, req>>
  <1>1. ASSUME NEW w \in Workers,
               \/ Start(w) \/ Crash(w) \/ QueryRooms(w) \/ WriteNotice(w) \/ ChargeCard(w)
        PROVE  UNCHANGED <<bookings, payments, confirmed, overridden>>
    BY <1>1 DEF Start, StartCreate, StartCancel, StartCheckIn, StartCheckOut,
                StartOverride, StartPayment, Crash, QueryRooms, WriteNotice,
                ChargeCard, tables, history
  <1>2. ASSUME Manage \/ UNCHANGED vars
        PROVE  UNCHANGED <<bookings, payments, confirmed, overridden, req>>
    BY <1>2 DEF Manage, CreateBlackout, DeleteBlackout, DeactivateRoom, ActivateRoom,
                vars, tables, history
  <1>3. QED
    BY <1>1, <1>2 DEF Next, Continue

-----------------------------------------------------------------------------
(* Completed only from a confirmation.  The status a check-in loaded was   *)
(* "confirmed", so the booking is one that has been confirmed, whatever    *)
(* has been written over it since.                                         *)

ConfirmedRows ==
    \A b \in BookingIds : bookings[b].status = "confirmed" => b \in confirmed

CheckInOK(w) ==
    req[w].pc = "write" /\ req[w].by = "desk" => req[w].booking \in confirmed

ConfirmedInv == ConfirmedRows /\ \A w \in Workers : CheckInOK(w)

LEMMA ConfirmedInit == Init => ConfirmedInv
  BY DEF Init, ConfirmedInv, ConfirmedRows, CheckInOK, NoBooking, Idle

LEMMA ConfirmedFrame ==
    ASSUME ConfirmedInv, confirmed \subseteq confirmed', ConfirmedRows',
           \A v \in Workers :
               \/ req'[v] = req[v]
               \/ req'[v].pc = "write" /\ req'[v].by = "desk" =>
                      req'[v].booking \in confirmed
    PROVE  ConfirmedInv'
  BY DEF ConfirmedInv, CheckInOK

(* Only a check-in that found "confirmed" becomes a write of the desk.     *)
LEMMA DeskWrites ==
    ASSUME CoreInv, ConfirmedInv, NEW w \in Workers, Start(w) \/ Continue(w) \/ Crash(w)
    PROVE  \A v \in Workers :
               \/ req'[v] = req[v]
               \/ req'[v].pc = "write" /\ req'[v].by = "desk" =>
                      req'[v].booking \in confirmed
  <1>0. TypeOK /\ req \in [Workers -> Request]
    BY DEF CoreInv, TypeOK
  <1>1. \A v \in Workers \ {w} : req'[v] = req[v]
    BY <1>0, OtherRequests
  <1>2. ASSUME NEW b \in BookingIds, StartCheckIn(w, b)
        PROVE  req'[w].booking \in confirmed
    <2>1. b \in confirmed
      BY <1>2 DEF StartCheckIn, ConfirmedInv, ConfirmedRows
    <2>2. req'[w].booking = b
      BY <1>0, <1>2 DEF StartCheckIn, StartWrite, Serve
    <2>3. QED
      BY <2>1, <2>2
  <1>3. ASSUME NEW b \in BookingIds,
               \/ StartCancel(w, b)
               \/ \E s \in OverrideStatuses : StartOverride(w, b, s)
        PROVE  req'[w].by # "desk"
    BY <1>0, <1>3 DEF StartCancel, StartOverride, StartWrite, Serve
  <1>4. ASSUME NEW b \in BookingIds, StartCheckOut(w, b) \/ StartPayment(w, b)
        PROVE  req'[w].pc # "write"
    <2>1. PICK n : \/ req'[w] = [pc |-> "notify", notice |-> n]
                   \/ req'[w] = [pc |-> "open", booking |-> b]
      BY <1>0, <1>4 DEF StartCheckOut, StartPayment, Serve
    <2>2. QED
      BY <2>1
  <1>5. ASSUME NEW r \in Rooms, NEW s \in Stays, StartCreate(w, r, s)
        PROVE  req'[w].pc # "write"
    <2> DEFINE saw == [bookings |-> {}, closures |-> HotelWide(blackouts)]
    <2>1. req'[w] = [pc |-> "rooms", room |-> r, stay |-> s, saw |-> saw]
      BY <1>0, <1>5 DEF StartCreate, Serve
    <2> HIDE DEF saw
    <2>2. QED
      BY <2>1
  <1>6. ASSUME Continue(w) \/ Crash(w)
        PROVE  req'[w].pc # "write"
    <2>1. ASSUME ChargeCard(w) \/ RecordPayment(w)
          PROVE  req'[w].pc # "write"
      <3>1. req[w] \in PaymentRequest
        BY <2>1, PaymentHeld DEF ChargeCard, RecordPayment, PaymentPcs
      <3>2. QED
        BY <1>0, <2>1, <3>1 DEF ChargeCard, RecordPayment, PaymentRequest, Serve, Idle
    <2>2. ASSUME WriteStatus(w)
          PROVE  req'[w].pc # "write"
      BY <1>0, <2>2 DEF WriteStatus, AfterWrite, Serve, Idle
    <2>3. ASSUME QueryRooms(w)
          PROVE  req'[w].pc # "write"
      <3>1. PICK saw : \/ req'[w] = Idle
                       \/ req'[w] = [pc |-> "insert", room |-> req[w].room,
                                     stay |-> req[w].stay, saw |-> saw]
        BY <1>0, <2>3 DEF QueryRooms, Serve
      <3>2. QED
        BY <3>1 DEF Idle
    <2>4. ASSUME \/ WriteNotice(w) \/ ConfirmBooking(w) \/ Crash(w)
                 \/ \E b \in BookingIds : InsertBooking(w, b)
                 \/ \E p \in PaymentIds : OpenPayment(w, p)
          PROVE  req'[w].pc # "write"
      BY <1>0, <2>4 DEF WriteNotice, ConfirmBooking, Crash, InsertBooking, OpenPayment,
                        Serve, Idle
    <2>5. QED
      BY <1>6, <2>1, <2>2, <2>3, <2>4 DEF Continue
  <1>7. QED
    BY <1>1, <1>2, <1>3, <1>4, <1>5, <1>6 DEF Start

LEMMA ConfirmedNext ==
    ASSUME CoreInv, ConfirmedInv, [Next]_vars
    PROVE  ConfirmedInv'
  <1>0. TypeOK /\ ConfirmedRows
    BY DEF CoreInv, ConfirmedInv
  <1>1. ASSUME NEW w \in Workers, NEW b \in BookingIds, InsertBooking(w, b)
        PROVE  ConfirmedInv'
    <2>1. /\ bookings'[b].status = "pending"
          /\ \A c \in BookingIds \ {b} : bookings'[c] = bookings[c]
          /\ UNCHANGED confirmed
          /\ Continue(w)
      BY <1>0, <1>1 DEF TypeOK, InsertBooking, Continue
    <2>2. ConfirmedRows'
      BY <1>0, <2>1 DEF ConfirmedRows
    <2>3. QED
      BY <2>1, <2>2, DeskWrites, ConfirmedFrame
  <1>2. ASSUME NEW w \in Workers, WriteStatus(w)
        PROVE  ConfirmedInv'
    <2>1. /\ req[w] \in WriteRequest
          /\ Placed(req[w].booking)
          /\ Continue(w)
      BY <1>2, RequestByPc
      DEF WriteStatus, CoreInv, TypeOK, RequestInv, RequestOK, Continue
    <2>2. PICK c \in BookingIds, t \in BookingStatus : c = req[w].booking /\ t = req[w].target
      BY <2>1 DEF WriteRequest
    <2>3. confirmed \subseteq confirmed'
      BY <1>2 DEF WriteStatus
    <2>4. ConfirmedRows'
      <3>1. CASE req[w].loaded = req[w].target
        BY <1>0, <1>2, <3>1 DEF WriteStatus, ConfirmedRows
      <3>2. CASE req[w].loaded # req[w].target
        <4>1. /\ bookings' = [bookings EXCEPT ![c].status = t]
              /\ confirmed' = IF t = "confirmed" THEN confirmed \cup {c} ELSE confirmed
          BY <1>2, <2>2, <3>2 DEF WriteStatus
        <4>2. QED
          BY <1>0, <2>1, <2>2, <4>1, StatusUpdate DEF ConfirmedRows
      <3>3. QED
        BY <3>1, <3>2
    <2>5. QED
      BY <2>1, <2>3, <2>4, DeskWrites, ConfirmedFrame
  <1>3. ASSUME NEW w \in Workers, ConfirmBooking(w)
        PROVE  ConfirmedInv'
    <2>1. req[w].pc \in PaymentPcs /\ Continue(w)
      BY <1>3 DEF ConfirmBooking, Continue, PaymentPcs
    <2>2. PICK c \in BookingIds : c = req[w].booking
      BY <2>1, PaymentHeld
    <2>3. /\ confirmed' = confirmed \cup {c}
          /\ \A b \in BookingIds \ {c} : bookings'[b] = bookings[b]
      BY <1>0, <1>3, <2>2 DEF ConfirmBooking, TypeOK
    <2>4. ConfirmedRows'
      BY <1>0, <2>3 DEF ConfirmedRows
    <2>5. QED
      BY <2>1, <2>3, <2>4, DeskWrites, ConfirmedFrame
  <1>4. ASSUME NEW w \in Workers, Start(w) \/ Continue(w) \/ Crash(w),
               UNCHANGED <<bookings, confirmed>>
        PROVE  ConfirmedInv'
    <2>1. ConfirmedRows'
      BY <1>0, <1>4 DEF ConfirmedRows
    <2>2. QED
      BY <1>4, <2>1, DeskWrites, ConfirmedFrame
  <1>5. ASSUME UNCHANGED <<bookings, confirmed, req>>
        PROVE  ConfirmedInv'
    BY <1>5 DEF ConfirmedInv, ConfirmedRows, CheckInOK
  <1>6. ASSUME NEW w \in Workers,
               RecordPayment(w) \/ \E p \in PaymentIds : OpenPayment(w, p)
        PROVE  ConfirmedInv'
    <2>1. UNCHANGED <<bookings, confirmed>> /\ Continue(w)
      BY <1>6 DEF RecordPayment, OpenPayment, history, Continue
    <2>2. QED
      BY <1>4, <2>1
  <1>7. ASSUME NEW w \in Workers,
               \/ Start(w) \/ Crash(w) \/ QueryRooms(w) \/ WriteNotice(w) \/ ChargeCard(w),
               UNCHANGED <<bookings, payments, confirmed, overridden>>
        PROVE  ConfirmedInv'
    BY <1>4, <1>7 DEF Continue
  <1>8. QED
    BY <1>1, <1>2, <1>3, <1>5, <1>6, <1>7, LedgerSteps

-----------------------------------------------------------------------------
(* The ledger. *)

Statuses == [b \in BookingIds |-> bookings[b].status]

Due == {p \in PaymentIds : InFlight(p, "confirm")}

(* A write of one status is the ledger's SetStatus. *)
LEMMA OneStatus ==
    ASSUME NEW c \in BookingIds, NEW t, bookings'[c].status = t,
           \A b \in BookingIds \ {c} : bookings'[b] = bookings[b]
    PROVE  Ledger!SetStatus(c, t)
  BY DEF Ledger!SetStatus

LEMMA StatusesUpdate ==
    ASSUME TypeOK, NEW c \in BookingIds, Placed(c), NEW t \in BookingStatus,
           bookings' = [bookings EXCEPT ![c].status = t]
    PROVE  Ledger!SetStatus(c, t)
  BY StatusUpdate, OneStatus

(* A payment that is not succeeded before or after a step is not captured  *)
(* by it.                                                                  *)
LEMMA CapturedSame ==
    ASSUME NEW p \in PaymentIds,
           payments[p].status # "succeeded", payments'[p].status # "succeeded",
           \A q \in PaymentIds \ {p} : payments'[q] = payments[q]
    PROVE  CapturedFor' = CapturedFor
  <1>1. ASSUME NEW q \in PaymentIds, NEW b \in BookingIds
        PROVE  payments'[q] = [booking |-> b, status |-> "succeeded"] <=>
               payments[q] = [booking |-> b, status |-> "succeeded"]
    BY <1>1
  <1>2. QED
    BY <1>1 DEF CapturedFor

(* The payments whose confirmation is due change only with the request     *)
(* that makes the step, and by its own payment.                            *)
LEMMA DueSame ==
    ASSUME CoreInv, NEW w \in Workers, Start(w) \/ Continue(w) \/ Crash(w),
           req[w].pc # "confirm", req'[w].pc # "confirm"
    PROVE  Due' = Due
  <1>1. \A v \in Workers \ {w} : req'[v] = req[v]
    BY OtherRequests DEF CoreInv, TypeOK
  <1>2. QED
    BY <1>1 DEF Due, InFlight

LEMMA DueLess ==
    ASSUME CoreInv, NEW w \in Workers, Start(w) \/ Continue(w) \/ Crash(w),
           req[w].pc = "confirm", req'[w].pc # "confirm"
    PROVE  req[w].payment \in Due /\ Due' = Due \ {req[w].payment}
  <1>1. \A v \in Workers \ {w} : req'[v] = req[v]
    BY OtherRequests DEF CoreInv, TypeOK
  <1>2. req[w].payment \in PaymentIds
    BY PaymentHeld DEF PaymentPcs
  <1>3. \A v \in Workers \ {w} : req[v].pc = "confirm" => req[v].payment # req[w].payment
    BY DEF CoreInv, PaymentInv, PaymentsOwned, PaymentPcs
  <1>4. req[w].payment \in Due
    BY <1>2 DEF Due, InFlight
  <1>5. ASSUME NEW p \in PaymentIds
        PROVE  InFlight(p, "confirm")' <=> InFlight(p, "confirm") /\ p # req[w].payment
    BY <1>1, <1>3 DEF InFlight
  <1>6. QED
    BY <1>4, <1>5 DEF Due

LEMMA LedgerInsert ==
    ASSUME CoreInv, NEW w \in Workers, NEW b \in BookingIds, InsertBooking(w, b)
    PROVE  Ledger!Place(b)
  <1>1. /\ bookings[b].status = "none"
        /\ bookings'[b].status = "pending"
        /\ \A c \in BookingIds \ {b} : bookings'[c] = bookings[c]
        /\ UNCHANGED <<payments, confirmed, overridden>>
    BY DEF CoreInv, TypeOK, InsertBooking, Placed
  <1>2. CapturedFor' = CapturedFor
    BY <1>1 DEF CapturedFor
  <1>3. Due' = Due
    <2>1. req[w].pc # "confirm" /\ req'[w] = Idle /\ Continue(w)
      BY DEF CoreInv, TypeOK, InsertBooking, Serve, Continue
    <2>2. QED
      BY <2>1, DueSame DEF Idle
  <1>4. QED
    BY <1>1, <1>2, <1>3, OneStatus DEF Ledger!Place, Ledger!Placed, Due

LEMMA LedgerOpen ==
    ASSUME CoreInv, NEW w \in Workers, NEW p \in PaymentIds, OpenPayment(w, p)
    PROVE  UNCHANGED Ledger!vars
  <1>1. /\ payments[p].status = "none"
        /\ payments'[p].status = "pending"
        /\ \A q \in PaymentIds \ {p} : payments'[q] = payments[q]
        /\ UNCHANGED <<bookings, confirmed, overridden>>
    BY DEF CoreInv, TypeOK, OpenPayment, Opened, history
  <1>2. CapturedFor' = CapturedFor
    BY <1>1, CapturedSame
  <1>3. Due' = Due
    <2>1. req[w].pc # "confirm" /\ req'[w].pc = "charge" /\ Continue(w)
      BY DEF CoreInv, TypeOK, OpenPayment, Serve, Continue
    <2>2. QED
      BY <2>1, DueSame
  <1>4. QED
    BY <1>1, <1>2, <1>3 DEF Ledger!vars, Due

LEMMA LedgerWrite ==
    ASSUME CoreInv, ConfirmedInv, NEW w \in Workers, WriteStatus(w)
    PROVE  \/ UNCHANGED Ledger!vars
           \/ \E b \in BookingIds :
                 \/ Ledger!Cancel(b) \/ Ledger!Complete(b)
                 \/ \E s \in BookingStatus : Ledger!Override(b, s)
  <1>1. /\ req[w] \in WriteRequest
        /\ Placed(req[w].booking)
        /\ RequestOK(w)
        /\ CheckInOK(w)
        /\ req[w].pc = "write"
        /\ UNCHANGED payments
    BY RequestByPc DEF CoreInv, TypeOK, RequestInv, RequestOK, ConfirmedInv, WriteStatus
  <1>2. PICK c \in BookingIds, t \in BookingStatus : c = req[w].booking /\ t = req[w].target
    BY <1>1 DEF WriteRequest
  <1>3. CapturedFor' = CapturedFor
    BY <1>1 DEF CapturedFor
  <1>4. Due' = Due
    <2>1. req'[w].pc # "confirm" /\ Continue(w)
      BY DEF CoreInv, TypeOK, WriteStatus, AfterWrite, Serve, Idle, Continue
    <2>2. QED
      BY <1>1, <2>1, DueSame
  <1>5. CASE req[w].loaded = req[w].target
    BY <1>3, <1>4, <1>5 DEF WriteStatus, Ledger!vars, Due
  <1>6. CASE req[w].loaded # req[w].target
    <2>1. /\ bookings' = [bookings EXCEPT ![c].status = t]
          /\ confirmed' = IF t = "confirmed" THEN confirmed \cup {c} ELSE confirmed
          /\ overridden' = IF req[w].by = "staff" THEN overridden \cup {c} ELSE overridden
      BY <1>2, <1>6 DEF WriteStatus
    <2>2. Ledger!SetStatus(c, t)
      BY <1>1, <1>2, <2>1, StatusesUpdate DEF CoreInv
    <2>3. Statuses[c] # "none"
      BY <1>1, <1>2 DEF Placed, Statuses
    <2>4. CASE req[w].by = "guest"
      <3>1. t = "cancelled"
        BY <1>1, <1>2, <2>4 DEF RequestOK
      <3>2. Ledger!Cancel(c)
        BY <1>3, <1>4, <2>1, <2>2, <2>3, <2>4, <3>1
        DEF Ledger!Cancel, Ledger!Placed, Statuses, Due
      <3>3. QED
        BY <3>2
    <2>5. CASE req[w].by = "desk"
      <3>1. t = "completed" /\ c \in confirmed
        BY <1>1, <1>2, <2>5 DEF RequestOK, CheckInOK
      <3>2. Ledger!Complete(c)
        BY <1>3, <1>4, <2>1, <2>2, <2>5, <3>1 DEF Ledger!Complete, Due
      <3>3. QED
        BY <3>2
    <2>6. CASE req[w].by = "staff"
      <3>1. Ledger!Override(c, t)
        BY <1>3, <1>4, <2>1, <2>2, <2>3, <2>6
        DEF Ledger!Override, Ledger!Placed, Statuses, Due
      <3>2. QED
        BY <3>1
    <2>7. QED
      BY <1>1, <2>4, <2>5, <2>6 DEF WriteRequest
  <1>7. QED
    BY <1>5, <1>6

LEMMA LedgerRecord ==
    ASSUME CoreInv, NEW w \in Workers, RecordPayment(w)
    PROVE  \/ UNCHANGED Ledger!vars
           \/ \E p \in PaymentIds, b \in BookingIds : Ledger!Capture(p, b)
  <1>1. /\ req[w].pc \in {"succeeded", "failed"}
        /\ req[w].pc \in PaymentPcs
        /\ UNCHANGED <<bookings, confirmed, overridden>>
        /\ Continue(w)
    BY DEF RecordPayment, PaymentPcs, history, Continue
  <1>2. PICK p \in PaymentIds, b \in BookingIds :
            p = req[w].payment /\ b = req[w].booking
    BY <1>1, PaymentHeld
  <1>3. /\ payments[p] = [booking |-> b, status |-> "pending"]
        /\ Placed(b)
    BY <1>1, <1>2, PaymentHeld DEF CoreInv, PaymentInv, PaymentOK
  <1>4. /\ payments'[p] = [booking |-> b, status |-> req[w].pc]
        /\ \A q \in PaymentIds \ {p} : payments'[q] = payments[q]
    BY <1>2, <1>3 DEF RecordPayment, CoreInv, TypeOK
  <1>5. /\ req \in [Workers -> Request]
        /\ req[w] \in PaymentRequest
        /\ \A v \in Workers \ {w} : req'[v] = req[v]
    BY <1>1, PaymentHeld, OtherRequests DEF CoreInv, TypeOK
  <1>6. CASE req[w].pc = "failed"
    <2>1. req'[w] = Idle
      BY <1>5, <1>6 DEF RecordPayment, Serve
    <2>2. Due' = Due
      BY <1>1, <1>6, <2>1, DueSame DEF Idle
    <2>3. CapturedFor' = CapturedFor
      BY <1>3, <1>4, <1>6, CapturedSame
    <2>4. QED
      BY <1>1, <2>2, <2>3 DEF Ledger!vars, Due
  <1>7. CASE req[w].pc = "succeeded"
    <2>1. \A c \in BookingIds : <<p, c>> \notin CapturedFor
      BY <1>3 DEF CapturedFor
    <2>2. CapturedFor' = CapturedFor \cup {<<p, b>>}
      <3>1. ASSUME NEW q \in PaymentIds, NEW c \in BookingIds
            PROVE  payments'[q] = [booking |-> c, status |-> "succeeded"] <=>
                   \/ payments[q] = [booking |-> c, status |-> "succeeded"]
                   \/ q = p /\ c = b
        <4>1. CASE q = p
          <5>1. payments'[q].booking = b /\ payments'[q].status = "succeeded"
            BY <1>4, <1>7, <4>1
          <5>2. payments[q].status = "pending"
            BY <1>3, <4>1
          <5>3. CASE c = b
            BY <1>4, <1>7, <4>1, <5>3
          <5>4. CASE c # b
            BY <4>1, <5>1, <5>2, <5>4
          <5>5. QED
            BY <5>3, <5>4
        <4>2. CASE q # p
          BY <1>4, <4>2
        <4>3. QED
          BY <4>1, <4>2
      <3>2. QED
        BY <3>1 DEF CapturedFor
    <2>3. req'[w].pc = "confirm" /\ req'[w].payment = p
      <3>1. req'[w] = [req[w] EXCEPT !.pc = "confirm"]
        BY <1>5, <1>7 DEF RecordPayment, Serve
      <3>2. QED
        BY <1>2, <1>5, <3>1 DEF PaymentRequest
    <2>4. Due' = Due \cup {p}
      <3>1. ASSUME NEW q \in PaymentIds
            PROVE  InFlight(q, "confirm")' <=> InFlight(q, "confirm") \/ q = p
        BY <1>5, <1>7, <2>3 DEF InFlight
      <3>2. QED
        BY <3>1 DEF Due
    <2>5. Ledger!Capture(p, b)
      BY <1>1, <1>3, <2>1, <2>2, <2>4
      DEF Ledger!Capture, Ledger!Placed, Ledger!Captured, Placed, Due
    <2>6. QED
      BY <2>5
  <1>8. QED
    BY <1>1, <1>6, <1>7

LEMMA LedgerConfirm ==
    ASSUME CoreInv, NEW w \in Workers, ConfirmBooking(w)
    PROVE  \E p \in PaymentIds, b \in BookingIds : Ledger!Confirm(p, b)
  <1>1. /\ req[w].pc = "confirm"
        /\ req[w].pc \in PaymentPcs
        /\ UNCHANGED <<payments, overridden>>
        /\ req'[w] = Idle
        /\ Continue(w)
    BY DEF CoreInv, TypeOK, ConfirmBooking, PaymentPcs, Serve, Continue
  <1>2. PICK p \in PaymentIds, b \in BookingIds :
            p = req[w].payment /\ b = req[w].booking
    BY <1>1, PaymentHeld
  <1>3. <<p, b>> \in CapturedFor /\ Placed(b)
    BY <1>1, <1>2, PaymentHeld DEF CoreInv, PaymentInv, PaymentOK, CapturedFor
  <1>4. CapturedFor' = CapturedFor
    BY <1>1 DEF CapturedFor
  <1>5. p \in Due /\ Due' = Due \ {p}
    BY <1>1, <1>2, DueLess DEF Idle
  <1>6. Ledger!SetStatus(b, "confirmed") /\ confirmed' = confirmed \cup {b}
    BY <1>2, <1>3, StatusesUpdate DEF ConfirmBooking, CoreInv, BookingStatus
  <1>7. Ledger!Confirm(p, b)
    BY <1>1, <1>3, <1>4, <1>5, <1>6 DEF Ledger!Confirm, Ledger!Placed, Placed, Due
  <1>8. QED
    BY <1>7

(* A crash lets the due payment of its request lapse; the other steps that *)
(* leave the tables alone leave the ledger alone.                          *)
LEMMA LedgerIdle ==
    ASSUME CoreInv, NEW w \in Workers,
           \/ Start(w) \/ Crash(w) \/ QueryRooms(w) \/ WriteNotice(w) \/ ChargeCard(w),
           UNCHANGED <<bookings, payments, confirmed, overridden>>
    PROVE  \/ UNCHANGED Ledger!vars
           \/ \E p \in PaymentIds : Ledger!Lapse(p)
  <1>1. TypeOK /\ req \in [Workers -> Request] /\ CapturedFor' = CapturedFor
    BY DEF CoreInv, TypeOK, CapturedFor
  <1>2. Start(w) \/ Continue(w) \/ Crash(w)
    BY DEF Continue
  <1>3. req'[w].pc # "confirm"
    <2>1. CASE Start(w)
      BY <1>1, <2>1, StartPc
    <2>2. CASE ChargeCard(w)
      <3>1. req[w] \in PaymentRequest
        BY <2>2, PaymentHeld DEF ChargeCard, PaymentPcs
      <3>2. QED
        BY <1>1, <2>2, <3>1 DEF ChargeCard, PaymentRequest, Serve
    <2>3. CASE QueryRooms(w)
      <3>1. PICK saw : \/ req'[w] = Idle
                       \/ req'[w] = [pc |-> "insert", room |-> req[w].room,
                                     stay |-> req[w].stay, saw |-> saw]
        BY <1>1, <2>3 DEF QueryRooms, Serve
      <3>2. QED
        BY <3>1 DEF Idle
    <2>4. CASE Crash(w) \/ WriteNotice(w)
      BY <1>1, <2>4 DEF Crash, WriteNotice, Serve, Idle
    <2>5. QED
      BY <2>1, <2>2, <2>3, <2>4
  <1>4. CASE req[w].pc # "confirm"
    <2>1. Due' = Due
      BY <1>2, <1>3, <1>4, DueSame
    <2>2. QED
      BY <1>1, <2>1 DEF Ledger!vars, Due
  <1>5. CASE req[w].pc = "confirm"
    <2>1. PICK p \in PaymentIds : p = req[w].payment
      BY <1>5, PaymentHeld DEF PaymentPcs
    <2>2. p \in Due /\ Due' = Due \ {p}
      BY <1>2, <1>3, <1>5, <2>1, DueLess
    <2>3. Ledger!Lapse(p)
      BY <1>1, <2>2 DEF Ledger!Lapse, Due
    <2>4. QED
      BY <2>3
  <1>6. QED
    BY <1>4, <1>5

(* Every step of the handlers is a step of the ledger or leaves it alone.  *)
LEMMA LedgerNext ==
    ASSUME CoreInv, ConfirmedInv, [Next]_vars
    PROVE  [Ledger!Next]_(Ledger!vars)
  <1>1. ASSUME UNCHANGED <<bookings, payments, confirmed, overridden, req>>
        PROVE  UNCHANGED Ledger!vars
    BY <1>1 DEF Ledger!vars, CapturedFor, InFlight
  <1>2. Ledger!BookingStatus = BookingStatus
    BY DEF Ledger!BookingStatus, BookingStatus
  <1>3. QED
    BY <1>1, <1>2, LedgerSteps, LedgerInsert, LedgerOpen, LedgerWrite, LedgerRecord,
       LedgerConfirm, LedgerIdle DEF Ledger!Next

(* The handlers, with all their interleavings and crashes, implement the   *)
(* lifecycle of BookingLedger.                                             *)
THEOREM HandlersImplementLedger == Spec => ImplementsLedger
  <1>1. Init => Ledger!Init
    BY DEF Init, Ledger!Init, CapturedFor, InFlight, NoBooking, NoPayment, Idle
  <1>2. CoreInv /\ ConfirmedInv /\ [Next]_vars => [Ledger!Next]_(Ledger!vars)
    BY LedgerNext
  <1>3. Spec => []ConfirmedInv
    BY ConfirmedInit, ConfirmedNext, CoreInvariant, PTL DEF Spec
  <1>4. QED
    BY <1>1, <1>2, <1>3, CoreInvariant, PTL DEF Spec, ImplementsLedger, Ledger!Spec

-----------------------------------------------------------------------------
(* PaidButPendingExplained. *)

(* A payment becomes succeeded only in the request that then confirms its  *)
(* booking.                                                                *)
LEMMA SucceededBy ==
    ASSUME CoreInv, [Next]_vars, NEW p \in PaymentIds, payments'[p].status = "succeeded"
    PROVE  payments'[p] = payments[p] \/ InFlight(p, "confirm")'
  <1>1. ASSUME NEW w \in Workers, NEW q \in PaymentIds, OpenPayment(w, q)
        PROVE  payments'[p] = payments[p]
    BY <1>1 DEF OpenPayment, CoreInv, TypeOK
  <1>2. ASSUME NEW w \in Workers, RecordPayment(w)
        PROVE  payments'[p] = payments[p] \/ InFlight(p, "confirm")'
    <2>1. /\ req[w] \in PaymentRequest
          /\ payments[req[w].payment] = [booking |-> req[w].booking, status |-> "pending"]
      BY <1>2, PaymentHeld DEF RecordPayment, CoreInv, PaymentInv, PaymentOK, PaymentPcs
    <2>2. CASE req[w].payment # p
      BY <1>2, <2>2 DEF RecordPayment, CoreInv, TypeOK
    <2>3. CASE req[w].payment = p
      <3>1. req[w].pc = "succeeded"
        BY <1>2, <2>1, <2>3 DEF RecordPayment, CoreInv, TypeOK
      <3>2. req'[w].pc = "confirm" /\ req'[w].payment = p
        BY <1>2, <2>1, <2>3, <3>1 DEF RecordPayment, Serve, PaymentRequest, CoreInv, TypeOK
      <3>3. QED
        BY <3>2 DEF InFlight
    <2>4. QED
      BY <2>2, <2>3
  <1>3. ASSUME NEW w \in Workers,
               \/ WriteStatus(w) \/ ConfirmBooking(w)
               \/ \E b \in BookingIds : InsertBooking(w, b)
        PROVE  payments'[p] = payments[p]
    BY <1>3 DEF WriteStatus, ConfirmBooking, InsertBooking
  <1>4. QED
    BY <1>1, <1>2, <1>3, LedgerSteps

(* A request about to confirm a booking stays so, confirms it, or crashes. *)
LEMMA ConfirmHeld ==
    ASSUME CoreInv, [Next]_vars, NEW p \in PaymentIds, InFlight(p, "confirm")
    PROVE  \/ InFlight(p, "confirm")'
           \/ p \in orphaned'
           \/ bookings'[payments[p].booking].status = "confirmed"
  <1>1. PICK v \in Workers : req[v].pc = "confirm" /\ req[v].payment = p
    BY DEF InFlight
  <1>2. CASE req'[v] = req[v]
    BY <1>1, <1>2 DEF InFlight
  <1>3. CASE ConfirmBooking(v)
    <2>1. req[v].pc \in PaymentPcs
      BY <1>1 DEF PaymentPcs
    <2>2. /\ req[v].booking \in BookingIds
          /\ Placed(req[v].booking)
          /\ payments[p].booking = req[v].booking
      <3>1. PaymentOK(v)
        BY DEF CoreInv, PaymentInv
      <3>2. payments[p].booking = req[v].booking
        BY <1>1, <3>1 DEF PaymentOK
      <3>3. QED
        BY <2>1, <3>2, PaymentHeld
    <2>3. PICK c \in BookingIds : c = req[v].booking
      BY <2>2
    <2>4. bookings'[c].status = "confirmed"
      <3>1. bookings' = [bookings EXCEPT ![c].status = "confirmed"] /\ Placed(c)
        BY <1>3, <2>2, <2>3 DEF ConfirmBooking
      <3>2. "confirmed" \in BookingStatus
        BY DEF BookingStatus
      <3>3. QED
        BY <3>1, <3>2, StatusUpdate DEF CoreInv
    <2>5. QED
      BY <2>2, <2>3, <2>4
  <1>4. CASE Crash(v)
    BY <1>1, <1>4 DEF Crash, PaymentPcs
  <1>5. ~ Start(v)
    <2>1. Start(v) => req[v] = Idle
      BY DEF Start, StartCreate, StartCancel, StartCheckIn, StartCheckOut,
             StartOverride, StartPayment
    <2>2. QED
      BY <1>1, <2>1 DEF Idle
  <1>6. Continue(v) => ConfirmBooking(v)
    BY <1>1 DEF Continue, QueryRooms, InsertBooking, WriteStatus, WriteNotice,
                OpenPayment, ChargeCard, RecordPayment
  <1>7. QED
    BY <1>2, <1>3, <1>4, <1>5, <1>6, OtherRequests, ManageRequests DEF Next, CoreInv

LEMMA OrphansGrow ==
    ASSUME [Next]_vars
    PROVE  orphaned \subseteq orphaned'
  <1>1. ASSUME NEW w \in Workers, Start(w)
        PROVE  orphaned' = orphaned
    BY <1>1 DEF Start, StartCreate, StartCancel, StartCheckIn, StartCheckOut,
                StartOverride, StartPayment, history
  <1>2. ASSUME NEW w \in Workers, Continue(w)
        PROVE  orphaned' = orphaned
    BY <1>2 DEF Continue, QueryRooms, InsertBooking, WriteStatus, WriteNotice,
                OpenPayment, ChargeCard, RecordPayment, ConfirmBooking, history
  <1>3. ASSUME NEW w \in Workers, Crash(w)
        PROVE  orphaned \subseteq orphaned'
    BY <1>3 DEF Crash
  <1>4. ASSUME Manage \/ UNCHANGED vars
        PROVE  orphaned' = orphaned
    BY <1>4 DEF Manage, CreateBlackout, DeleteBlackout, DeactivateRoom, ActivateRoom,
                vars, history
  <1>5. QED
    BY <1>1, <1>2, <1>3, <1>4 DEF Next

LEMMA PaidNext ==
    ASSUME CoreInv, PaidButPendingExplained, [Next]_vars
    PROVE  PaidButPendingExplained'
  <1> SUFFICES ASSUME NEW p \in PaymentIds, payments'[p].status = "succeeded",
                      bookings'[payments'[p].booking].status = "pending"
               PROVE  \/ p \in orphaned'
                      \/ InFlight(p, "confirm")'
                      \/ payments'[p].booking \in overridden'
    BY DEF PaidButPendingExplained
  <1>1. CASE payments'[p] = payments[p]
    <2>1. PICK b : b = payments[p].booking
      OBVIOUS
    <2>2. b \in BookingIds /\ Placed(b)
      BY <1>1, <2>1, RowByStatus
      DEF CoreInv, PaymentInv, PaymentRowsOK, Opened, Payment
    <2>3. bookings[b].status = "pending" \/ b \in overridden'
      BY <1>1, <2>1, <2>2, BookingsGrowNext DEF BookingsGrow
    <2>4. CASE bookings[b].status = "pending"
      <3>1. p \in orphaned \/ InFlight(p, "confirm") \/ b \in overridden
        BY <1>1, <2>1, <2>4 DEF PaidButPendingExplained
      <3>2. QED
        BY <1>1, <2>1, <2>2, <3>1, ConfirmHeld, OrphansGrow, BookingsGrowNext
        DEF BookingsGrow
    <2>5. QED
      BY <1>1, <2>1, <2>3, <2>4
  <1>2. QED
    BY <1>1, SucceededBy

(* A paid booking is pending only for the moment before its confirmation,  *)
(* after a crash, or because staff made it so.                             *)
THEOREM PaidIsConfirmed == Spec => []PaidButPendingExplained
  <1>1. Init => PaidButPendingExplained
    BY DEF Init, PaidButPendingExplained, NoPayment
  <1>2. CoreInv /\ PaidButPendingExplained /\ [Next]_vars => PaidButPendingExplained'
    BY PaidNext
  <1>3. QED
    BY <1>1, <1>2, CoreInvariant, PTL DEF Spec



(* What a check saw never stands in the way of room r for stay s: a seen   *)
(* booking of that room and time is cancelled, or was when it was seen and *)
(* has been revived since; a seen closure is of another room or night.     *)
Cleared(saw, r, s) ==
    /\ \A c \in saw.bookings :
          /\ Placed(c)
          /\ bookings[c].room = r /\ Overlaps(bookings[c].stay, s) =>
                bookings[c].status = "cancelled" \/ c \in revived
    /\ \A x \in saw.closures :
          FallsIn(x.date, s) => x.room \notin {AllRooms, r}

RequestCleared(w) ==
    req[w].pc \in {"rooms", "insert"} => Cleared(req[w].saw, req[w].room, req[w].stay)

EvidenceInv ==
    /\ \A b \in PlacedIds : Cleared(evidence[b], bookings[b].room, bookings[b].stay)
    /\ \A w \in Workers : RequestCleared(w)

LEMMA EvidenceInit == Init => EvidenceInv
  BY DEF Init, EvidenceInv, RequestCleared, Idle, PlacedIds, Placed, NoBooking

(* Later steps do not undo a check. *)
LEMMA ClearedStable ==
    ASSUME CoreInv, [Next]_vars, NEW saw \in Evidence, NEW r, NEW s, Cleared(saw, r, s)
    PROVE  Cleared(saw, r, s)'
  <1>1. BookingsGrow
    BY BookingsGrowNext
  <1>2. saw.bookings \subseteq BookingIds
    BY DEF Evidence
  <1>3. QED
    BY <1>1, <1>2 DEF BookingsGrow, Cleared

(* The room query clears the room it finds free. *)
LEMMA QueryClears ==
    ASSUME CoreInv, EvidenceInv, NEW w \in Workers, QueryRooms(w)
    PROVE  RequestCleared(w)'
  <1>1. /\ req \in [Workers -> Request]
        /\ req[w] \in CreateRequest
        /\ UNCHANGED <<bookings, revived>>
    BY RequestByPc DEF CoreInv, TypeOK, QueryRooms, tables, history
  <1>2. PICK saw, r, s : saw = req[w].saw /\ r = req[w].room /\ s = req[w].stay
    OBVIOUS
  <1>3. PICK seen : seen = [bookings |-> PlacedIds,
                            closures |-> saw.closures \cup RoomScoped(blackouts)]
    OBVIOUS
  <1>4. CASE r \in FreeRooms(BookingRows, blackouts, activeRooms, s)
    <2>1. req'[w] = [pc |-> "insert", room |-> r, stay |-> s, saw |-> seen]
      BY <1>1, <1>2, <1>3, <1>4 DEF QueryRooms, Serve
    <2>2. Cleared(saw, r, s)
      BY <1>2 DEF EvidenceInv, RequestCleared, QueryRooms
    <2>3. Cleared(seen, r, s)
      <3>1. \A c \in PlacedIds :
                bookings[c].room = r /\ Overlaps(bookings[c].stay, s) =>
                    bookings[c].status = "cancelled"
        BY <1>4 DEF FreeRooms, OverlappingRoomIds, BookingRows
      <3>2. \A x \in RoomScoped(blackouts) :
                FallsIn(x.date, s) => x.room \notin {AllRooms, r}
        BY <1>4 DEF FreeRooms, BlackoutRoomIds, RoomScoped, HotelWide
      <3>3. \A x \in saw.closures : FallsIn(x.date, s) => x.room \notin {AllRooms, r}
        BY <2>2 DEF Cleared
      <3>4. QED
        BY <1>3, <3>1, <3>2, <3>3 DEF Cleared, PlacedIds
    <2>4. Cleared(seen, r, s)'
      BY <1>1, <2>3 DEF Cleared, Placed
    <2>5. QED
      BY <2>1, <2>4 DEF RequestCleared
  <1>5. CASE r \notin FreeRooms(BookingRows, blackouts, activeRooms, s)
    BY <1>1, <1>2, <1>5 DEF QueryRooms, Serve, Idle, RequestCleared
  <1>6. QED
    BY <1>4, <1>5

(* The hotel-wide query clears every room of the hotel. *)
LEMMA CreateClears ==
    ASSUME CoreInv, NEW w \in Workers, NEW r \in Rooms, NEW s \in Stays,
           StartCreate(w, r, s)
    PROVE  RequestCleared(w)'
  <1>1. PICK saw : saw = [bookings |-> {}, closures |-> HotelWide(blackouts)]
    OBVIOUS
  <1>2. req'[w] = [pc |-> "rooms", room |-> r, stay |-> s, saw |-> saw]
    BY <1>1 DEF StartCreate, Serve, CoreInv, TypeOK
  <1>3. \A x \in HotelWide(blackouts) : ~ FallsIn(x.date, s)
    BY DEF StartCreate, HotelClosed
  <1>4. Cleared(saw, r, s)'
    BY <1>1, <1>3 DEF Cleared
  <1>5. QED
    BY <1>2, <1>4 DEF RequestCleared

LEMMA EvidenceRequests ==
    ASSUME CoreInv, EvidenceInv, [Next]_vars, NEW v \in Workers
    PROVE  RequestCleared(v)'
  <1>0. req \in [Workers -> Request] /\ TypeOK
    BY DEF CoreInv, TypeOK
  <1>1. CASE req'[v] = req[v]
    <2>1. CASE req[v].pc \in {"rooms", "insert"}
      <3>1. PICK saw, r, s : saw = req[v].saw /\ r = req[v].room /\ s = req[v].stay
        OBVIOUS
      <3>2. saw \in Evidence /\ Cleared(saw, r, s)
        BY <1>0, <2>1, <3>1, RequestByPc DEF CreateRequest, EvidenceInv, RequestCleared
      <3>3. Cleared(saw, r, s)'
        BY <3>2, ClearedStable
      <3>4. QED
        BY <1>1, <3>1, <3>3 DEF RequestCleared
    <2>2. QED
      BY <1>1, <2>1 DEF RequestCleared
  <1>2. CASE Start(v)
    <2>1. CASE req'[v].pc # "rooms"
      BY <1>0, <1>2, <2>1, StartPc DEF RequestCleared
    <2>2. ASSUME NEW r \in Rooms, NEW s \in Stays, StartCreate(v, r, s)
          PROVE  RequestCleared(v)'
      BY <2>2, CreateClears
    <2>3. ASSUME NEW b \in BookingIds,
                 \/ StartCancel(v, b) \/ StartCheckIn(v, b) \/ StartCheckOut(v, b)
                 \/ StartPayment(v, b)
                 \/ \E s \in OverrideStatuses : StartOverride(v, b, s)
          PROVE  req'[v].pc # "rooms"
      <3>1. CASE StartCheckOut(v, b)
        <4>1. PICK n : n = [booking |-> b, title |-> "Checked Out"]
          OBVIOUS
        <4>2. req'[v] = [pc |-> "notify", notice |-> n]
          BY <1>0, <3>1, <4>1 DEF StartCheckOut, Serve
        <4>3. QED
          BY <4>2
      <3>2. QED
        BY <1>0, <2>3, <3>1 DEF StartCancel, StartCheckIn, StartOverride, StartPayment,
                                StartWrite, Serve
    <2>4. QED
      BY <1>2, <2>1, <2>2, <2>3 DEF Start
  <1>3. CASE QueryRooms(v)
    BY <1>3, QueryClears
  <1>4. CASE req'[v].pc \notin {"rooms", "insert"}
    BY <1>4 DEF RequestCleared
  <1>5. ASSUME WriteStatus(v)
        PROVE  req'[v].pc \notin {"rooms", "insert"}
    <2>1. PICK n : n = [booking |-> req[v].booking, title |-> "Checked In"]
      OBVIOUS
    <2>2. req'[v] = Idle \/ req'[v] = [pc |-> "notify", notice |-> n]
      BY <1>0, <1>5, <2>1 DEF WriteStatus, AfterWrite, Serve
    <2>3. QED
      BY <2>2 DEF Idle
  <1>6. ASSUME \/ WriteNotice(v) \/ ConfirmBooking(v) \/ Crash(v)
               \/ \E b \in BookingIds : InsertBooking(v, b)
               \/ \E p \in PaymentIds : OpenPayment(v, p)
        PROVE  req'[v].pc \notin {"rooms", "insert"}
    BY <1>0, <1>6 DEF WriteNotice, ConfirmBooking, Crash, InsertBooking, OpenPayment,
                      Serve, Idle
  <1>7. ASSUME ChargeCard(v) \/ RecordPayment(v)
        PROVE  req'[v].pc \notin {"rooms", "insert"}
    <2>1. req[v] \in PaymentRequest
      BY <1>0, <1>7, RequestByPc DEF ChargeCard, RecordPayment, PaymentPcs
    <2>2. QED
      BY <1>0, <1>7, <2>1 DEF ChargeCard, RecordPayment, PaymentRequest, Serve, Idle
  <1>8. QED
    BY <1>0, <1>1, <1>2, <1>3, <1>4, <1>5, <1>6, <1>7, OtherRequests, ManageRequests
    DEF Next, Continue

LEMMA EvidenceRows ==
    ASSUME CoreInv, EvidenceInv, [Next]_vars, NEW b \in BookingIds, Placed(b)'
    PROVE  Cleared(evidence[b], bookings[b].room, bookings[b].stay)'
  <1>1. ASSUME Placed(b)
        PROVE  Cleared(evidence[b], bookings[b].room, bookings[b].stay)'
    <2>1. PICK saw, r, s : saw = evidence[b] /\ r = bookings[b].room /\ s = bookings[b].stay
      OBVIOUS
    <2>2. saw \in Evidence /\ Cleared(saw, r, s)
      BY <1>1, <2>1 DEF CoreInv, TypeOK, EvidenceInv, PlacedIds
    <2>3. Cleared(saw, r, s)'
      BY <2>2, ClearedStable
    <2>4. evidence'[b] = saw /\ bookings'[b].room = r /\ bookings'[b].stay = s
      BY <1>1, <2>1, BookingsGrowNext DEF BookingsGrow
    <2>5. QED
      BY <2>3, <2>4
  <1>2. ASSUME NEW w \in Workers, InsertBooking(w, b)
        PROVE  Cleared(evidence[b], bookings[b].room, bookings[b].stay)'
    <2>1. PICK saw, r, s : saw = req[w].saw /\ r = req[w].room /\ s = req[w].stay
      OBVIOUS
    <2>2. saw \in Evidence /\ Cleared(saw, r, s)
      BY <1>2, <2>1, RequestByPc
      DEF CoreInv, TypeOK, InsertBooking, CreateRequest, EvidenceInv, RequestCleared
    <2>3. Cleared(saw, r, s)'
      BY <2>2, ClearedStable
    <2>4. evidence'[b] = saw /\ bookings'[b].room = r /\ bookings'[b].stay = s
      BY <1>2, <2>1 DEF InsertBooking, CoreInv, TypeOK
    <2>5. QED
      BY <2>3, <2>4
  <1>3. ASSUME ~ Placed(b)
        PROVE  \E w \in Workers : InsertBooking(w, b)
    <2>1. UNCHANGED bookings => FALSE
      BY <1>3 DEF Placed
    <2>2. ASSUME NEW w \in Workers, NEW c \in BookingIds, c # b, InsertBooking(w, c)
          PROVE  FALSE
      BY <1>3, <2>2 DEF InsertBooking, Placed, CoreInv, TypeOK
    <2>3. ASSUME NEW w \in Workers, WriteStatus(w) \/ ConfirmBooking(w)
          PROVE  FALSE
      <3>1. Placed(req[w].booking)
        BY <2>3 DEF CoreInv, RequestInv, RequestOK, WriteStatus, ConfirmBooking, PaymentPcs
      <3>2. QED
        BY <1>3, <2>3, <3>1 DEF WriteStatus, ConfirmBooking, Placed, CoreInv, TypeOK
    <2>4. ASSUME NEW w \in Workers,
                 \/ Start(w) \/ Crash(w) \/ QueryRooms(w) \/ WriteNotice(w)
                 \/ ChargeCard(w) \/ RecordPayment(w)
                 \/ \E p \in PaymentIds : OpenPayment(w, p)
          PROVE  UNCHANGED bookings
      BY <2>4 DEF Start, StartCreate, StartCancel, StartCheckIn, StartCheckOut,
                  StartOverride, StartPayment, Crash, QueryRooms, WriteNotice,
                  ChargeCard, RecordPayment, OpenPayment, tables
    <2>5. ASSUME Manage \/ UNCHANGED vars
          PROVE  UNCHANGED bookings
      BY <2>5 DEF Manage, CreateBlackout, DeleteBlackout, DeactivateRoom, ActivateRoom,
                  vars, tables
    <2>6. QED
      BY <2>1, <2>2, <2>3, <2>4, <2>5 DEF Next, Continue
  <1>4. QED
    BY <1>1, <1>2, <1>3

LEMMA EvidenceNext ==
    ASSUME CoreInv, EvidenceInv, [Next]_vars
    PROVE  EvidenceInv'
  BY EvidenceRows, EvidenceRequests DEF EvidenceInv, PlacedIds

(* What every check saw stays out of the way of what was booked on it.     *)
THEOREM EvidenceHolds == Spec => []EvidenceInv
  <1>1. CoreInv /\ EvidenceInv /\ [Next]_vars => EvidenceInv'
    BY EvidenceNext
  <1>2. QED
    BY <1>1, EvidenceInit, CoreInvariant, PTL DEF Spec

(* Two live bookings share a room for a night only through the check-then- *)
(* insert race or a revival, for any number of workers and bookings.       *)
THEOREM DoubleBookingsExplained == Spec => []DoubleBookingExplained
  <1>1. ASSUME TypeOK, EvidenceInv, NEW b \in BookingIds, NEW c \in BookingIds,
               Live(b), Live(c), Conflict(b, c), c \in evidence[b].bookings
        PROVE  c \in revived
    <2>1. /\ b \in PlacedIds
          /\ bookings[b].stay \in Stays
          /\ bookings[c].stay \in Stays
      BY <1>1, RowByStatus DEF Live, PlacedIds, Placed, Booking
    <2>2. Overlaps(bookings[c].stay, bookings[b].stay)
      BY <1>1, <2>1, OverlapsSymmetric DEF Conflict
    <2>3. Cleared(evidence[b], bookings[b].room, bookings[b].stay)
      BY <1>1, <2>1 DEF EvidenceInv
    <2>4. QED
      BY <1>1, <2>2, <2>3 DEF Cleared, Conflict, Live
  <1>2. ASSUME TypeOK, NEW b \in BookingIds, NEW c \in BookingIds,
               Live(b), Live(c), Conflict(b, c)
        PROVE  Conflict(c, b)
    <2>1. bookings[b].stay \in Stays /\ bookings[c].stay \in Stays
      BY <1>2, RowByStatus DEF Live, Placed, Booking
    <2>2. QED
      BY <1>2, <2>1, OverlapsSymmetric DEF Conflict
  <1>3. CoreInv /\ EvidenceInv => DoubleBookingExplained
    BY <1>1, <1>2 DEF CoreInv, DoubleBookingExplained
  <1>4. QED
    BY <1>3, CoreInvariant, EvidenceHolds, PTL

(* A booked night is closed only by a closure entered after the query.     *)
THEOREM ClosedStaysExplained == Spec => []ClosedStayExplained
  <1>1. EvidenceInv => ClosedStayExplained
    BY DEF EvidenceInv, ClosedStayExplained, Cleared
  <1>2. QED
    BY <1>1, EvidenceHolds, PTL

-----------------------------------------------------------------------------
(* The availability check does its job when requests do not overlap: with  *)
(* one request at a time, and staff who cancel bookings but set no other   *)
(* status, no room is booked twice for a night.                            *)

(* What the session of a request read is still so when the request uses it.*)
SerialOK(w) ==
    LET r == req[w] IN
    /\ r.pc = "write" =>
          /\ r.loaded = bookings[r.booking].status
          /\ \/ r.target = "cancelled"
             \/ r.target = "completed" /\ r.loaded = "confirmed"
    /\ r.pc \in {"open"} \cup PaymentPcs => bookings[r.booking].status # "cancelled"
    /\ r.pc = "insert" => r.saw.bookings = PlacedIds

(* Of any two bookings one was there when the other was checked. *)
Ordered ==
    \A b, c \in PlacedIds :
        b # c => c \in evidence[b].bookings \/ b \in evidence[c].bookings

SerialInv == revived = {} /\ Ordered /\ \A w \in Workers : SerialOK(w)

LEMMA SerialInit == Init => SerialInv
  BY DEF Init, SerialInv, Ordered, SerialOK, Idle, PaymentPcs, PlacedIds, Placed, NoBooking

(* The steps that leave the bookings and their history alone. *)
LEMMA SerialFrame ==
    ASSUME SerialInv, UNCHANGED <<bookings, evidence, revived>>,
           \A v \in Workers : SerialOK(v)'
    PROVE  SerialInv'
  BY DEF SerialInv, Ordered, PlacedIds, Placed

LEMMA SerialStart ==
    ASSUME CoreInv, SerialInv, OverrideStatuses \subseteq {"cancelled"},
           NEW w \in Workers, Start(w)
    PROVE  SerialOK(w)'
  <1>0. req \in [Workers -> Request] /\ TypeOK
    BY DEF CoreInv, TypeOK
  <1>1. UNCHANGED bookings
    BY DEF Start, StartCreate, StartCancel, StartCheckIn, StartCheckOut,
           StartOverride, StartPayment, tables
  <1>2. ASSUME NEW b \in BookingIds,
               \/ StartCancel(w, b) \/ StartCheckIn(w, b)
               \/ \E s \in OverrideStatuses : StartOverride(w, b, s)
        PROVE  SerialOK(w)'
    <2>1. /\ req'[w].pc = "write"
          /\ req'[w].booking = b
          /\ req'[w].loaded = bookings[b].status
          /\ \/ req'[w].target = "cancelled"
             \/ req'[w].target = "completed" /\ bookings[b].status = "confirmed"
      <3>1. PICK t, y : StartWrite(w, b, t, y) /\ \/ t = "cancelled"
                                                  \/ /\ t = "completed"
                                                     /\ bookings[b].status = "confirmed"
        BY <1>2 DEF StartCancel, StartCheckIn, StartOverride
      <3>2. req'[w] = [pc |-> "write", booking |-> b, loaded |-> bookings[b].status,
                       target |-> t, by |-> y]
        BY <1>0, <3>1 DEF StartWrite, Serve
      <3>3. QED
        BY <3>1, <3>2
    <2>2. QED
      BY <1>1, <2>1 DEF SerialOK, PaymentPcs
  <1>3. ASSUME NEW b \in BookingIds, StartPayment(w, b)
        PROVE  SerialOK(w)'
    BY <1>0, <1>1, <1>3 DEF StartPayment, Serve, SerialOK, PaymentPcs
  <1>4. CASE req'[w].pc \in {"rooms", "notify"}
    BY <1>4 DEF SerialOK, PaymentPcs
  <1>5. ASSUME NEW b \in BookingIds, StartCheckOut(w, b)
        PROVE  req'[w].pc = "notify"
    <2>1. PICK n : n = [booking |-> b, title |-> "Checked Out"]
      OBVIOUS
    <2>2. req'[w] = [pc |-> "notify", notice |-> n]
      BY <1>0, <1>5, <2>1 DEF StartCheckOut, Serve
    <2>3. QED
      BY <2>2
  <1>6. ASSUME NEW r \in Rooms, NEW s \in Stays, StartCreate(w, r, s)
        PROVE  req'[w].pc = "rooms"
    <2>1. PICK saw : saw = [bookings |-> {}, closures |-> HotelWide(blackouts)]
      OBVIOUS
    <2>2. req'[w] = [pc |-> "rooms", room |-> r, stay |-> s, saw |-> saw]
      BY <1>0, <1>6, <2>1 DEF StartCreate, Serve
    <2>3. QED
      BY <2>2
  <1>7. QED
    BY <1>2, <1>3, <1>4, <1>5, <1>6 DEF Start

(* A request that ends, or goes on with a payment of the same booking.     *)
LEMMA SerialContinue ==
    ASSUME CoreInv, SerialInv, NEW w \in Workers,
           \/ QueryRooms(w) \/ WriteNotice(w) \/ ChargeCard(w) \/ RecordPayment(w)
           \/ \E p \in PaymentIds : OpenPayment(w, p)
    PROVE  SerialOK(w)'
  <1>0. req \in [Workers -> Request] /\ TypeOK
    BY DEF CoreInv, TypeOK
  <1>1. UNCHANGED bookings
    BY DEF QueryRooms, WriteNotice, ChargeCard, RecordPayment, OpenPayment, tables
  <1>2. CASE req'[w] = Idle
    BY <1>2 DEF SerialOK, Idle, PaymentPcs
  <1>3. CASE req'[w].pc \in PaymentPcs /\ bookings[req'[w].booking].status # "cancelled"
    BY <1>1, <1>3 DEF SerialOK, PaymentPcs
  <1>4. ASSUME QueryRooms(w), req'[w] # Idle
        PROVE  SerialOK(w)'
    <2>1. PICK saw : saw = [bookings |-> PlacedIds,
                            closures |-> req[w].saw.closures \cup RoomScoped(blackouts)]
      OBVIOUS
    <2>2. req'[w] = [pc |-> "insert", room |-> req[w].room,
                     stay |-> req[w].stay, saw |-> saw]
      BY <1>0, <1>4, <2>1 DEF QueryRooms, Serve
    <2>3. req'[w].pc = "insert" /\ req'[w].saw = saw
      BY <2>2
    <2>4. saw.bookings = PlacedIds'
      BY <1>1, <2>1 DEF PlacedIds, Placed
    <2>5. QED
      BY <2>3, <2>4 DEF SerialOK, PaymentPcs
  <1>5. ASSUME ChargeCard(w) \/ RecordPayment(w)
        PROVE  \/ req'[w] = Idle
               \/ req'[w].pc \in PaymentPcs /\ bookings[req'[w].booking].status # "cancelled"
    <2>1. req[w] \in PaymentRequest /\ req[w].pc \in PaymentPcs
      BY <1>5, PaymentHeld DEF ChargeCard, RecordPayment, PaymentPcs
    <2>2. bookings[req[w].booking].status # "cancelled"
      BY <2>1 DEF SerialInv, SerialOK
    <2>3. \/ req'[w] = Idle
          \/ req'[w].pc \in PaymentPcs /\ req'[w].booking = req[w].booking
      BY <1>0, <1>5, <2>1 DEF ChargeCard, RecordPayment, PaymentRequest, Serve, PaymentPcs
    <2>4. QED
      BY <2>2, <2>3
  <1>6. ASSUME NEW p \in PaymentIds, OpenPayment(w, p)
        PROVE  req'[w].pc \in PaymentPcs /\ bookings[req'[w].booking].status # "cancelled"
    <2>1. bookings[req[w].booking].status # "cancelled"
      BY <1>6 DEF OpenPayment, SerialInv, SerialOK
    <2>2. QED
      BY <1>0, <1>6, <2>1 DEF OpenPayment, Serve, PaymentPcs
  <1>7. QED
    BY <1>0, <1>2, <1>3, <1>4, <1>5, <1>6 DEF WriteNotice, Serve

(* The writes of a lone request revive nothing. *)
LEMMA SerialWrite ==
    ASSUME CoreInv, SerialInv, NEW w \in Workers, WriteStatus(w) \/ ConfirmBooking(w)
    PROVE  /\ revived' = {}
           /\ Ordered'
           /\ SerialOK(w)'
  <1>0. req \in [Workers -> Request] /\ TypeOK
    BY DEF CoreInv, TypeOK
  <1>1. SerialOK(w) /\ revived = {} /\ Ordered
    BY DEF SerialInv
  <1>2. revived' = {}
    <2>1. CASE WriteStatus(w)
      BY <1>1, <2>1 DEF WriteStatus, Revive, SerialOK
    <2>2. CASE ConfirmBooking(w)
      BY <1>1, <2>2 DEF ConfirmBooking, Revive, SerialOK, PaymentPcs
    <2>3. QED
      BY <2>1, <2>2
  <1>3. \A b \in BookingIds : Placed(b)' <=> Placed(b)
    <2>1. Placed(req[w].booking)
      BY DEF CoreInv, RequestInv, RequestOK, WriteStatus, ConfirmBooking, PaymentPcs
    <2>2. BookingsGrow
      BY BookingsGrowNext DEF Next, Continue
    <2>3. \A b \in BookingIds \ {req[w].booking} : bookings'[b] = bookings[b]
      BY <1>0 DEF WriteStatus, ConfirmBooking, TypeOK
    <2>4. QED
      BY <2>1, <2>2, <2>3 DEF BookingsGrow, Placed
  <1>4. Ordered'
    <2>1. UNCHANGED evidence
      BY DEF WriteStatus, ConfirmBooking
    <2>2. QED
      BY <1>1, <1>3, <2>1 DEF Ordered, PlacedIds
  <1>5. SerialOK(w)'
    <2>1. PICK n : n = [booking |-> req[w].booking, title |-> "Checked In"]
      OBVIOUS
    <2>2. req'[w] = Idle \/ req'[w] = [pc |-> "notify", notice |-> n]
      BY <1>0, <2>1 DEF WriteStatus, ConfirmBooking, AfterWrite, Serve
    <2>3. req'[w].pc \in {"idle", "notify"}
      BY <2>2 DEF Idle
    <2>4. QED
      BY <2>3 DEF SerialOK, PaymentPcs
  <1>6. QED
    BY <1>2, <1>4, <1>5

(* The insert of a lone request comes after a check that saw every row.    *)
LEMMA SerialInsert ==
    ASSUME CoreInv, SerialInv, NEW w \in Workers, NEW b \in BookingIds, InsertBooking(w, b)
    PROVE  /\ revived' = {}
           /\ Ordered'
           /\ SerialOK(w)'
  <1>0. req \in [Workers -> Request] /\ TypeOK
    BY DEF CoreInv, TypeOK
  <1>1. /\ revived = {}
        /\ Ordered
        /\ req[w].saw.bookings = PlacedIds
    BY DEF SerialInv, SerialOK, InsertBooking
  <1>2. /\ ~ Placed(b)
        /\ \A c \in BookingIds \ {b} :
               bookings'[c] = bookings[c] /\ evidence'[c] = evidence[c]
        /\ evidence'[b] = req[w].saw
        /\ revived' = revived
        /\ req'[w] = Idle
    BY <1>0 DEF InsertBooking, Serve, TypeOK
  <1>3. PlacedIds' \subseteq PlacedIds \cup {b}
    BY <1>2 DEF PlacedIds, Placed
  <1>4. b \notin PlacedIds /\ PlacedIds \subseteq BookingIds
    BY <1>2 DEF PlacedIds
  <1>5. Ordered'
    BY <1>1, <1>2, <1>3, <1>4 DEF Ordered
  <1>6. QED
    BY <1>1, <1>2, <1>5 DEF SerialOK, Idle, PaymentPcs

LEMMA SerialNext ==
    ASSUME \A v, w \in Workers : v = w, OverrideStatuses \subseteq {"cancelled"},
           CoreInv, SerialInv, [Next]_vars
    PROVE  SerialInv'
  <1>1. ASSUME NEW w \in Workers, Start(w)
        PROVE  SerialInv'
    <2>1. UNCHANGED <<bookings, evidence, revived>>
      BY <1>1 DEF Start, StartCreate, StartCancel, StartCheckIn, StartCheckOut,
                  StartOverride, StartPayment, tables, history
    <2>2. SerialOK(w)'
      BY <1>1, SerialStart
    <2>3. QED
      BY <2>1, <2>2, SerialFrame
  <1>2. ASSUME NEW w \in Workers,
               \/ QueryRooms(w) \/ WriteNotice(w) \/ ChargeCard(w) \/ RecordPayment(w)
               \/ \E p \in PaymentIds : OpenPayment(w, p)
        PROVE  SerialInv'
    <2>1. UNCHANGED <<bookings, evidence, revived>>
      BY <1>2 DEF QueryRooms, WriteNotice, ChargeCard, RecordPayment, OpenPayment,
                  tables, history
    <2>2. SerialOK(w)'
      BY <1>2, SerialContinue
    <2>3. QED
      BY <2>1, <2>2, SerialFrame
  <1>3. ASSUME NEW w \in Workers, WriteStatus(w) \/ ConfirmBooking(w)
        PROVE  SerialInv'
    BY <1>3, SerialWrite DEF SerialInv
  <1>4. ASSUME NEW w \in Workers, NEW b \in BookingIds, InsertBooking(w, b)
        PROVE  SerialInv'
    BY <1>4, SerialInsert DEF SerialInv
  <1>5. ASSUME NEW w \in Workers, Crash(w)
        PROVE  SerialInv'
    <2>1. UNCHANGED <<bookings, evidence, revived>>
      BY <1>5 DEF Crash, tables
    <2>2. SerialOK(w)'
      BY <1>5 DEF Crash, Serve, CoreInv, TypeOK, SerialOK, Idle, PaymentPcs
    <2>3. QED
      BY <2>1, <2>2, SerialFrame
  <1>6. ASSUME Manage \/ UNCHANGED vars
        PROVE  SerialInv'
    <2>1. UNCHANGED <<bookings, evidence, revived, req>>
      BY <1>6 DEF Manage, CreateBlackout, DeleteBlackout, DeactivateRoom, ActivateRoom,
                  vars, tables, history
    <2>2. ASSUME NEW w \in Workers
          PROVE  SerialOK(w)'
      BY <2>1 DEF SerialInv, SerialOK, PlacedIds, Placed, PaymentPcs
    <2>3. QED
      BY <2>1, <2>2, SerialFrame
  <1>7. QED
    BY <1>1, <1>2, <1>3, <1>4, <1>5, <1>6 DEF Next, Continue

(* With one request at a time no room is ever booked twice for a night.    *)
THEOREM SerialNoDoubleBooking ==
    ASSUME \A v, w \in Workers : v = w, OverrideStatuses \subseteq {"cancelled"}
    PROVE  Spec => []NoDoubleBooking
  <1>1. Init => SerialInv
    BY SerialInit
  <1>2. CoreInv /\ SerialInv /\ [Next]_vars => SerialInv'
    BY SerialNext
  <1>3. DoubleBookingExplained /\ SerialInv => NoDoubleBooking
    BY DEF DoubleBookingExplained, SerialInv, Ordered, NoDoubleBooking, PlacedIds, Placed, Live
  <1>4. QED
    BY <1>1, <1>2, <1>3, CoreInvariant, DoubleBookingsExplained, PTL DEF Spec
=============================================================================
