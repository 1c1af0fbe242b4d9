\* Two requests at a time, two bookings, one payment; staff reopen bookings
\* and close a night or the room.
SPECIFICATION Spec
CONSTANTS
    AllRooms = AllRooms
    r1 = r1
    Rooms = {r1}
    Workers = {w1, w2}
    BookingIds = {b1, b2}
    PaymentIds = {p1}
    Stays <- OverlappingStays
    Closures <- RoomClosure
    OverrideStatuses <- BackToPending
SYMMETRY Interchangeable
INVARIANTS
    TypeOK
    DoubleBookingExplained
    ClosedStayExplained
