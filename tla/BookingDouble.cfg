\* Two requests at a time: the check and the insert of one interleave with the other.
SPECIFICATION Spec
CONSTANTS
    AllRooms = AllRooms
    r1 = r1
    Rooms = {r1}
    Workers = {w1, w2}
    BookingIds = {b1, b2}
    PaymentIds = {p1}
    Stays <- OneStay
    Closures <- NoClosures
    OverrideStatuses <- NoOverrides
INVARIANT
    NoDoubleBooking
