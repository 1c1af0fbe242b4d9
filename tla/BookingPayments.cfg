\* Two requests at a time about one booking, with two payments.
SPECIFICATION FairSpec
CONSTANTS
    AllRooms = AllRooms
    r1 = r1
    Rooms = {r1}
    Workers = {w1, w2}
    BookingIds = {b1}
    PaymentIds = {p1, p2}
    Stays <- OneStay
    Closures <- NoClosures
    OverrideStatuses <- BackToPending
INVARIANTS
    StayFunded
    MoneyAccounted
    PaidButPendingExplained
PROPERTIES
    ImplementsLedger
    PaymentSettles
    ChargeConfirms
