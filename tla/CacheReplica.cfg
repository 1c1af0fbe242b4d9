\* Searches and warm-up against one booking, with a read replica.
SPECIFICATION FairSpec
CONSTANTS
    AllRooms = AllRooms
    r1 = r1
    Rooms = {r1}
    Workers = {w1, w2}
    Keys <- Nights
    WarmKeys <- Nights
    Stays <- LongStay
    BookingIds = {b1}
    Closures <- HotelClosure
    ReadsReplica = TRUE
    MaxVersions = 4
INVARIANTS
    TypeOK
    PurgedKeyFresh
    AnswersActiveRooms
PROPERTY
    EventuallyTrue
