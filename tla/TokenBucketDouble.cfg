\* Two callers whose clock readings overtake each other on the way to Redis.
SPECIFICATION Spec
CONSTANTS
    Workers = {w1, w2}
    Capacity = 4
    Rate = 1
    Cost = 2
    Ttl = 6
    MaxDelay = 2
    MaxClock = 8
CHECK_DEADLOCK FALSE
INVARIANT
    NoDoubleCounting
