\* Two callers, requests of two tokens, a bucket of two requests; the
\* bucket may be dropped and made anew.
SPECIFICATION Spec
CONSTANTS
    Workers = {w1, w2}
    Capacity = 4
    Rate = 1
    Cost = 2
    Ttl = 6
    MaxDelay = 2
    MaxClock = 8
CHECK_DEADLOCK FALSE
INVARIANTS
    TypeOK
    WithinRate
PROPERTY
    RefusesOnlyOverRate
