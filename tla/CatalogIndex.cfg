\* Two writers and two Celery processes, one of which may crash; no reads.
SPECIFICATION FairSpec
CONSTANTS
    AllHotels = AllHotels
    h1 = h1
    Hotels = {h1}
    Workers = {w1, w2}
    Runners = {c1, c2}
    Keys <- NoKeys
    MaxVersion = 2
    MaxPending = 3
    MaxCrashes = 1
INVARIANT
    IndexExplained
PROPERTY
    IndexSettles
