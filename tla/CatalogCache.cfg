\* Two requests at a time on one hotel and the two keys that show it,
\* while Celery is down.
SPECIFICATION FairSpec
CONSTANTS
    AllHotels = AllHotels
    h1 = h1
    Hotels = {h1}
    Workers = {w1, w2}
    Runners = {}
    Keys <- BothKeys
    MaxVersion = 2
    MaxPending = 3
    MaxCrashes = 0
INVARIANTS
    TypeOK
    CacheExplained
PROPERTY
    CachesSettle
