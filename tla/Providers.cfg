SPECIFICATION Spec
CONSTANTS
    Users = {u1, u2}
    Rooms = {r1}
    None = None
    MaxTokens = 2
    MaxSockets = 3
    MaxMessages = 1
    MaxSends = 2
INVARIANTS TypeOK OneSocketOfTheSession HeartsExplained
PROPERTIES ProvidersSettle
CHECK_DEADLOCK FALSE
