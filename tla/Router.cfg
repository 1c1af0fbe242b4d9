SPECIFICATION Spec
CONSTANTS
    None = None
    a = a
    b = b
    Guests <- Two
    MaxClicks = 3
    MaxWaiting = 2
    MaxLog = 3
    Logins <- SomeLogins
    PageSize = 2
    MaxFeedClicks = 3
    MaxPolls = 1
    Views <- AllViews
    MaxLoads = 3
    MaxClock = 2
    Places <- Two
    Hotels <- Two
    LastPage = 2
    MaxSteps = 4
    LastDay = 2
    MaxRooms = 2
    MaxActs = 3
    MaxAttempts = 2
    MaxSends = 3
    MaxOut = 2
SYMMETRY Symmetry
INVARIANTS StayExplained
PROPERTIES PanelShowsChosen FeedExplained ReportExplained ListsExplained HoldsExplained ProfileExplained
CHECK_DEADLOCK FALSE
