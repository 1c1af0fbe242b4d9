SPECIFICATION Spec
CONSTANTS
    Pages <- AllPages
    Rows = {r1, r2}
    NewRow = r3
    None = None
    Refused = Refused
    Statuses = {"pending", "confirmed"}
    Slots = {s1, s2}
    MaxSends = 3
    MaxEvents = 2
SYMMETRY Symmetry
INVARIANTS RowsExplained TallyExplained
PROPERTIES IntentServed
CHECK_DEADLOCK FALSE
