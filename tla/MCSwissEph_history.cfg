CONSTANTS
    Dates <- MCDates
    J2000 = 5
    EraOf <- MCEraOf
    SegOf <- MCSegOf
    Paths = {"def", "res"}
    DefaultPath = "def"
    Clients <- MCClients
SPECIFICATION Spec
INVARIANTS TypeOK OpenFileHasConstants PositionIsOfItsDate FlagTellsSource
PROPERTY KeepsContract
