SPECIFICATION MCSpec
CONSTANTS
    None = None
    YearDays = 4
    MonthDays = 2
    Today = 10
    LastDay = 12
    Unit = 27720
    Motorcycles = {"b1", "b2"}
    MaxEntries = 3
    MaxExpenses = 2
    Places = {1, 2, 3}
    Located = {1, 2}
    Apart <- MCApart
    Country <- MCCountry
    MaxGap = 4
    MaxStops = 5
    MaxMarkers = 2
    Unknown = "??"
    MaxRow = 3
    FillOdos = {1, 3, 4}
    Writers = {"r1", "r2"}
CHECK_DEADLOCK FALSE
INVARIANT LegsAreTheWayRidden
INVARIANT ToursCoverTheRides
INVARIANT EveryKilometreOnce
INVARIANT PagesAgree
INVARIANT EveryCostOnce
INVARIANT ChainIsCurrent
