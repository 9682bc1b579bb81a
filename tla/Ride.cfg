SPECIFICATION WorldSpec
CONSTANTS
    Procs = {p1, p2}
    Fare = 5
    Rate = 2
    Tax = 1
    PickupFree = 1
    StopFree = 1
    MaxTime = 2
    MaxRequests = 2
    None = None
INVARIANTS RideTypeOK MoneyAddsUp 
PROPERTIES OnlyRidesAreCharged WaitIsBilled

CHECK_DEADLOCK FALSE
