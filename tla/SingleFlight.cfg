SPECIFICATION FlightSpec
CONSTANTS
    MinInterval = 2
    MaxTime = 5
    MaxFlights = 3
    MaxResets = 2
INVARIANTS
    OneAtATime
    IntervalHolds
CHECK_DEADLOCK FALSE
