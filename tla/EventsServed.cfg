CONSTANTS
    Slots = {"created", "typing"}
    Debounced = {"typing"}
    Owners = {"chat", "list"}
    MaxGeneration = 2
    MaxMounts = 3
    MaxEvents = 1
    MaxErrors = 2
    MaxThrows = 1
    MaxFlips = 1
SPECIFICATION Spec
INVARIANTS
    OpenIsHeard
    OwnedIsServed
    NothingCrossesReset
PROPERTIES
    Reconnects
CHECK_DEADLOCK FALSE
