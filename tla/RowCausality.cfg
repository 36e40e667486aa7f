CONSTANTS
    Fields <- MCFields
    Ops <- MCOps
    Calls <- MCCalls
    Queries = {"q"}
    PatchedBy <- MCPatchedBy
    ValueOf <- MCValueOf
    WholeRow = FALSE
    MaxTroubles = 1
    MaxEvents = 1
    Prunes = TRUE
SPECIFICATION Spec
INVARIANTS
    PendingHolds
    NoResidue
    GoneStaysGone
PROPERTIES
    OwnValueWins
CHECK_DEADLOCK FALSE
