CONSTANTS
    Pages = 2
    MaxStarts = 3
    MaxTold = 1
    MaxFailures = 1
    MaxKills = 1
    MaxGone = 1
SPECIFICATION Spec
INVARIANTS
    FreshIsAsked
    StoredIsReread
    LossIsNoticed
PROPERTIES
    InvalidationIsServed
CHECK_DEADLOCK FALSE
