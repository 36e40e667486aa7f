CONSTANTS
    NumOps = 4
    Programs <- MCPrograms
    KindOf <- MCKinds
    KeyOf <- MCKeys
    OnceKeys <- MCOnce
    Correlated <- MCCorrelated
    Alike = FALSE
    MaxSends = 2
SPECIFICATION FairSpec
INVARIANTS
    DraftsAreVisible
    NoTwin
    CommittedIsLanded
    OnceExecutesOnce
PROPERTIES
    RequestsSettle
CHECK_DEADLOCK FALSE
