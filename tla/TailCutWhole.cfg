CONSTANTS
    Queries <- MCQueries
    MaxCommits = 3
    MaxDamage = 2
SPECIFICATION Spec
INVARIANTS
    TrustedIsWhole
    NothingBuiltOnAHole
