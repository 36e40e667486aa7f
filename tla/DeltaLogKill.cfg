CONSTANTS
    Models <- MCModels
    Entries <- MCEntries
    Cells <- MCCells
    ModelOf <- MCModelOf
    EntryOf <- MCEntryOf
    WriteSets <- MCWriteSets
    Refusable <- MCAllRefusals
    MaxCommits = 3
SPECIFICATION Spec
INVARIANTS
    AcceptedCommitsSurvive
    OnlyRefusedIsVolatile
    LedgerPrecedesRows
PROPERTY
    RecoveryMovesForward
