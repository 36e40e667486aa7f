CONSTANTS
    Models <- MCModels
    Entries <- MCEntries
    Cells <- MCCells
    ModelOf <- MCModelOf
    EntryOf <- MCEntryOf
    WriteSets <- MCWriteSets
    Refusable <- MCLedgerRefused
    MaxCommits = 3
SPECIFICATION FairSpec
PROPERTIES
    CommitsAreAtomic
    CompactionDrains
