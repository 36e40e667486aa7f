CONSTANTS
    Models <- MCModels
    Versions <- MCVersions
    DataOf <- MCDataOf
    SchemaOf <- MCSchemaOf
    Operations = {1, 2}
    Tickets = {3}
    MaxKills = 2
    MaxResets = 1
    MaxRefusals = 1
SPECIFICATION Spec
INVARIANTS
    ResetIsFinal
    CacheFits
    OutboxKept
CHECK_DEADLOCK FALSE
