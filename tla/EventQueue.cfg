CONSTANTS
    Events = {e1, e2, e3}
    Poison = {e1}
    Drain = drain
    MaxQueued = 2
    Batch = 1
    SchemaChange = TRUE
    MaxFaults = 2
SYMMETRY MCSymmetry
SPECIFICATION Spec
INVARIANTS TypeOK NoSilentLoss ReplyIsTrue RowsHaveOneOwner DuplicateHasCause
PROPERTIES ImplementsDurableIngest
