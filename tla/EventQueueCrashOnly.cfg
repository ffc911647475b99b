CONSTANTS
    Events = {e1}
    Poison = {}
    Drain = drain
    MaxQueued = 1
    Batch = 1
    SchemaChange = FALSE
    MaxFaults = 1
SPECIFICATION Spec
INVARIANTS DuplicatesOnlyByCrash
