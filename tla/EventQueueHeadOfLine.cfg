CONSTANTS
    Events = {e1, e2}
    Poison = {e1}
    Drain = drain
    MaxQueued = 2
    Batch = 2
    SchemaChange = FALSE
    MaxFaults = 1
SPECIFICATION FairSpec
PROPERTIES QueuedIsEventuallyRetried
