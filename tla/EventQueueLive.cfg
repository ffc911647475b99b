CONSTANTS
    Events = {e1, e2}
    Poison = {e1}
    Drain = drain
    MaxQueued = 2
    Batch = 1
    SchemaChange = TRUE
    MaxFaults = 3
SPECIFICATION FairSpec
PROPERTIES QueuedIsEventuallyStored
