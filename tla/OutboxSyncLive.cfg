CONSTANTS
    agent1 = agent1 agent2 = agent2 session = session summary = summary
    memory1 = memory1 memory2 = memory2 contradiction = contradiction
    Keys = {memory1, memory2, contradiction}
    Values = {same}
    Names = {}
    Vectors = {}
    None = none
    TableOf <- MCTableOf
    ParentOf <- MCParentOf
    MayHold <- MCMayHold
    Named = {}
    Archivable = {memory1}
    Pushers = {p1}
    Limit = 1
    BatchRows = 2
    MaxRetries = 1
    WithAudit = TRUE
    MaxChanges = 4
    MaxFaults = 1
SPECIFICATION FairSpec
INVARIANTS NoChangeForgotten
PROPERTIES EventuallyMirrored
