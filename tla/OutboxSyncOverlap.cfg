CONSTANTS
    agent1 = agent1 agent2 = agent2 session = session summary = summary
    memory1 = memory1 memory2 = memory2 contradiction = contradiction
    Keys = {memory1}
    Values = {same}
    Names = {}
    Vectors = {x}
    None = none
    TableOf <- MCTableOf
    ParentOf <- MCParentOf
    MayHold <- MCMayHold
    Named = {}
    Archivable = {}
    Pushers = {p1, p2}
    Limit = 1
    BatchRows = 1
    MaxRetries = 1
    WithAudit = FALSE
    MaxChanges = 2
    MaxFaults = 0
SPECIFICATION Spec
PROPERTIES FencedWrites
