CONSTANTS
    agent1 = agent1 agent2 = agent2 session = session summary = summary
    memory1 = memory1 memory2 = memory2 contradiction = contradiction
    Keys = {session, summary}
    Values = {same}
    Names = {}
    Vectors = {}
    None = none
    TableOf <- MCTableOf
    ParentOf <- MCParentOf
    MayHold <- MCMayHold
    Named = {}
    Archivable = {session}
    Pushers = {p1}
    Limit = 2
    BatchRows = 2
    MaxRetries = 1
    WithAudit = FALSE
    MaxChanges = 3
    MaxFaults = 0
SPECIFICATION Spec
INVARIANTS QuietTargetIsProjection
