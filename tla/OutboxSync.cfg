CONSTANTS
    agent1 = agent1 agent2 = agent2 session = session summary = summary
    memory1 = memory1 memory2 = memory2 contradiction = contradiction
    Keys = {agent1, agent2, session, summary}
    Values = {v1, v2, same}
    Names = {v1, v2}
    Vectors = {x}
    None = none
    TableOf <- MCTableOf
    ParentOf <- MCParentOf
    MayHold <- MCMayHold
    Named = {agent1, agent2}
    Archivable = {agent1, session}
    Pushers = {p1}
    Limit = 2
    BatchRows = 2
    MaxRetries = 2
    WithAudit = FALSE
    MaxChanges = 4
    MaxFaults = 1
SYMMETRY MCSymmetry
SPECIFICATION Spec
INVARIANTS TypeOK NoChangeForgotten BatchIsCurrent NamesAreUnique
PROPERTIES ImplementsMirror
