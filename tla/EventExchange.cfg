CONSTANTS
    mac = mac
    vps = vps
    k1 = k1
    k2 = k2
    Devices = {mac, vps}
    Keys = {k1, k2}
    None = none
    Legacy = legacy
    LegacyRows <- MCLegacyRows
    Excluded = {k2}
    Limit = 2
    MaxLag = 1
    LeaseMayLapse = FALSE
    MaxEvents = 2
    MaxFaults = 1
SPECIFICATION MCSpec
INVARIANTS TypeOK NothingUnpublished CursorIsSafe AppliedOnce KnownIsApplied NoRegression
PROPERTIES ImplementsSharedLog
