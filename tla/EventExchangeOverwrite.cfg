CONSTANTS
    Devices = {mac, vps}
    Keys = {k1}
    None = none
    Legacy = legacy
    LegacyRows = {}
    Excluded = {}
    Limit = 1
    MaxLag = 0
    LeaseMayLapse = FALSE
    MaxEvents = 2
    MaxFaults = 0
SPECIFICATION Spec
PROPERTIES NewerSupersedesOlder
