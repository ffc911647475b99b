SPECIFICATION MCSpec
CONSTANTS
    p1 = p1  p2 = p2  up = up  down = down  note1 = note1  note2 = note2  log = log  old = old
    Ids = {1, 2, 3}
    Callers = {p1, p2}
    Texts = {up, down}
    Near <- MCNear
    Opposed <- MCOpposed
    ValidAts = {1}
    Epoch = 1
    Dates = {2}
    LastDay = 3
    MaxFaults = 1
    Experiences = {1, 2, 3}
    Users = {p1, p2}
    Names = {"g", "h", "gh"}
    GoalOf <- Goals
    Confidences = {0, 95}
    Similar <- Alike
    Contains <- Containment
    CandidateLimit = 1
    MaxUses = 2
    MaxRatings = 2
    MaxErrors = 1
    VaultPaths = {note1, note2}
    OtherPaths = {log}
    LegacyPaths = {old}
    Backends = {"nvidia", "local"}
    Contents = {"a", "b"}
    Workers = {p1, p2}
    MaxEdits = 2
    MaxWorkerErrors = 1
    Archives = {"codex"}
    Conversations = {"talk"}
    Ingestors = {p1, p2}
    MaxGrowth = 2
    MaxRowsEach = 6
    MaxBreaks = 2
    Migrators = {p1, p2}
    Models = {"nvidia", "local"}
    MaxStarts = 3
    Found = {1, 2, 3}
    RawScores = {20, 100}
    Composites = {0, 100}
    K = 20
    VectorWeight = 60
    KeywordWeight = 40
    Floor = 85
    Page = 2
    Clients = {p1, p2}
    Pieces <- PiecesOf
    CacheSize = 1
    MaxAttempts = 2
    MaxCalls = 3
    MaxRequests = 3
INVARIANTS
    PlatformTypeOK SomethingStands NoCopiesPileUp GoneIsNotServed ForgetIsReversible
    ResolvedMeansHidden PromotedOnce StuckHasCause VectorsMatchText ArchiveIsWhole NoSecondRow
     UpgradeIsSafe SecondarySignalsOnlyAdjust AnsweredOnceInOrder
    VectorIsWhatWasAsked
PROPERTIES
    SyncedMeansMirrored RepairedIsFound
SYMMETRY Symmetry
CHECK_DEADLOCK FALSE
