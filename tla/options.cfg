SPECIFICATION MCSpec
CONSTANTS
    Flows = {f1, f2}
    RemoteNames = {g1, c1}
    SerialNames = {r1}
    GatewayNames = {g1}
    RxNames = {r1}
    MaxItems = 2
    MaxCommands = 1
    MaxSaves = 2
    Connectors <- MCConnectors
    Frequencies = {0, 9000, 38000}
    DefaultFrequency = 40000
    Counts = {1, 21, 2000}
    Durations = {13, 560}
    ProntoWords = {0, 1, 70000}
    MaxValues = 4
    LastId = 3
INVARIANTS TypeOK RegistryMatchesButLookalikes LearnerOff
    SentOnAsHeard FramesAreWhole IdsDiffer
PROPERTIES SavesOnlyItsOwn RemovedStaysRemoved KeepsConfiguredButLookalikes HeardWhereItComesIn
SYMMETRY FlowSymmetry
