SPECIFICATION MCSpec
CONSTANTS
    Serials = {s1, s2}
    Calls = {c1}
    MaxGens = 3
    MaxChanges = 1
INVARIANTS TypeOK ShutdownFreesGateway SettingsTakeEffect
PROPERTIES ShownCatchesUp SetupEnds
CHECK_DEADLOCK FALSE
