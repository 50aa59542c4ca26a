SPECIFICATION SetupSpec
CONSTANTS
    FoundVersions = {0, 2}
    MaxKills = 1
    MaxDrops = 0
    MaxSetups = 2
CHECK_DEADLOCK FALSE
INVARIANTS
    KilledSetupCanBeRepeated
