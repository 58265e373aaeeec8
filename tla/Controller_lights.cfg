SPECIFICATION LightsSpec
CONSTANTS
    Rooms = {"kitchen", "office"}
    NoRoom = "none"
    Environments <- MCEnvironments
    MaxDisconnects = 0
    MaxManual = 0
    MaxToggles = 1
    MaxReloads = 0
INVARIANT ElementsInSync
CHECK_DEADLOCK FALSE
