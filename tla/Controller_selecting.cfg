SPECIFICATION Spec
CONSTANTS
    Rooms = {"kitchen", "office"}
    NoRoom = "none"
    Environments <- MCEnvironments
    MaxDisconnects = 1
    MaxManual = 1
    MaxToggles = 0
    MaxReloads = 0
INVARIANTS
    HiddenWhileSelecting
CHECK_DEADLOCK FALSE
