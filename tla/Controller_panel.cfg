SPECIFICATION FairSpec
CONSTANTS
    Rooms = {"kitchen", "office"}
    NoRoom = "none"
    Environments <- MCEnvironments
    MaxDisconnects = 1
    MaxManual = 2
    MaxToggles = 3
    MaxReloads = 1
INVARIANTS
    TypeOK
    PressedOnlyOnline
    ShowsItsRoom
    TogglesInTurn
PROPERTIES
    NeverStranded
    TogglesSettle
    PanelComesBack
CHECK_DEADLOCK FALSE
