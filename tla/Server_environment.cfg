SPECIFICATION FairSpec
CONSTANTS
    Services <- MCServices
    Commands <- MCCommands
    Configurations <- MCConfigurations
    Unreadable = Unreadable
    Messages <- MCMessages
    Reloads = {r1, r2}
    Boot = Boot
    MaxEdits = 2
INVARIANTS
    TypeOK
    OfferedStaysServed
    ReloadsTakeEffect
PROPERTIES
    StartupEnds
CHECK_DEADLOCK FALSE
