SPECIFICATION FairSpec
CONSTANTS
    g1 = g1
    g2 = g2
    kitchen = kitchen
    bedroom = bedroom
    l1 = l1
    l2 = l2
    s1 = s1
    Groups = {g1, g2, g3}
    Names = {kitchen, bedroom, hall}
    Lights = {l1, l2}
    Scenes = {s1}
    Levels = {0, 3}
    Percentages = {0, 1, 100, 101}
    InitialBridges <- Houses
    Renames = TRUE
    Reuse = FALSE
    MaxChanges = 2
    MaxFailures = 1
INVARIANTS
    TypeOK
    ViewsFollowCache
    AskedIsShown
PROPERTIES
    DisplaysConverge
    RoutineGoesOn
CHECK_DEADLOCK FALSE
