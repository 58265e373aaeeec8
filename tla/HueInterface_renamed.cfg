SPECIFICATION FairSpec
CONSTANTS
    g1 = g1
    g2 = g2
    kitchen = kitchen
    bedroom = bedroom
    l1 = l1
    l2 = l2
    s1 = s1
    Groups = {g1, g2}
    Names = {kitchen, bedroom, hall}
    Lights = {l1, l2}
    Scenes = {s1}
    Levels = {0, 3}
    Percentages = {}
    InitialBridges <- Houses
    Renames = TRUE
    Reuse = FALSE
    MaxChanges = 2
    MaxFailures = 0
PROPERTY KeptUpToDate
CHECK_DEADLOCK FALSE
