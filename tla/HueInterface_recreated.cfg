SPECIFICATION Spec
CONSTANTS
    g1 = g1
    g2 = g2
    kitchen = kitchen
    bedroom = bedroom
    l1 = l1
    l2 = l2
    s1 = s1
    Groups = {g1, g2}
    Names = {kitchen, bedroom}
    Lights = {l1, l2}
    Scenes = {s1}
    Levels = {0, 3}
    Percentages = {}
    InitialBridges <- Houses
    Renames = FALSE
    Reuse = TRUE
    MaxChanges = 3
    MaxFailures = 0
INVARIANT ViewsFollowCache
CHECK_DEADLOCK FALSE
