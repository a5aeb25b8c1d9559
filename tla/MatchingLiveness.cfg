CONSTANTS
    o1 = o1  o2 = o2  o3 = o3  m1 = m1  m2 = m2
    Observers = {o1, o2}
    Hours <- TwoHours
    WindowOf <- OverlapWindows
    Readings = {1, 2}
    Null = null
    Epsilon = 1
    MinValid = 0
    MaxValid = 1
    NoRow = none
    Snapshots = {1, 2}
    TargetOf <- OwnTarget
    Matchers = {m1}
    Scheduled = {m1}
    ChunkSize = 1
    RematchLimit = 1
SPECIFICATION FairSpec
PROPERTIES  UsableIsMatched
CHECK_DEADLOCK FALSE
