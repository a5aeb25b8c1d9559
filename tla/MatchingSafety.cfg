CONSTANTS
    o1 = o1  o2 = o2  o3 = o3  m1 = m1  m2 = m2
    Observers = {o1, o2, o3}
    Hours <- OneHour
    WindowOf <- SameWindow
    Readings = {2}
    Null = null
    Epsilon = 1
    MinValid = 0
    MaxValid = 1
    NoRow = none
    Snapshots = {1, 2}
    TargetOf <- SameTarget
    Matchers = {m1, m2}
    Scheduled = {}
    ChunkSize = 1
    RematchLimit = 1
SPECIFICATION Spec
SYMMETRY Processes
INVARIANTS MatchTypeOK EvaluatedOnce NeverStranded
CHECK_DEADLOCK FALSE
