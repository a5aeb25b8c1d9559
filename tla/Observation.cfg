CONSTANTS
    o1 = o1  o2 = o2  o3 = o3
    Observers = {o1, o2, o3}
    Hours <- TwoHours
    WindowOf <- LaterFirst
    Readings = {2}
    Null = null
    Epsilon = 1
    MinValid = 0
    MaxValid = 1
    NoRow = none
SPECIFICATION ObsFairSpec
INVARIANTS ChainsAreSound
PROPERTY ObserveEnds
CHECK_DEADLOCK FALSE
