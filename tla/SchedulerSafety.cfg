SPECIFICATION Spec
CONSTANTS
    s1 = s1  s2 = s2  i1 = i1  i2 = i2  w1 = w1  w2 = w2
    Slots <- TwoSlots
    SlotTime <- SlotOrder
    NoSlot = NoSlot
    Instances = {i1, i2}
    Workers = {w1}
    ClaimBatch = 2
    LeaseDuration = 4
    JobTimeout = 1
    Interval = 1
    TickLag = 1
    MaxAttempts = 2
    MaxLead = 0
    RunCap = 0
    MaxCrashes = 1
SYMMETRY Processes
INVARIANTS SingleExecutor HoldersAreCurrent
 
