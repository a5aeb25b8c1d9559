SPECIFICATION FairSpec
CONSTANTS
    s1 = s1  s2 = s2  i1 = i1  i2 = i2  w1 = w1  w2 = w2
    Slots <- TwoSlots
    SlotTime <- SlotOrder
    NoSlot = NoSlot
    Instances = {i1}
    Workers = {w1}
    ClaimBatch = 1
    LeaseDuration = 2
    JobTimeout = 1
    Interval = 1
    TickLag = 0
    MaxAttempts = 2
    MaxLead = 1
    RunCap = 0
    MaxCrashes = 2
PROPERTIES OrphansRecovered DueIsServed
