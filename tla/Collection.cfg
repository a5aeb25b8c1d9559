SPECIFICATION MCSpec
CONSTANTS
    c1 = c1  c2 = c2  c3 = c3  k1 = k1  k2 = k2  l1 = l1  l2 = l2  l3 = l3  l4 = l4
    Collects = {c1, c2, c3, k1, k2}
    Replays = {r1}
    Locations = {l1, l2, l3, l4}
    LocationOf <- LocationMap
    Targets = {t1, t2}
    Nobody = Nobody
    NoTime = NoTime
    FailureThreshold = 2
    ProbeDelay = 1
    Hour = 1
    MaxClock = 1
    MaxInvalid = 1
    Answers <- AnswerMap
    MaxCorrupt = 1
SYMMETRY Symmetric
INVARIANTS TypeOK DedupIsSound LineageIsWhole BreakerIsSound
CHECK_DEADLOCK FALSE
