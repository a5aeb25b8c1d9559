CONSTANTS
    b1 = b1  b2 = b2  b3 = b3
    Batches = {b1, b2, b3}
    Providers = {1, 2}
    CellSets = {{}, {1}, {2}, {1, 2}}
    Unlinked = none
    MaxEvidence <- EvidenceBound
SPECIFICATION PublicationSpec
SYMMETRY Runs
INVARIANT OneLiveRow
CHECK_DEADLOCK FALSE
