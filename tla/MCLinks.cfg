SPECIFICATION FairSpec
CONSTANTS
    u1 = u1
    u2 = u2
    local = local
    b1 = b1
    b2 = b2
    Batches = {b1, b2}
    URLs = {u1, u2, local}
    Inputs <- MCInputs
    Refused = {local}
    MaxURLs = 3
    MaxConcurrent = 2
INVARIANTS ResultsInOrder
PROPERTIES ResultsStable CancelDrains
CHECK_DEADLOCK FALSE
