SPECIFICATION FairSpec
CONSTANTS
    c1 = c1
    c2 = c2
    Client = {c1, c2}
    Exclusive = {}
    MaxReqs = 1
    MaxWatches = 1
    MaxFaults = 0
PROPERTIES RequestsWoken
CHECK_DEADLOCK FALSE
