CONSTANTS
    t1 = t1
    t2 = t2
    r1 = r1
    r2 = r2
    w1 = w1
    w2 = w2
    Nobody = Nobody
    Toggles <- TwoToggles
    Requests <- TwoRequests
    Workers <- TwoWorkers
SPECIFICATION FairSpec
INVARIANTS
    Sound
PROPERTIES
    IsASwitch
    ToggleEnds
