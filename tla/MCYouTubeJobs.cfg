CONSTANTS
    j1 = j1
    j2 = j2
    j3 = j3
    u1 = u1
    NoJob = NoJob
    Nobody = Nobody
    Publisher = Publisher
    Jobs <- ThreeJobs
    Same <- Duplicates
    Users <- OneUser
    MaxPending = 2
    Contended = TRUE
SPECIFICATION FairSpec
INVARIANTS
    Sound
PROPERTIES
    RecordsAreHonest
    EveryJobEnds
