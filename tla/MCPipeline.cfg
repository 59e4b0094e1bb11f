SPECIFICATION Spec
CONSTANTS
    f1 = f1
    Files = {f1}
    Versions = {1, 2}
    Damaged = {2}
    Revs = {1, 2}
    TagsOf <- MCTagsOf
    Tools = {"import", "retry", "sync", "rebuild", "clean", "refresh"}
    LegacyRevs = {1}
    FailureLimit = 1
    MaxJobs = 3
    MaxEdits = 1
    MaxStamp = 3
INVARIANTS
    Sound
    StampsAreHonest
PROPERTIES
    NothingLost
    SuccessIsTrue
CHECK_DEADLOCK FALSE
