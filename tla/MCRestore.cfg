CONSTANTS
    user = user
    library = library
    sidecars = sidecars
    Components <- AllComponents
    Databases <- AllDatabases
    absent = absent
    fresh = fresh
    MaxVersion = 2
SPECIFICATION Spec
INVARIANTS
    Sound
    NothingLost
    AnswerIsTrue
PROPERTIES
    IsAReplacement
