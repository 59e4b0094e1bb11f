SPECIFICATION ArtistSpec
CONSTANTS
    Tags = {"a"}
    Posts = {1, 2, 3}
    Limits = {1}
    Platforms = {"twitter", "pixiv"}
    Kinds = {"avatar"}
    Urls = {"first", "again", "other"}
    ContentOf <- MCContentOf
    FirstUrl = "first"
    Inline = {"twitter"}
    Pages = {Null, {2}}
    Operations = {"view", "follow", "list", "check", "seen", "refresh"}
    u = u
    v = v
    Callers = {u, v}
    Null = Null
    MaxRequests = 3
    MaxFaults = 1
    MaxChanges = 1
SYMMETRY Symmetry
INVARIANTS
    ArtistSound
    LookupsAreHonest
    AnswersAreHeld
PROPERTIES
    NewsIsKept
CHECK_DEADLOCK FALSE
