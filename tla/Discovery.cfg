\* Two requests at once, while One Login changes twice and something fails once.
CONSTANTS
    c1 = c1
    c2 = c2
    Boot = Boot
    None = None
    Slots = {c1, c2}
    Settings = {"privateKey", "clientId", "redisPassword", "port"}
    MaxAges = {None}
    DiscoveryCacheTtl = 1
    CooldownDuration = 1
    CacheMaxAge = 2
    MaxChanges = 2
    MaxFailures = 1
SPECIFICATION FairSpec
INVARIANTS
    TypeOK
    FailsFast
    OutagesAreBridged
PROPERTIES
    NoRefusalOnceCaughtUp
    RefusalsEnd
