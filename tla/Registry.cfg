\* Everything from an empty database: two requests at once.
CONSTANTS
    alice = alice
    bob = bob
    carol = carol
    p1 = p1
    p2 = p2
    p3 = p3
    farm = farm
    mill = mill
    i1 = i1
    i2 = i2
    i3 = i3
    s1 = s1
    s2 = s2
    s3 = s3
    sbi1 = sbi1
    sbi2 = sbi2
    None = None
    Subjects = {alice, bob}
    People = {p1, p2}
    Organisations = {farm, mill}
    Invitations = {i1}
    Emails = {"Ann@","ann@"}
    Lower <- BothCases
    LoginEmail <- SameLogin
    Sbis = {sbi1, sbi2}
    Lifetime = 1
    MaxClock = 1
    Slots = {s1, s2}
    MaxPoolSize = 2
SYMMETRY RegistrySymmetry
SPECIFICATION Spec
INVARIANTS
    TypeOK
    TransactionsInvariant
    EveryPersonHasOneIdentity
    SbiIsUnique
    EveryOrganisationHasOwner
    AuditMatchesRecords
    AnswersAreTrue
PROPERTY ImplementsAtomicRecords
