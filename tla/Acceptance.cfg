\* Acceptances and new invitations racing for a business in use: two requests at
\* once, each with a connection.
CONSTANTS
    alice = alice
    bob = bob
    carol = carol
    p1 = p1
    p2 = p2
    p3 = p3
    farm = farm
    mill = mill
    i1 = i1
    i2 = i2
    i3 = i3
    s1 = s1
    s2 = s2
    s3 = s3
    sbi1 = sbi1
    sbi2 = sbi2
    None = None
    Subjects = {alice, bob, carol}
    People = {p1, p2, p3}
    Organisations = {farm}
    Invitations = {i1, i2, i3}
    Emails = {"Ann@","ann@","bob@"}
    Lower <- MCLower
    LoginEmail <- MCLoginEmail
    Sbis = {sbi1}
    Lifetime = 1
    MaxClock = 1
    Slots = {s1, s2}
    MaxPoolSize = 2
SYMMETRY SlotSymmetry
SPECIFICATION SeededSpec
INVARIANTS
    TransactionsInvariant
    AcceptedInTime
    InvitersAreOwners
    MembershipIsEarned
    OneMembershipPerPerson
    OneAcceptancePerInvitation
    AnswersAreTrue
    NoDeadlock
PROPERTY StepsAreAtomic
