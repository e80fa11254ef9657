\* Three requests competing for two connections: every one is answered.
CONSTANTS
    alice = alice
    bob = bob
    carol = carol
    p1 = p1
    p2 = p2
    p3 = p3
    farm = farm
    mill = mill
    i1 = i1
    i2 = i2
    i3 = i3
    s1 = s1
    s2 = s2
    s3 = s3
    sbi1 = sbi1
    sbi2 = sbi2
    None = None
    Subjects = {alice}
    People = {p1, p2}
    Organisations = {farm}
    Invitations = {i1}
    Emails = {"ann@"}
    Lower <- OneCase
    LoginEmail <- SameLogin
    Sbis = {sbi1}
    Lifetime = 1
    MaxClock = 0
    Slots = {s1, s2, s3}
    MaxPoolSize = 2
SPECIFICATION FairSpec
INVARIANT NoDeadlock
PROPERTY EveryRequestIsAnswered
