\* One request at a time: an invited account that gave another address.
CONSTANTS
    alice = alice
    bob = bob
    carol = carol
    p1 = p1
    p2 = p2
    p3 = p3
    farm = farm
    mill = mill
    i1 = i1
    i2 = i2
    i3 = i3
    s1 = s1
    s2 = s2
    s3 = s3
    sbi1 = sbi1
    sbi2 = sbi2
    None = None
    Subjects = {alice, bob}
    People = {p1, p2}
    Organisations = {farm}
    Invitations = {i1}
    Emails = {"ann@","bob@"}
    Lower <- TwoAddresses
    LoginEmail <- MCLoginEmail
    Sbis = {sbi1}
    Lifetime = 1
    MaxClock = 1
    Slots = {s1}
    MaxPoolSize = 2
SPECIFICATION Spec
INVARIANT InvitedAccountIsNotRefused
