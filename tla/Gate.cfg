SPECIFICATION InhabitedSpec
CONSTANTS
    p1 = p1
    p2 = p2
    o1 = o1
    o2 = o2
    s1 = s1
    i1 = i1
    i2 = i2
    k1 = k1
    k2 = k2
    x1 = x1
    x2 = x2
    annTyped = annTyped
    ann = ann
    bob = bob
    None = None
    Malformed = Malformed
    Subjects = {k1, k2}
    People = {p1, p2}
    Organisations = {o1, o2}
    Invitations = {i1}
    Sbis = {x1, x2}
    Emails <- MCEmails
    Lower <- MCLower
    Refusals <- MCRefusals
    Slots = {s1}
    Lifetime = 1
    MaxClock = 1
INVARIANTS
    TypeOK
    StrangersSeeNothing
    PageAndFormAgree
    NobodyIsListedTwice
    FirstMessageWins
PROPERTIES
    RedirectedBusinessOpens
