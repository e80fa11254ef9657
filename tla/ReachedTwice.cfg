\* Two sessions of one account, one request at a time.
CONSTANTS
    b1 = b1
    b2 = b2
    r1 = r1
    r2 = r2
    alice = alice
    bob = bob
    k1 = k1
    k2 = k2
    k3 = k3
    n1 = n1
    n2 = n2
    None = None
    Browsers = {b1, b2}
    Slots = {r1}
    Subjects = {alice, bob}
    SessionIds = {k1, k2}
    Flows = {n1, n2}
    Links = {}
    Routes = {"forms", "checkAnswers"}
    MaxFailures = 0
SPECIFICATION SignedInSpec
INVARIANTS
    RegistrationReachableOnce
