\* An invitation is followed before registering.
CONSTANTS
    b1 = b1
    b2 = b2
    r1 = r1
    r2 = r2
    alice = alice
    bob = bob
    k1 = k1
    k2 = k2
    k3 = k3
    n1 = n1
    n2 = n2
    None = None
    Browsers = {b1}
    Slots = {r1}
    Subjects = {alice, bob}
    SessionIds = {k1}
    Flows = {n1}
    Links = {"invitation"}
    Routes = {"page", "checkAnswers", "confirmation"}
    MaxFailures = 0
SPECIFICATION SignedInSpec
INVARIANTS
    InvitationIsRemembered
