\* One request at a time, of any kind, with a failure.
CONSTANTS
    b1 = b1
    b2 = b2
    r1 = r1
    r2 = r2
    alice = alice
    bob = bob
    k1 = k1
    k2 = k2
    k3 = k3
    n1 = n1
    n2 = n2
    None = None
    Browsers = {b1}
    Slots = {r1}
    Subjects = {alice, bob}
    SessionIds = {k1, k2}
    Flows = {n1, n2}
    Links = {"invitation"}
    Routes = {"page", "action", "signIn", "start", "callback", "signOut", "signedOut", "forms", "yourName", "contactDetails", "checkAnswers", "confirmation"}
    MaxFailures = 1
SYMMETRY JourneySymmetry
SPECIFICATION Spec
INVARIANTS
    TypeOK
    SignedOutStaysOut
    OnlyRegisteredAreServed
PROPERTY ImplementsRegistrations
