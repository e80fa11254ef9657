\* Two browsers, signed in and with their answers given, a tab of the first back
\* from One Login: signing in, registering, signing out, two requests at once.
CONSTANTS
    b1 = b1
    b2 = b2
    r1 = r1
    r2 = r2
    alice = alice
    bob = bob
    k1 = k1
    k2 = k2
    k3 = k3
    n1 = n1
    n2 = n2
    None = None
    Browsers = {b1, b2}
    Slots = {r1, r2}
    Subjects = {alice, bob}
    SessionIds = {k1, k2, k3}
    Flows = {n1}
    Links = {}
    Routes = {"callback", "signOut", "checkAnswers"}
    MaxFailures = 0
SYMMETRY SlotSymmetry
SPECIFICATION SignedInSpec
INVARIANTS
    PersonIsOwn
PROPERTIES
    SessionIsStable
    SignedOutForGood
    ImplementsRegistrations
