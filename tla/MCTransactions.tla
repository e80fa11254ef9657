--------------------------- MODULE MCTransactions ---------------------------
(***************************************************************************)
(* Instances of Transactions for TLC: the values of the constants, the     *)
(* symmetries, and the states some runs start from.                        *)
(***************************************************************************)
EXTENDS Transactions, TLC

CONSTANTS
    alice, bob, carol,          \* One Login accounts
    p1, p2, p3,                 \* person ids
    farm, mill,                 \* organisation ids
    i1, i2, i3,                 \* invitation ids
    sbi1, sbi2,                 \* single business identifiers
    s1, s2, s3                  \* slots

\* Two spellings of one address and another address.
MCLower == [e \in {"Ann@", "ann@", "bob@"} |-> IF e = "Ann@" THEN "ann@" ELSE e]
OneCase == [e \in {"ann@"} |-> e]
TwoAddresses == [e \in {"ann@", "bob@"} |-> e]
BothCases == [e \in {"Ann@", "ann@"} |-> "ann@"]

\* Each account signs in with the address that its person may or may not repeat.
MCLoginEmail == [a \in Subjects |-> IF a = bob THEN "ann@" ELSE "bob@"]
SameLogin == [a \in Subjects |-> "ann@"]

RegistrySymmetry ==
    Permutations(Slots) \cup Permutations(Subjects) \cup Permutations(People)
    \cup Permutations(Organisations) \cup Permutations(Sbis)

SlotSymmetry == Permutations(Slots)

-----------------------------------------------------------------------------
\* A database in use: alice owns the farm and has invited ann@ twice, once as
\* a member and once as an owner.  bob and carol both gave ann@ as their email
\* address, in different case; alice's is bob@.  It is reached by the three
\* registrations, the creation and the two invitations, one after the other.
Person(subject, person, email) ==
    [row |-> [id |-> person, email |-> email],
     identity |-> [subject |-> subject, person |-> person]]

SeedPeople == {Person(alice, p1, "bob@"), Person(bob, p2, "Ann@"), Person(carol, p3, "ann@")}

SeedInvitation(invitation, permission) ==
    [id |-> invitation, organisation |-> farm, invitedBy |-> p1, email |-> "ann@",
     permission |-> permission, expiresAt |-> Lifetime, acceptedAt |-> None]

Seeded ==
    /\ clock = 0
    /\ people = {p.row : p \in SeedPeople}
    /\ identities = {p.identity : p \in SeedPeople}
    /\ organisations = {[id |-> farm, sbi |-> sbi1]}
    /\ memberships = {Owner(farm, p1)}
    /\ invitations = {SeedInvitation(i1, "member"), SeedInvitation(i2, "owner")}
    /\ auditEvents = {Registered(p) : p \in {p1, p2, p3}}
                     \cup {Created(p1, farm), Invited(p1, farm, i1), Invited(p1, farm, i2)}
    /\ pc = [s \in Slots |-> "idle"]
    /\ req = [s \in Slots |-> NoRequest]
    /\ written = [s \in Slots |-> {}]
    /\ connected = {}
    /\ answer = [s \in Slots |-> None]

SeededSpec == Seeded /\ [][Next]_vars

=============================================================================
