------------------------------ MODULE Records ------------------------------
(***************************************************************************)
(* The PostgreSQL schema of the service (changelog/db.changelog-1.0.xml):  *)
(* six tables, each a set of rows, and a clock.  The rows keep the columns *)
(* that decide something: ids, keys, addresses, permissions and times.     *)
(* Names, addresses and telephone numbers are left out.                    *)
(*                                                                         *)
(* A table is a set of rows, not a function of a key, so that a uniqueness *)
(* the database is trusted to keep is something that can be violated.      *)
(*                                                                         *)
(* The module has the state, its types and the invariants every reader of  *)
(* the database relies on.  AtomicRecords says what may happen to the      *)
(* state; Transactions says how the code does it, statement by statement.  *)
(***************************************************************************)
EXTENDS Naturals

CONSTANTS
    Subjects,       \* `sub` claims of GOV.UK One Login accounts, one issuer
    People,         \* ids of person rows
    Organisations,  \* ids of organisation rows
    Invitations,    \* ids of invitation rows; one token hash each
    Emails,         \* addresses as users type them
    Lower,          \* String.prototype.toLowerCase on Emails
    Sbis,           \* single business identifiers
    None,           \* null or undefined
    Lifetime,       \* invitationLifetimeDays, in ticks of the clock
    MaxClock        \* bound: the clock stops here

ASSUME LowerAssumption ==
    /\ Lower \in [Emails -> Emails]
    /\ \A e \in Emails : Lower[Lower[e]] = Lower[e]

ASSUME ClockAssumption == Lifetime \in Nat \ {0} /\ MaxClock \in Nat

ASSUME NoneAssumption ==
    None \notin Subjects \cup People \cup Organisations \cup Invitations
                \cup Emails \cup Sbis \cup Nat \cup {"owner", "member"}

VARIABLES
    clock,          \* what Date.now() and now() read
    people,
    identities,     \* external_identity
    organisations,
    memberships,    \* organisation_person
    invitations,
    auditEvents     \* audit_event

recordVars == <<clock, people, identities, organisations, memberships,
                invitations, auditEvents>>

Permissions == {"owner", "member"}

EventTypes == {"person.registered", "organisation.created",
               "invitation.created", "invitation.accepted"}

Time == 0 .. MaxClock

PersonRow == [id : People, email : Emails]
IdentityRow == [subject : Subjects, person : People]
OrganisationRow == [id : Organisations, sbi : Sbis]
MembershipRow == [organisation : Organisations, person : People,
                  permission : Permissions]
InvitationRow == [id : Invitations, organisation : Organisations,
                  invitedBy : People, email : Emails, permission : Permissions,
                  expiresAt : Nat, acceptedAt : Time \cup {None}]
AuditRow == [eventType : EventTypes, person : People,
             organisation : Organisations \cup {None},
             invitation : Invitations \cup {None}]

RecordsTypeOK ==
    /\ clock \in Time
    /\ people \subseteq PersonRow
    /\ identities \subseteq IdentityRow
    /\ organisations \subseteq OrganisationRow
    /\ memberships \subseteq MembershipRow
    /\ invitations \subseteq InvitationRow
    /\ auditEvents \subseteq AuditRow

EmptyRecords ==
    /\ clock = 0
    /\ people = {}
    /\ identities = {}
    /\ organisations = {}
    /\ memberships = {}
    /\ invitations = {}
    /\ auditEvents = {}

-----------------------------------------------------------------------------
\* The audit rows the four services write.  Each is the arguments of one
\* recordAuditEvent call; `detail` is kept as the invitation id it holds.

Registered(person) ==
    [eventType |-> "person.registered", person |-> person,
     organisation |-> None, invitation |-> None]

Created(person, organisation) ==
    [eventType |-> "organisation.created", person |-> person,
     organisation |-> organisation, invitation |-> None]

Invited(person, organisation, invitation) ==
    [eventType |-> "invitation.created", person |-> person,
     organisation |-> organisation, invitation |-> invitation]

Accepted(person, organisation, invitation) ==
    [eventType |-> "invitation.accepted", person |-> person,
     organisation |-> organisation, invitation |-> invitation]

Owner(organisation, person) ==
    [organisation |-> organisation, person |-> person, permission |-> "owner"]

-----------------------------------------------------------------------------
\* Ids are primary keys: two rows of one table never share one.
IdsAreKeys ==
    /\ \A p, q \in people : p.id = q.id => p = q
    /\ \A o, q \in organisations : o.id = q.id => o = q
    /\ \A i, j \in invitations : i.id = j.id => i = j

\* A One Login account registers once and a registration leaves nothing behind
\* but its own person: every person has exactly one account and every account
\* at most one person.  registerPerson relies on the unique key on (issuer,
\* subject) for this, not on a read, and on the rollback of createPerson.
EveryPersonHasOneIdentity ==
    /\ \A p \in people : \E i \in identities : i.person = p.id
    /\ \A i \in identities : \E p \in people : i.person = p.id
    /\ \A i, j \in identities : (i.subject = j.subject \/ i.person = j.person) => i = j

\* The same business cannot be created twice, however many people submit its
\* single business identifier at once (comment of changeSet 4).
SbiIsUnique ==
    \A o, q \in organisations : o.sbi = q.sbi => o = q

\* No business is ever visible without an owner: the organisation and its
\* founder's membership appear together or not at all.
EveryOrganisationHasOwner ==
    \A o \in organisations :
        \E m \in memberships : m.organisation = o.id /\ m.permission = "owner"

\* A person has one permission in a business, so requireMembership never has
\* two rows to choose from.
OneMembershipPerPerson ==
    \A m, n \in memberships :
        m.organisation = n.organisation /\ m.person = n.person => m = n

\* Every invitation was made by somebody who owns its business: the check of
\* requireMembership, made before the transaction, still stands at its commit.
InvitersAreOwners ==
    \A i \in invitations : Owner(i.organisation, i.invitedBy) \in memberships

\* Membership is never picked up by accident.  A member founded the business,
\* or accepted an invitation to that business, carrying that permission and
\* addressed to that person's own email address, ignoring case.
MembershipIsEarned ==
    \A m \in memberships :
        \/ /\ m.permission = "owner"
           /\ Created(m.person, m.organisation) \in auditEvents
        \/ \E i \in invitations, p \in people :
               /\ i.organisation = m.organisation
               /\ i.permission = m.permission
               /\ i.acceptedAt # None
               /\ p.id = m.person
               /\ i.email = Lower[p.email]
               /\ Accepted(m.person, m.organisation, i.id) \in auditEvents

\* No invitation is accepted after it expired, although it is checked before the
\* transaction that accepts it, nor before it could have been.
AcceptedInTime ==
    \A i \in invitations :
        i.acceptedAt # None => i.acceptedAt < i.expiresAt /\ i.acceptedAt <= clock

\* One invitation admits one person, however many follow its link at once.
OneAcceptancePerInvitation ==
    \A a, b \in auditEvents :
        /\ a.eventType = "invitation.accepted"
        /\ b.eventType = "invitation.accepted"
        /\ a.invitation = b.invitation
        => a = b

\* Every record has the event of the transaction that made it ...
EveryRecordIsAudited ==
    /\ \A p \in people : Registered(p.id) \in auditEvents
    /\ \A o \in organisations : \E p \in people : Created(p.id, o.id) \in auditEvents
    /\ \A i \in invitations : Invited(i.invitedBy, i.organisation, i.id) \in auditEvents
    /\ \A i \in invitations : i.acceptedAt # None =>
           \E m \in memberships :
               /\ m.organisation = i.organisation
               /\ m.permission = i.permission
               /\ Accepted(m.person, i.organisation, i.id) \in auditEvents

\* ... and every event has its record.
EventHasRecord(a) ==
    /\ a.eventType = "person.registered" => \E p \in people : a = Registered(p.id)
    /\ a.eventType = "organisation.created" =>
           \E o \in organisations :
               a = Created(a.person, o.id) /\ Owner(o.id, a.person) \in memberships
    /\ a.eventType = "invitation.created" =>
           \E i \in invitations : a = Invited(i.invitedBy, i.organisation, i.id)
    /\ a.eventType = "invitation.accepted" =>
           \E i \in invitations :
               /\ i.acceptedAt # None
               /\ a = Accepted(a.person, i.organisation, i.id)
               /\ [organisation |-> i.organisation, person |-> a.person,
                   permission |-> i.permission] \in memberships

EveryEventHasRecord == \A a \in auditEvents : EventHasRecord(a)

\* The audit trail and the records agree in both directions, whichever
\* transactions were rolled back and whichever replies were lost.
AuditMatchesRecords == EveryRecordIsAudited /\ EveryEventHasRecord

\* References never dangle: the foreign keys of the schema.
ReferencesResolve ==
    /\ \A m \in memberships :
        /\ \E o \in organisations : o.id = m.organisation
        /\ \E p \in people : p.id = m.person
    /\ \A i \in invitations : \E o \in organisations : o.id = i.organisation

=============================================================================
