--------------------------- MODULE AtomicRecords ---------------------------
(***************************************************************************)
(* What the services in src/services promise their callers: each of the    *)
(* four operations that write happens at once or not at all.  There are no *)
(* statements, connections, locks or failures here; Transactions has them, *)
(* and is shown to implement this specification.                           *)
(***************************************************************************)
EXTENDS Records

\* registerPerson: a person, the account it belongs to and the audit event.
RegisterPerson(subject, person, email) ==
    /\ \A i \in identities : i.subject # subject
    /\ \A p \in people : p.id # person
    /\ people' = people \cup {[id |-> person, email |-> email]}
    /\ identities' = identities \cup {[subject |-> subject, person |-> person]}
    /\ auditEvents' = auditEvents \cup {Registered(person)}
    /\ UNCHANGED <<clock, organisations, memberships, invitations>>

\* createOrganisationWithOwner: "The person who creates a business always
\* becomes its owner."
CreateOrganisationWithOwner(person, organisation, sbi) ==
    /\ \E p \in people : p.id = person
    /\ \A o \in organisations : o.id # organisation /\ o.sbi # sbi
    /\ organisations' = organisations \cup {[id |-> organisation, sbi |-> sbi]}
    /\ memberships' = memberships \cup {Owner(organisation, person)}
    /\ auditEvents' = auditEvents \cup {Created(person, organisation)}
    /\ UNCHANGED <<clock, people, identities, invitations>>

\* inviteToOrganisation, behind requireMembership(['owner']).  The expiry was
\* computed at some time `issued` before the invitation could be seen.
InviteToOrganisation(person, organisation, invitation, email, permission, issued) ==
    /\ Owner(organisation, person) \in memberships
    /\ \A i \in invitations : i.id # invitation
    /\ issued <= clock
    /\ invitations' = invitations \cup
           {[id |-> invitation, organisation |-> organisation, invitedBy |-> person,
             email |-> Lower[email], permission |-> permission,
             expiresAt |-> issued + Lifetime, acceptedAt |-> None]}
    /\ auditEvents' = auditEvents \cup {Invited(person, organisation, invitation)}
    /\ UNCHANGED <<clock, people, identities, organisations, memberships>>

\* acceptInvitation.  The invitation was unexpired at the time `claimed` its
\* transaction began, which is the time it is stamped with.
AcceptInvitation(p, i, claimed) ==
    /\ i.acceptedAt = None
    /\ claimed <= clock
    /\ claimed < i.expiresAt
    /\ i.email = Lower[p.email]
    /\ \A m \in memberships : ~(m.organisation = i.organisation /\ m.person = p.id)
    /\ invitations' = (invitations \ {i}) \cup {[i EXCEPT !.acceptedAt = claimed]}
    /\ memberships' = memberships \cup
           {[organisation |-> i.organisation, person |-> p.id, permission |-> i.permission]}
    /\ auditEvents' = auditEvents \cup {Accepted(p.id, i.organisation, i.id)}
    /\ UNCHANGED <<clock, people, identities, organisations>>

TimePasses ==
    /\ clock < MaxClock
    /\ clock' = clock + 1
    /\ UNCHANGED <<people, identities, organisations, memberships, invitations, auditEvents>>

AtomicNext ==
    \/ \E subject \in Subjects, person \in People, email \in Emails :
           RegisterPerson(subject, person, email)
    \/ \E person \in People, organisation \in Organisations, sbi \in Sbis :
           CreateOrganisationWithOwner(person, organisation, sbi)
    \/ \E person \in People, organisation \in Organisations, invitation \in Invitations,
          email \in Emails, permission \in Permissions, issued \in Time :
           InviteToOrganisation(person, organisation, invitation, email, permission, issued)
    \/ \E p \in people, i \in invitations, claimed \in Time :
           AcceptInvitation(p, i, claimed)
    \/ TimePasses

AtomicSpec == EmptyRecords /\ [][AtomicNext]_recordVars

-----------------------------------------------------------------------------
\* Everything Records.tla says of the tables, as one inductive invariant.
Consistent ==
    /\ RecordsTypeOK
    /\ IdsAreKeys
    /\ ReferencesResolve
    /\ EveryPersonHasOneIdentity
    /\ SbiIsUnique
    /\ EveryOrganisationHasOwner
    /\ OneMembershipPerPerson
    /\ InvitersAreOwners
    /\ MembershipIsEarned
    /\ AcceptedInTime
    /\ OneAcceptancePerInvitation
    /\ AuditMatchesRecords

=============================================================================
