------------------------ MODULE AtomicRecordsProofs ------------------------
(***************************************************************************)
(* Consistent, the conjunction of everything Records.tla says of the       *)
(* tables, is an inductive invariant of AtomicRecords: for any number of   *)
(* accounts, people, businesses and invitations, and any lifetime.         *)
(***************************************************************************)
EXTENDS AtomicRecords, TLAPS

USE LowerAssumption, ClockAssumption, NoneAssumption

\* An event recorded earlier still has its record when the tables only grow.
LEMMA EarlierEventHasRecord ==
    ASSUME EveryEventHasRecord,
           people \subseteq people', organisations \subseteq organisations',
           memberships \subseteq memberships', invitations \subseteq invitations',
           NEW a \in auditEvents
    PROVE  EventHasRecord(a)'
  BY DEF EveryEventHasRecord, EventHasRecord, Registered, Created, Invited, Accepted, Owner

LEMMA RegisterPersonKeepsConsistent ==
    ASSUME Consistent,
           NEW subject \in Subjects, NEW person \in People, NEW email \in Emails,
           RegisterPerson(subject, person, email)
    PROVE  Consistent'
<1> DEFINE P == [id |-> person, email |-> email]
           I == [subject |-> subject, person |-> person]
<1> USE DEF RegisterPerson, Registered, Created, Invited, Accepted, Owner
<1>1. RecordsTypeOK'
  BY DEF Consistent, RecordsTypeOK, PersonRow, IdentityRow, AuditRow, EventTypes
<1>2. IdsAreKeys'
  BY DEF Consistent, IdsAreKeys
<1>3. ReferencesResolve'
  BY DEF Consistent, ReferencesResolve
<1>4. EveryPersonHasOneIdentity'
  <2>1. people' = people \cup {P} /\ identities' = identities \cup {I}
    OBVIOUS
  <2>2. P.id = person /\ I.person = person /\ I.subject = subject
    OBVIOUS
  <2>3. \A i \in identities : i.person # person /\ i.subject # subject
    BY DEF Consistent, EveryPersonHasOneIdentity
  <2> HIDE DEF P, I
  <2>4. QED
    BY <2>1, <2>2, <2>3 DEF Consistent, EveryPersonHasOneIdentity
<1>5. SbiIsUnique' /\ EveryOrganisationHasOwner' /\ OneMembershipPerPerson' /\ InvitersAreOwners'
  BY DEF Consistent, SbiIsUnique, EveryOrganisationHasOwner, OneMembershipPerPerson, InvitersAreOwners
<1>6. MembershipIsEarned'
  BY DEF Consistent, MembershipIsEarned
<1>7. AcceptedInTime' /\ OneAcceptancePerInvitation'
  BY DEF Consistent, AcceptedInTime, OneAcceptancePerInvitation
<1>8. EveryRecordIsAudited'
  BY DEF Consistent, AuditMatchesRecords, EveryRecordIsAudited
<1>9. EveryEventHasRecord'
  <2> SUFFICES ASSUME NEW a \in auditEvents' PROVE EventHasRecord(a)'
    BY DEF EveryEventHasRecord
  <2>1. CASE a \in auditEvents
    BY <2>1, EarlierEventHasRecord DEF Consistent, AuditMatchesRecords
  <2>2. CASE a = Registered(person)
    <3>1. P \in people' /\ P.id = person
      OBVIOUS
    <3>2. QED
      BY <2>2, <3>1 DEF EventHasRecord
  <2>3. QED
    BY <2>1, <2>2
<1>10. QED
  BY <1>1, <1>2, <1>3, <1>4, <1>5, <1>6, <1>7, <1>8, <1>9 DEF Consistent, AuditMatchesRecords

LEMMA CreateOrganisationKeepsConsistent ==
    ASSUME Consistent,
           NEW person \in People, NEW organisation \in Organisations, NEW sbi \in Sbis,
           CreateOrganisationWithOwner(person, organisation, sbi)
    PROVE  Consistent'
<1> USE DEF CreateOrganisationWithOwner, Registered, Created, Invited, Accepted, Owner
<1>1. RecordsTypeOK'
  BY DEF Consistent, RecordsTypeOK, OrganisationRow, MembershipRow, Permissions, AuditRow, EventTypes
<1>2. IdsAreKeys'
  BY DEF Consistent, IdsAreKeys
<1>3. ReferencesResolve'
  <2> DEFINE O == [id |-> organisation, sbi |-> sbi]
             M == Owner(organisation, person)
  <2>1. organisations' = organisations \cup {O} /\ memberships' = memberships \cup {M}
    OBVIOUS
  <2>2. O.id = organisation /\ M.organisation = organisation /\ M.person = person
    OBVIOUS
  <2> HIDE DEF O, M
  <2>3. QED
    BY <2>1, <2>2 DEF Consistent, ReferencesResolve
<1>4. EveryPersonHasOneIdentity'
  BY DEF Consistent, EveryPersonHasOneIdentity
<1>5. SbiIsUnique' /\ EveryOrganisationHasOwner' /\ InvitersAreOwners'
  BY DEF Consistent, SbiIsUnique, EveryOrganisationHasOwner, InvitersAreOwners
<1>6. OneMembershipPerPerson'
  BY DEF Consistent, ReferencesResolve, OneMembershipPerPerson
<1>7. MembershipIsEarned'
  BY DEF Consistent, MembershipIsEarned
<1>8. AcceptedInTime' /\ OneAcceptancePerInvitation'
  BY DEF Consistent, AcceptedInTime, OneAcceptancePerInvitation
<1>9. EveryRecordIsAudited'
  BY DEF Consistent, AuditMatchesRecords, EveryRecordIsAudited
<1>10. EveryEventHasRecord'
  <2> SUFFICES ASSUME NEW a \in auditEvents' PROVE EventHasRecord(a)'
    BY DEF EveryEventHasRecord
  <2>1. CASE a \in auditEvents
    BY <2>1, EarlierEventHasRecord DEF Consistent, AuditMatchesRecords
  <2>2. CASE a = Created(person, organisation)
    <3>1. [id |-> organisation, sbi |-> sbi] \in organisations'
      OBVIOUS
    <3>2. Owner(organisation, person) \in memberships'
      OBVIOUS
    <3>3. QED
      BY <2>2, <3>1, <3>2 DEF EventHasRecord
  <2>3. QED
    BY <2>1, <2>2
<1>11. QED
  BY <1>1, <1>2, <1>3, <1>4, <1>5, <1>6, <1>7, <1>8, <1>9, <1>10 DEF Consistent, AuditMatchesRecords

LEMMA InviteToOrganisationKeepsConsistent ==
    ASSUME Consistent,
           NEW person \in People, NEW organisation \in Organisations,
           NEW invitation \in Invitations, NEW email \in Emails,
           NEW permission \in Permissions, NEW issued \in Time,
           InviteToOrganisation(person, organisation, invitation, email, permission, issued)
    PROVE  Consistent'
<1> DEFINE i == [id |-> invitation, organisation |-> organisation, invitedBy |-> person,
                 email |-> Lower[email], permission |-> permission,
                 expiresAt |-> issued + Lifetime, acceptedAt |-> None]
<1>1. /\ Owner(organisation, person) \in memberships
      /\ \A j \in invitations : j.id # invitation
      /\ invitations' = invitations \cup {i}
      /\ auditEvents' = auditEvents \cup {Invited(person, organisation, invitation)}
      /\ UNCHANGED <<clock, people, identities, organisations, memberships>>
  BY DEF InviteToOrganisation
<1>2. /\ i \in InvitationRow
      /\ i.id = invitation /\ i.organisation = organisation /\ i.invitedBy = person
      /\ i.acceptedAt = None
  BY DEF InvitationRow, Time
<1> HIDE DEF i
<1>3. RecordsTypeOK'
  BY <1>1, <1>2 DEF Consistent, RecordsTypeOK, AuditRow, EventTypes, Invited
<1>4. IdsAreKeys'
  BY <1>1, <1>2 DEF Consistent, IdsAreKeys
<1>5. ReferencesResolve'
  <2>1. \E o \in organisations : o.id = organisation
    BY <1>1 DEF Consistent, ReferencesResolve, Owner
  <2>2. QED
    BY <1>1, <1>2, <2>1 DEF Consistent, ReferencesResolve
<1>6. /\ EveryPersonHasOneIdentity' /\ SbiIsUnique'
      /\ EveryOrganisationHasOwner' /\ OneMembershipPerPerson'
  BY <1>1 DEF Consistent, EveryPersonHasOneIdentity, SbiIsUnique,
              EveryOrganisationHasOwner, OneMembershipPerPerson
<1>7. InvitersAreOwners'
  BY <1>1, <1>2 DEF Consistent, InvitersAreOwners, Owner
<1>8. MembershipIsEarned'
  BY <1>1 DEF Consistent, MembershipIsEarned, Created, Accepted
<1>9. AcceptedInTime' /\ OneAcceptancePerInvitation'
  BY <1>1, <1>2 DEF Consistent, AcceptedInTime, OneAcceptancePerInvitation, Invited
<1>10. EveryRecordIsAudited'
  BY <1>1, <1>2 DEF Consistent, AuditMatchesRecords, EveryRecordIsAudited,
                    Registered, Created, Invited, Accepted
<1>11. EveryEventHasRecord'
  <2> SUFFICES ASSUME NEW a \in auditEvents' PROVE EventHasRecord(a)'
    BY DEF EveryEventHasRecord
  <2>1. CASE a \in auditEvents
    BY <1>1, <2>1, EarlierEventHasRecord DEF Consistent, AuditMatchesRecords
  <2>2. CASE a = Invited(person, organisation, invitation)
    BY <1>1, <1>2, <2>2 DEF EventHasRecord, Invited
  <2>3. QED
    BY <1>1, <2>1, <2>2
<1>12. QED
  BY <1>3, <1>4, <1>5, <1>6, <1>7, <1>8, <1>9, <1>10, <1>11
  DEF Consistent, AuditMatchesRecords

LEMMA AcceptInvitationKeepsConsistent ==
    ASSUME Consistent,
           NEW p \in people, NEW i \in invitations, NEW claimed \in Time,
           AcceptInvitation(p, i, claimed)
    PROVE  Consistent'
<1> DEFINE j == [i EXCEPT !.acceptedAt = claimed]
           m == [organisation |-> i.organisation, person |-> p.id,
                 permission |-> i.permission]
           e == Accepted(p.id, i.organisation, i.id)
<1>1. /\ i.acceptedAt = None /\ claimed <= clock /\ claimed < i.expiresAt
      /\ i.email = Lower[p.email]
      /\ \A n \in memberships : ~(n.organisation = i.organisation /\ n.person = p.id)
      /\ invitations' = (invitations \ {i}) \cup {j}
      /\ memberships' = memberships \cup {m}
      /\ auditEvents' = auditEvents \cup {e}
      /\ UNCHANGED <<clock, people, identities, organisations>>
  BY DEF AcceptInvitation
<1>2. p \in PersonRow /\ i \in InvitationRow
  BY DEF Consistent, RecordsTypeOK
<1>3. /\ j \in InvitationRow /\ j.acceptedAt = claimed
      /\ j.id = i.id /\ j.organisation = i.organisation /\ j.invitedBy = i.invitedBy
      /\ j.email = i.email /\ j.permission = i.permission /\ j.expiresAt = i.expiresAt
  BY <1>2 DEF InvitationRow
<1>4. /\ m \in MembershipRow /\ m.organisation = i.organisation
      /\ m.person = p.id /\ m.permission = i.permission
  BY <1>2 DEF InvitationRow, MembershipRow, PersonRow
<1>5. /\ e \in AuditRow /\ e.eventType = "invitation.accepted"
      /\ e.invitation = i.id /\ e.person = p.id
  BY <1>2 DEF InvitationRow, PersonRow, AuditRow, EventTypes, Accepted
<1>6. claimed # None
  BY DEF Time
<1>7. m = [organisation |-> j.organisation, person |-> e.person, permission |-> j.permission]
  BY <1>3, <1>5
<1>8. e = Accepted(e.person, j.organisation, j.id)
  BY <1>3, <1>5
<1>9. e = Accepted(m.person, j.organisation, j.id)
  BY <1>3, <1>4
<1> HIDE DEF j, m, e
<1>10. RecordsTypeOK'
  BY <1>1, <1>3, <1>4, <1>5 DEF Consistent, RecordsTypeOK
<1>11. IdsAreKeys'
  BY <1>1, <1>3 DEF Consistent, IdsAreKeys
<1>12. ReferencesResolve'
  BY <1>1, <1>3, <1>4 DEF Consistent, ReferencesResolve
<1>13. /\ EveryPersonHasOneIdentity' /\ SbiIsUnique'
       /\ EveryOrganisationHasOwner' /\ OneMembershipPerPerson'
  BY <1>1, <1>4 DEF Consistent, EveryPersonHasOneIdentity, SbiIsUnique,
                    EveryOrganisationHasOwner, OneMembershipPerPerson
<1>14. InvitersAreOwners'
  BY <1>1, <1>3 DEF Consistent, InvitersAreOwners
<1>15. MembershipIsEarned'
  <2> SUFFICES ASSUME NEW n \in memberships'
               PROVE  \/ n.permission = "owner" /\ Created(n.person, n.organisation) \in auditEvents'
                      \/ \E k \in invitations', q \in people' :
                            /\ k.organisation = n.organisation /\ k.permission = n.permission
                            /\ k.acceptedAt # None
                            /\ q.id = n.person /\ k.email = Lower[q.email]
                            /\ Accepted(n.person, n.organisation, k.id) \in auditEvents'
    BY DEF MembershipIsEarned
  <2>1. CASE n \in memberships
    BY <1>1, <2>1 DEF Consistent, MembershipIsEarned
  <2>2. CASE n = m
    BY <1>1, <1>3, <1>4, <1>6, <1>9, <2>2
  <2>3. QED
    BY <1>1, <2>1, <2>2
<1>16. AcceptedInTime'
  BY <1>1, <1>3 DEF Consistent, AcceptedInTime
<1>17. OneAcceptancePerInvitation'
  <2>1. \A a \in auditEvents : a.eventType = "invitation.accepted" => a.invitation # i.id
    <3> SUFFICES ASSUME NEW a \in auditEvents, a.eventType = "invitation.accepted",
                        a.invitation = i.id
                 PROVE  FALSE
      OBVIOUS
    <3>1. PICK k \in invitations :
            k.acceptedAt # None /\ a = Accepted(a.person, k.organisation, k.id)
      BY DEF Consistent, AuditMatchesRecords, EveryEventHasRecord, EventHasRecord
    <3>2. a.invitation = k.id
      BY <3>1 DEF Accepted
    <3>3. QED
      BY <1>1, <3>1, <3>2 DEF Consistent, IdsAreKeys
  <2>2. QED
    BY <1>1, <1>5, <2>1 DEF Consistent, OneAcceptancePerInvitation
<1>18. EveryRecordIsAudited'
  BY <1>1, <1>3, <1>4, <1>9 DEF Consistent, AuditMatchesRecords, EveryRecordIsAudited
<1>19. EveryEventHasRecord'
  <2> SUFFICES ASSUME NEW a \in auditEvents' PROVE EventHasRecord(a)'
    BY DEF EveryEventHasRecord
  <2>1. CASE a \in auditEvents
    <3>1. EventHasRecord(a)
      BY <2>1 DEF Consistent, AuditMatchesRecords, EveryEventHasRecord
    <3>2. \A k \in invitations : k \in invitations' \/ k = i
      BY <1>1
    <3>3. j \in invitations' /\ memberships \subseteq memberships'
      BY <1>1
    <3>4. QED
      BY <1>1, <1>3, <3>1, <3>2, <3>3 DEF EventHasRecord
  <2>2. CASE a = e
    BY <1>1, <1>3, <1>5, <1>6, <1>7, <1>8, <2>2 DEF EventHasRecord
  <2>3. QED
    BY <1>1, <2>1, <2>2
<1>20. QED
  BY <1>10, <1>11, <1>12, <1>13, <1>14, <1>15, <1>16, <1>17, <1>18, <1>19
  DEF Consistent, AuditMatchesRecords

\* Time passing and stuttering.
LEMMA UnchangedTablesKeepConsistent ==
    ASSUME Consistent, clock' \in Time, clock <= clock',
           UNCHANGED <<people, identities, organisations, memberships, invitations, auditEvents>>
    PROVE  Consistent'
<1>1. RecordsTypeOK'
  BY DEF Consistent, RecordsTypeOK
<1>2. AcceptedInTime'
  BY DEF Consistent, RecordsTypeOK, AcceptedInTime, Time, InvitationRow
<1>3. /\ IdsAreKeys' /\ ReferencesResolve' /\ EveryPersonHasOneIdentity'
      /\ SbiIsUnique' /\ EveryOrganisationHasOwner' /\ OneMembershipPerPerson'
      /\ InvitersAreOwners'
  BY DEF Consistent, IdsAreKeys, ReferencesResolve, EveryPersonHasOneIdentity, SbiIsUnique,
         EveryOrganisationHasOwner, OneMembershipPerPerson, InvitersAreOwners
<1>4. MembershipIsEarned' /\ OneAcceptancePerInvitation'
  BY DEF Consistent, MembershipIsEarned, OneAcceptancePerInvitation, Created, Accepted
<1>5. EveryRecordIsAudited'
  BY DEF Consistent, AuditMatchesRecords, EveryRecordIsAudited,
         Registered, Created, Invited, Accepted
<1>6. EveryEventHasRecord'
  BY EarlierEventHasRecord DEF Consistent, AuditMatchesRecords, EveryEventHasRecord
<1>7. QED
  BY <1>1, <1>2, <1>3, <1>4, <1>5, <1>6 DEF Consistent, AuditMatchesRecords

LEMMA EmptyIsConsistent == EmptyRecords => Consistent
  BY DEF EmptyRecords, Consistent, RecordsTypeOK, Time, IdsAreKeys, ReferencesResolve,
         EveryPersonHasOneIdentity, SbiIsUnique, EveryOrganisationHasOwner,
         OneMembershipPerPerson, InvitersAreOwners, MembershipIsEarned, AcceptedInTime,
         OneAcceptancePerInvitation, AuditMatchesRecords, EveryRecordIsAudited,
         EveryEventHasRecord

LEMMA AtomicNextKeepsConsistent == Consistent /\ [AtomicNext]_recordVars => Consistent'
<1> SUFFICES ASSUME Consistent, [AtomicNext]_recordVars PROVE Consistent'
  OBVIOUS
<1>1. clock \in Time /\ people \subseteq PersonRow
  BY DEF Consistent, RecordsTypeOK
<1>2. ASSUME NEW subject \in Subjects, NEW person \in People, NEW email \in Emails,
             RegisterPerson(subject, person, email)
      PROVE  Consistent'
  BY <1>2, RegisterPersonKeepsConsistent
<1>3. ASSUME NEW person \in People, NEW organisation \in Organisations, NEW sbi \in Sbis,
             CreateOrganisationWithOwner(person, organisation, sbi)
      PROVE  Consistent'
  BY <1>3, CreateOrganisationKeepsConsistent
<1>4. ASSUME NEW person \in People, NEW organisation \in Organisations,
             NEW invitation \in Invitations, NEW email \in Emails,
             NEW permission \in Permissions, NEW issued \in Time,
             InviteToOrganisation(person, organisation, invitation, email, permission, issued)
      PROVE  Consistent'
  BY <1>4, InviteToOrganisationKeepsConsistent
<1>5. ASSUME NEW p \in people, NEW i \in invitations, NEW claimed \in Time,
             AcceptInvitation(p, i, claimed)
      PROVE  Consistent'
  BY <1>5, AcceptInvitationKeepsConsistent
<1>6. CASE TimePasses
  BY <1>1, <1>6, UnchangedTablesKeepConsistent DEF TimePasses, Time
<1>7. CASE UNCHANGED recordVars
  BY <1>1, <1>7, UnchangedTablesKeepConsistent DEF recordVars, Time
<1>8. QED
  BY <1>2, <1>3, <1>4, <1>5, <1>6, <1>7 DEF AtomicNext

\* Every table invariant of Records holds in every state of AtomicRecords.
THEOREM AtomicRecordsAreConsistent == AtomicSpec => []Consistent
<1>1. QED
  BY EmptyIsConsistent, AtomicNextKeepsConsistent, PTL DEF AtomicSpec

=============================================================================
