---------------------------- MODULE AnswersProofs ----------------------------
(***************************************************************************)
(* What a request tells its user is so, from the statement that decides it *)
(* to the moment it is read: nothing is taken out of the tables, so that a *)
(* success stays there and a refusal keeps its reason, whatever the other  *)
(* requests commit meanwhile.                                              *)
(***************************************************************************)
EXTENDS TransactionsProofs

\* What answer a says of request r, and of its token if it is refused for it.
Told(r, a) ==
    /\ a = "registered" => NewPerson(r) \in people /\ NewIdentity(r) \in identities
    /\ a = "alreadyRegistered" => \E i \in identities : i.subject = r.subject
    /\ a = "created" =>
           NewOrganisation(r) \in organisations /\ Owner(r.organisation, r.person) \in memberships
    /\ a = "duplicateSbi" => \E o \in organisations : o.sbi = r.sbi
    /\ a = "invited" => \E i \in invitations : i.id = r.invitation /\ i.email = r.email
    /\ a = "forbidden" =>
           [organisation |-> r.organisation, person |-> r.person,
            permission |-> "member"] \in memberships
    /\ a = "accepted" => /\ NewMembership(r) \in memberships
                         /\ Accepted(r.person, r.organisation, r.invitation) \in auditEvents
    /\ a = "alreadyMember" =>
           \E m \in memberships : m.organisation = r.organisation /\ m.person = r.person
    /\ a = "notValid" =>
           /\ r.invitation = None \/ \E i \in invitations : i.id = r.invitation
           /\ ~\E i \in invitations :
                  i.id = r.invitation /\ i.acceptedAt = None /\ i.expiresAt > clock
    /\ a = "wrongAccount" => \E i \in invitations : i.id = r.invitation /\ i.email # Lower[r.email]

\* The error being rolled back is what the user will be told.
AnswerHolds(s) == pc[s] \in {"rollback", "answered"} => Told(req[s], answer[s])

\* A token that is followed is an invitation's, or nobody's.
TokenKnown(s) ==
    req[s].op = "accept" =>
        req[s].invitation = None \/ \E i \in invitations : i.id = req[s].invitation

AnswersInvariant == TransactionsInvariant /\ \A s \in Slots : AnswerHolds(s) /\ TokenKnown(s)

\* Rows stay, and an invitation that may still be accepted was not changed.
RowsStay ==
    /\ people \subseteq people' /\ identities \subseteq identities'
    /\ organisations \subseteq organisations' /\ memberships \subseteq memberships'
    /\ auditEvents \subseteq auditEvents'
    /\ \A i \in invitations : \E j \in invitations' : j.id = i.id /\ j.email = i.email
    /\ \A j \in invitations' :
           j.acceptedAt = None /\ (\E i \in invitations : i.id = j.id) => j \in invitations
    /\ clock \in Nat /\ clock' \in Nat /\ clock <= clock'

LEMMA AtomicStepsKeepRows ==
    ASSUME RecordsTypeOK, RecordsTypeOK', [AtomicNext]_recordVars
    PROVE  RowsStay
<1>1. clock \in Nat /\ clock' \in Nat
  BY ClockAssumption DEF RecordsTypeOK, Time
<1>2. CASE UNCHANGED recordVars
  BY <1>1, <1>2 DEF RowsStay, recordVars
<1>3. CASE \E subject \in Subjects, person \in People, email \in Emails :
               RegisterPerson(subject, person, email)
  BY <1>1, <1>3 DEF RegisterPerson, RowsStay
<1>4. CASE \E person \in People, organisation \in Organisations, sbi \in Sbis :
               CreateOrganisationWithOwner(person, organisation, sbi)
  BY <1>1, <1>4 DEF CreateOrganisationWithOwner, RowsStay
<1>5. CASE \E person \in People, organisation \in Organisations, invitation \in Invitations,
              email \in Emails, permission \in Permissions, issued \in Time :
               InviteToOrganisation(person, organisation, invitation, email, permission, issued)
  BY <1>1, <1>5 DEF InviteToOrganisation, RowsStay
<1>6. ASSUME NEW p \in people, NEW i \in invitations, NEW claimed \in Time,
             AcceptInvitation(p, i, claimed)
      PROVE  RowsStay
  <2>1. invitations' = (invitations \ {i}) \cup {[i EXCEPT !.acceptedAt = claimed]}
    BY <1>6 DEF AcceptInvitation
  <2> DEFINE j == [i EXCEPT !.acceptedAt = claimed]
  <2>2. j.id = i.id /\ j.email = i.email /\ j.acceptedAt = claimed
    BY DEF RecordsTypeOK, InvitationRow
  <2>3. claimed # None
    BY NoneAssumption DEF Time
  <2> HIDE DEF j
  <2>4. \A k \in invitations : \E l \in invitations' : l.id = k.id /\ l.email = k.email
    BY <2>1, <2>2 DEF j
  <2>5. \A k \in invitations' : k.acceptedAt = None => k \in invitations
    BY <2>1, <2>2, <2>3 DEF j
  <2>6. QED
    BY <1>1, <1>6, <2>4, <2>5 DEF AcceptInvitation, RowsStay
<1>7. CASE TimePasses
  BY <1>1, <1>7 DEF TimePasses, RowsStay
<1>8. QED
  BY <1>2, <1>3, <1>4, <1>5, <1>6, <1>7 DEF AtomicNext

\* What was told, and is known of a token, stays so.
LEMMA ToldStaysTrue ==
    ASSUME RowsStay, RecordsTypeOK, RecordsTypeOK', NEW r, NEW a, Told(r, a)
    PROVE  Told(r, a)'
<1>1. ASSUME a = "notValid"
      PROVE  /\ r.invitation = None \/ \E i \in invitations' : i.id = r.invitation
             /\ ~\E i \in invitations' :
                    i.id = r.invitation /\ i.acceptedAt = None /\ i.expiresAt > clock'
  <2>1. r.invitation = None \/ \E i \in invitations : i.id = r.invitation
    BY <1>1 DEF Told
  <2>2. ASSUME NEW j \in invitations', j.id = r.invitation, j.acceptedAt = None,
               j.expiresAt > clock'
        PROVE  FALSE
    <3>1. j.id # None /\ j.expiresAt \in Nat
      BY NoneAssumption DEF RecordsTypeOK, InvitationRow
    <3>2. j \in invitations
      BY <2>1, <2>2, <3>1 DEF RowsStay
    <3>3. j.expiresAt > clock
      BY <2>2, <3>1 DEF RowsStay
    <3>4. QED
      BY <1>1, <2>2, <3>2, <3>3 DEF Told
  <2>3. QED
    BY <2>1, <2>2 DEF RowsStay
<1>2. QED
  BY <1>1 DEF Told, RowsStay, NewPerson, NewIdentity, NewOrganisation, NewMembership, Owner, Accepted

-----------------------------------------------------------------------------
\* The slots that do not move.
LEMMA OthersWait ==
    ASSUME TypeOK, NEW s \in Slots, Arrival(s) \/ Step(s) \/ Failure(s),
           NEW t \in Slots \ {s}
    PROVE  pc'[t] = pc[t] /\ req'[t] = req[t] /\ answer'[t] = answer[t]
<1>1. CASE Arrival(s)
  BY <1>1 DEF Arrival, ArriveRegister, ArriveCreate, ArriveInvite, ArriveAccept, Arrive, Goto, TypeOK
<1>2. CASE RequireMembership(s) \/ GetInvitationByToken(s)
  BY <1>2 DEF RequireMembership, GetInvitationByToken, Refuse, Goto, TypeOK
<1>3. CASE BeginTransaction(s) \/ Rollback(s) \/ Deliver(s)
  BY <1>3 DEF BeginTransaction, Rollback, Quit, Deliver, Goto, TypeOK
<1>4. CASE Commit(s) \/ Failure(s)
  BY <1>4 DEF Commit, Failure, CommitLost, StatementFails, CommitTransaction, Quit, Goto, TypeOK
<1>5. CASE \/ CreatePerson(s) \/ LinkExternalIdentity(s) \/ CreateOrganisation(s)
           \/ AddMembership(s) \/ CreateInvitation(s) \/ MarkInvitationAccepted(s)
           \/ RecordAuditEvent(s)
  BY <1>5 DEF CreatePerson, LinkExternalIdentity, CreateOrganisation, AddMembership,
              CreateInvitation, MarkInvitationAccepted, RecordAuditEvent, Statement, Throw,
              Goto, TypeOK
<1>6. QED
  BY <1>1, <1>2, <1>3, <1>4, <1>5 DEF Step

-----------------------------------------------------------------------------
\* The slot that moves: whatever it tells, it has just found.

\* It goes on, with nothing to tell yet.
LEMMA ArrivalsTellNothing ==
    ASSUME AnswersInvariant, NEW s \in Slots, Arrival(s)
    PROVE  AnswerHolds(s)' /\ TokenKnown(s)'
<1>1. TypeOK /\ UNCHANGED invitations
  BY DEF AnswersInvariant, TransactionsInvariant, Arrival, ArriveRegister, ArriveCreate,
         ArriveInvite, ArriveAccept, Arrive, recordVars
<1>2. pc'[s] \in {"connect", "requireMembership", "getInvitationByToken"}
  BY <1>1 DEF Arrival, ArriveRegister, ArriveCreate, ArriveInvite, ArriveAccept, Arrive, Goto, TypeOK
<1>3. CASE ArriveAccept(s)
  <2>1. PICK p \in people, invitation \in {i.id : i \in invitations} \cup {None} :
            req' = [req EXCEPT ![s] = [NoRequest EXCEPT !.op = "accept", !.person = p.id,
                                                        !.email = p.email,
                                                        !.invitation = invitation]]
    BY <1>3 DEF ArriveAccept, Arrive
  <2>2. req'[s].invitation = invitation
    BY <1>1, <2>1 DEF NoRequest, TypeOK
  <2>3. QED
    BY <1>1, <1>2, <2>2 DEF AnswerHolds, TokenKnown
<1>4. CASE ArriveRegister(s)
  <2>1. req'[s].op = "register"
    BY <1>1, <1>4 DEF ArriveRegister, Arrive, NoRequest, TypeOK
  <2>2. QED
    BY <1>2, <2>1 DEF AnswerHolds, TokenKnown
<1>5. CASE ArriveCreate(s)
  <2>1. req'[s].op = "create"
    BY <1>1, <1>5 DEF ArriveCreate, Arrive, NoRequest, TypeOK
  <2>2. QED
    BY <1>2, <2>1 DEF AnswerHolds, TokenKnown
<1>6. CASE ArriveInvite(s)
  <2>1. req'[s].op = "invite"
    BY <1>1, <1>6 DEF ArriveInvite, Arrive, NoRequest, TypeOK
  <2>2. QED
    BY <1>2, <2>1 DEF AnswerHolds, TokenKnown
<1>7. QED
  BY <1>3, <1>4, <1>5, <1>6 DEF Arrival

LEMMA StatementsTellNothing ==
    ASSUME AnswersInvariant, NEW s \in Slots,
           \/ BeginTransaction(s) \/ CreatePerson(s) \/ CreateInvitation(s)
           \/ RecordAuditEvent(s) \/ Deliver(s)
    PROVE  AnswerHolds(s)' /\ TokenKnown(s)'
<1>1. TypeOK /\ TokenKnown(s) /\ SlotInvariant(s)
  BY DEF AnswersInvariant, TransactionsInvariant
<1>2. UNCHANGED invitations
  BY DEF BeginTransaction, CreatePerson, CreateInvitation, RecordAuditEvent, Deliver, Statement,
         recordVars
<1>3. CASE BeginTransaction(s)
  <2>1. req[s].op \in {"register", "create", "invite", "accept"}
    BY <1>1, <1>3 DEF BeginTransaction, SlotInvariant, RequestIsComplete, Operations
  <2>2. pc'[s] \in {"createPerson", "createOrganisation", "createInvitation", "markInvitationAccepted"}
    BY <1>1, <1>3, <2>1 DEF BeginTransaction, Goto, FirstStatement, TypeOK
  <2>3. req'[s].op = req[s].op /\ req'[s].invitation = req[s].invitation
    BY <1>1, <1>3 DEF BeginTransaction, TypeOK, Requests
  <2>4. QED
    BY <1>1, <1>2, <2>2, <2>3 DEF AnswerHolds, TokenKnown
<1>4. CASE CreatePerson(s) \/ CreateInvitation(s) \/ RecordAuditEvent(s)
  BY <1>1, <1>2, <1>4
  DEF CreatePerson, CreateInvitation, RecordAuditEvent, Statement, Goto, TypeOK, AnswerHolds,
      TokenKnown
<1>5. CASE Deliver(s)
  BY <1>1, <1>5, NoneIsNoOperation DEF Deliver, Goto, TypeOK, AnswerHolds, TokenKnown, NoRequest, Operations
<1>6. QED
  BY <1>3, <1>4, <1>5

\* A refusal, an error to be rolled back: what it says of the tables as they are.
LEMMA TellingKeepsAnswer ==
    ASSUME AnswersInvariant, NEW s \in Slots, NEW a \in Answers, Told(req[s], a),
           \/ Refuse(s, a) \/ Throw(s, a)
           \/ Quit(s, a) /\ UNCHANGED <<recordVars, req>>
    PROVE  AnswerHolds(s)' /\ TokenKnown(s)'
<1>1. TypeOK /\ TokenKnown(s)
  BY DEF AnswersInvariant, TransactionsInvariant
<1>2. UNCHANGED <<recordVars, req>> /\ answer'[s] = a
  BY <1>1 DEF Refuse, Throw, Quit, TypeOK
<1>3. Told(req[s], answer[s])'
  BY <1>2 DEF Told, recordVars, NewPerson, NewIdentity, NewOrganisation, NewMembership, Owner,
              Accepted
<1>4. QED
  BY <1>1, <1>2, <1>3 DEF AnswerHolds, TokenKnown, recordVars

LEMMA ReadsTellTheTruth ==
    ASSUME AnswersInvariant, NEW s \in Slots, RequireMembership(s) \/ GetInvitationByToken(s)
    PROVE  AnswerHolds(s)' /\ TokenKnown(s)'
<1>1. TypeOK /\ TokenKnown(s) /\ SlotInvariant(s)
  BY DEF AnswersInvariant, TransactionsInvariant
<1>2. CASE /\ pc'[s] = "connect" /\ req'[s].op = req[s].op
           /\ req'[s].invitation = req[s].invitation /\ UNCHANGED recordVars
  BY <1>1, <1>2 DEF AnswerHolds, TokenKnown, recordVars
<1>3. ASSUME NEW a \in {"notFound", "forbidden", "notValid", "wrongAccount"}, Refuse(s, a),
             Told(req[s], a)
      PROVE  AnswerHolds(s)' /\ TokenKnown(s)'
  BY <1>3, TellingKeepsAnswer DEF Answers
<1>4. CASE RequireMembership(s)
  <2>1. CASE Refuse(s, "notFound")
    BY <1>3, <2>1 DEF Told
  <2>2. ASSUME NEW m \in memberships, m.organisation = req[s].organisation,
               m.person = req[s].person, m.permission # "owner", Refuse(s, "forbidden")
        PROVE  AnswerHolds(s)' /\ TokenKnown(s)'
    <3>1. m = [organisation |-> req[s].organisation, person |-> req[s].person,
               permission |-> "member"]
      BY <1>1, <2>2 DEF TypeOK, RecordsTypeOK, MembershipRow, Permissions
    <3>2. QED
      BY <1>3, <2>2, <3>1 DEF Told
  <2>3. CASE req' = [req EXCEPT ![s].issued = clock] /\ Goto(s, "connect") /\ UNCHANGED recordVars
    BY <1>1, <1>2, <2>3 DEF Goto, TypeOK, Requests
  <2>4. QED
    BY <1>4, <2>1, <2>2, <2>3 DEF RequireMembership
<1>5. CASE GetInvitationByToken(s)
  <2>1. req[s].op = "accept"
    BY <1>1, <1>5 DEF GetInvitationByToken, SlotInvariant, RequestIsComplete
  <2>2. ASSUME ~\E i \in invitations :
                   i.id = req[s].invitation /\ i.acceptedAt = None /\ i.expiresAt > clock,
               Refuse(s, "notValid")
        PROVE  AnswerHolds(s)' /\ TokenKnown(s)'
    BY <1>1, <1>3, <2>1, <2>2 DEF Told, TokenKnown
  <2>3. ASSUME NEW i \in invitations, i.id = req[s].invitation, i.email # Lower[req[s].email],
               Refuse(s, "wrongAccount")
        PROVE  AnswerHolds(s)' /\ TokenKnown(s)'
    BY <1>3, <2>3 DEF Told
  <2>4. ASSUME NEW i \in invitations,
               req' = [req EXCEPT ![s].organisation = i.organisation, ![s].permission = i.permission],
               Goto(s, "connect"), UNCHANGED recordVars
        PROVE  AnswerHolds(s)' /\ TokenKnown(s)'
    BY <1>1, <1>2, <2>4 DEF Goto, TypeOK, Requests
  <2>5. QED
    BY <1>5, <2>2, <2>3, <2>4 DEF GetInvitationByToken
<1>6. QED
  BY <1>4, <1>5

LEMMA KeysTellTheTruth ==
    ASSUME AnswersInvariant, NEW s \in Slots,
           \/ LinkExternalIdentity(s) \/ CreateOrganisation(s) \/ AddMembership(s)
           \/ MarkInvitationAccepted(s)
    PROVE  AnswerHolds(s)' /\ TokenKnown(s)'
<1>1. TypeOK /\ TokenKnown(s) /\ SlotInvariant(s)
  BY DEF AnswersInvariant, TransactionsInvariant
<1>2. ASSUME NEW next \in {"recordAuditEvent", "addMembership"}, Statement(s, next)
      PROVE  AnswerHolds(s)' /\ TokenKnown(s)'
  BY <1>1, <1>2 DEF Statement, Goto, TypeOK, AnswerHolds, TokenKnown, recordVars
<1>3. ASSUME NEW a \in {"alreadyRegistered", "duplicateSbi", "alreadyMember", "notValid"},
             Throw(s, a), Told(req[s], a)
      PROVE  AnswerHolds(s)' /\ TokenKnown(s)'
  BY <1>3, TellingKeepsAnswer DEF Answers
<1>4. CASE LinkExternalIdentity(s)
  BY <1>2, <1>3, <1>4 DEF LinkExternalIdentity, Told
<1>5. CASE CreateOrganisation(s)
  BY <1>2, <1>3, <1>5 DEF CreateOrganisation, Told
<1>6. CASE AddMembership(s)
  BY <1>2, <1>3, <1>6 DEF AddMembership, Told
<1>7. CASE MarkInvitationAccepted(s)
  <2>1. req[s].op = "accept" /\ pc[s] = "markInvitationAccepted"
    BY <1>1, <1>7 DEF MarkInvitationAccepted, SlotInvariant, WrittenInOrder
  <2>2. ASSUME ~\E i \in invitations :
                   i.id = req[s].invitation /\ i.acceptedAt = None /\ i.expiresAt > req[s].now
        PROVE  Told(req[s], "notValid")
    <3>1. req[s].now <= clock /\ req[s].now \in Nat /\ clock \in Nat
      BY <1>1, <2>1, ClockAssumption
      DEF SlotInvariant, StillHolds, Writes, Reads, TypeOK, RecordsTypeOK, Requests, Time
    <3>2. \A i \in invitations : i.expiresAt \in Nat
      BY <1>1 DEF TypeOK, RecordsTypeOK, InvitationRow
    <3>3. ~\E i \in invitations :
             i.id = req[s].invitation /\ i.acceptedAt = None /\ i.expiresAt > clock
      BY <2>2, <3>1, <3>2
    <3>4. QED
      BY <1>1, <2>1, <3>3 DEF Told, TokenKnown
  <2>3. QED
    BY <1>2, <1>3, <1>7, <2>2 DEF MarkInvitationAccepted
<1>8. QED
  BY <1>4, <1>5, <1>6, <1>7

\* A COMMIT publishes what its success announces.
LEMMA CommitTellsTheTruth ==
    ASSUME AnswersInvariant, NEW s \in Slots, Commit(s) \/ CommitLost(s), RowsStay
    PROVE  AnswerHolds(s)' /\ TokenKnown(s)'
<1> DEFINE r == req[s]
<1>1. TypeOK /\ TokenKnown(s) /\ SlotInvariant(s) /\ pc[s] = "commit"
  BY DEF AnswersInvariant, TransactionsInvariant, Commit, CommitLost, CommitTransaction
<1>2. req' = req /\ Publish(s) /\ answer'[s] \in {SuccessOf(r.op), "error"}
  BY <1>1 DEF Commit, CommitLost, CommitTransaction, Quit, TypeOK
<1>3. TokenKnown(s)'
  BY <1>1, <1>2 DEF TokenKnown, RowsStay
<1>4. CASE answer'[s] = "error"
  BY <1>3, <1>4 DEF AnswerHolds, Told
<1>5. ASSUME answer'[s] = SuccessOf(r.op) PROVE Told(r, answer[s])'
  <2>1. CASE r.op = "register" /\ written[s] = {"createPerson", "linkExternalIdentity", "recordAuditEvent"}
    <3>1. answer'[s] = "registered"
      BY <1>5, <2>1 DEF SuccessOf
    <3>2. NewPerson(r) \in people' /\ NewIdentity(r) \in identities'
      BY <1>2, <2>1 DEF Publish
    <3>3. QED
      BY <1>2, <3>1, <3>2 DEF Told, NewPerson, NewIdentity
  <2>2. CASE r.op = "create" /\ written[s] = {"createOrganisation", "addMembership", "recordAuditEvent"}
    <3>1. answer'[s] = "created"
      BY <1>5, <2>2 DEF SuccessOf
    <3>2. NewOrganisation(r) \in organisations' /\ NewMembership(r) \in memberships'
      BY <1>2, <2>2 DEF Publish
    <3>3. NewMembership(r) = Owner(r.organisation, r.person)
      BY <1>1, <2>2 DEF SlotInvariant, RequestIsComplete, NewMembership, Owner
    <3>4. QED
      BY <1>2, <3>1, <3>2, <3>3 DEF Told, NewOrganisation, NewMembership, Owner
  <2>3. CASE r.op = "invite" /\ written[s] = {"createInvitation", "recordAuditEvent"}
    <3>1. answer'[s] = "invited"
      BY <1>5, <2>3 DEF SuccessOf
    <3>2. NewInvitation(r) \in invitations'
      BY <1>2, <2>3 DEF Publish
    <3>3. NewInvitation(r).id = r.invitation /\ NewInvitation(r).email = r.email
      BY DEF NewInvitation
    <3>4. \E i \in invitations' : i.id = r.invitation /\ i.email = r.email
      BY <3>2, <3>3
    <3>5. QED
      BY <1>2, <3>1, <3>4 DEF Told
  <2>4. CASE r.op = "accept" /\ written[s] = {"markInvitationAccepted", "addMembership", "recordAuditEvent"}
    <3>1. answer'[s] = "accepted"
      BY <1>5, <2>4 DEF SuccessOf
    <3>2. NewMembership(r) \in memberships' /\ NewAuditEvent(r) \in auditEvents'
      BY <1>2, <2>4 DEF Publish
    <3>3. NewAuditEvent(r) = Accepted(r.person, r.organisation, r.invitation)
      BY <2>4 DEF NewAuditEvent
    <3>4. QED
      BY <1>2, <3>1, <3>2, <3>3 DEF Told, NewMembership, Accepted
  <2>5. QED
    BY <1>1, <2>1, <2>2, <2>3, <2>4 DEF SlotInvariant, WrittenInOrder
<1>6. QED
  BY <1>2, <1>3, <1>4, <1>5 DEF AnswerHolds

LEMMA EndsTellTheTruth ==
    ASSUME AnswersInvariant, NEW s \in Slots, Rollback(s) \/ StatementFails(s)
    PROVE  AnswerHolds(s)' /\ TokenKnown(s)'
<1>1. CASE StatementFails(s)
  BY <1>1, TellingKeepsAnswer DEF StatementFails, Told, Answers
<1>2. CASE Rollback(s)
  <2>1. /\ TypeOK /\ pc[s] = "rollback" /\ Quit(s, answer[s]) /\ UNCHANGED <<recordVars, req>>
        /\ Told(req[s], answer[s]) /\ TokenKnown(s)
    BY <1>2 DEF AnswersInvariant, TransactionsInvariant, Rollback, AnswerHolds
  <2>2. answer'[s] = answer[s] /\ req' = req
    BY <2>1 DEF Quit, TypeOK
  <2>3. Told(req[s], answer[s])'
    BY <2>1, <2>2 DEF Told, recordVars, NewPerson, NewIdentity, NewOrganisation, NewMembership,
                      Owner, Accepted
  <2>4. QED
    BY <2>1, <2>2, <2>3 DEF AnswerHolds, TokenKnown, recordVars
<1>3. QED
  BY <1>1, <1>2

\* What is known of a slot that does not move stays so.
LEMMA WaitingKeepsAnswer ==
    ASSUME AnswersInvariant, RowsStay, RecordsTypeOK', NEW t \in Slots,
           pc'[t] = pc[t], req'[t] = req[t], answer'[t] = answer[t]
    PROVE  AnswerHolds(t)' /\ TokenKnown(t)'
<1>1. AnswerHolds(t) /\ TokenKnown(t) /\ RecordsTypeOK
  BY DEF AnswersInvariant, TransactionsInvariant, TypeOK
<1>2. TokenKnown(t)'
  BY <1>1 DEF TokenKnown, RowsStay
<1>3. ASSUME Told(req[t], answer[t]) PROVE Told(req[t], answer[t])'
  <2>1. ASSUME NEW r, NEW a, r = req[t], a = answer[t] PROVE Told(r, a)'
    BY <1>1, <1>3, <2>1, ToldStaysTrue
  <2>2. PICK r, a : r = req[t] /\ a = answer[t]
    OBVIOUS
  <2>3. Told(r, a)' /\ r = req'[t] /\ a = answer'[t]
    BY <2>1, <2>2
  <2>4. QED
    BY <2>3 DEF Told, NewPerson, NewIdentity, NewOrganisation, NewMembership, Owner, Accepted
<1>4. QED
  BY <1>1, <1>2, <1>3 DEF AnswerHolds

-----------------------------------------------------------------------------
LEMMA NextKeepsAnswers ==
    ASSUME AnswersInvariant, [Next]_vars
    PROVE  AnswersInvariant'
<1>1. TransactionsInvariant /\ TransactionsInvariant' /\ TypeOK
  BY NextKeepsInvariant DEF AnswersInvariant, TransactionsInvariant
<1>2. RowsStay /\ RecordsTypeOK'
  BY <1>1, NextIsAtomic, AtomicStepsKeepRows DEF TransactionsInvariant, TypeOK
<1>3. ASSUME NEW s \in Slots, Arrival(s) \/ Step(s) \/ Failure(s),
             NEW t \in Slots
      PROVE  AnswerHolds(t)' /\ TokenKnown(t)'
  <2>1. CASE t # s
    BY <1>1, <1>2, <1>3, <2>1, OthersWait, WaitingKeepsAnswer
  <2>2. CASE t = s
    BY <1>2, <1>3, <2>2, ArrivalsTellNothing, StatementsTellNothing, ReadsTellTheTruth,
       KeysTellTheTruth, CommitTellsTheTruth, EndsTellTheTruth DEF Step, Failure
  <2>3. QED
    BY <2>1, <2>2
<1>4. CASE Crash
  <2>1. \A t \in Slots : pc'[t] = "idle" /\ req'[t].op = None
    BY <1>4 DEF Crash, NoRequest
  <2>2. QED
    BY <1>1, <2>1, NoneIsNoOperation DEF AnswersInvariant, AnswerHolds, TokenKnown, Operations
<1>5. CASE Tick \/ UNCHANGED vars
  <2>1. UNCHANGED <<pc, req, answer>>
    BY <1>5 DEF Tick, vars
  <2>2. QED
    BY <1>1, <1>2, <2>1, WaitingKeepsAnswer DEF AnswersInvariant
<1>6. QED
  BY <1>1, <1>3, <1>4, <1>5 DEF Next, AnswersInvariant

\* AnswersAreTrue: for any number of requests, and whatever rows the process
\* found when it started, what a user is told is in the database when it is told,
\* and a refusal's reason is there too ...
THEOREM AnswersStayTrueInUse == AtRest /\ [][Next]_vars => []AnswersAreTrue
<1>1. AtRest => AnswersInvariant
  <2> SUFFICES ASSUME AtRest PROVE AnswersInvariant
    OBVIOUS
  <2>1. \A s \in Slots : pc[s] = "idle" /\ req[s].op = None
    BY DEF AtRest, NoRequest
  <2>2. QED
    BY <2>1, RestHasInvariant, NoneIsNoOperation DEF AnswersInvariant, AnswerHolds, TokenKnown, Operations
<1>2. AnswersInvariant /\ [Next]_vars => AnswersInvariant'
  BY NextKeepsAnswers
<1>3. AnswersInvariant => AnswersAreTrue
  BY DEF AnswersInvariant, AnswerHolds, Told, AnswersAreTrue
<1>4. QED
  BY <1>1, <1>2, <1>3, PTL

\* ... and so from the empty database on.
THEOREM AnswersStayTrue == Spec => []AnswersAreTrue
<1>1. QED
  BY InitIsAtRest, AnswersStayTrueInUse, PTL DEF Spec

=============================================================================
