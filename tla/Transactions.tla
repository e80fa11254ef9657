---------------------------- MODULE Transactions ----------------------------
(***************************************************************************)
(* The data tier as it runs: requests handled concurrently by one process, *)
(* each a sequence of awaited statements on pooled connections, with the   *)
(* locks PostgreSQL takes for unique keys and updated rows (READ           *)
(* COMMITTED), statements that fail, commits whose reply is lost and a     *)
(* process that stops at any point.                                        *)
(*                                                                         *)
(* A slot is a request being handled.  pc[s] is the statement it awaits;   *)
(* what its open transaction has written is written[s], invisible to the   *)
(* other slots until CommitTransaction moves it to the tables.             *)
(***************************************************************************)
EXTENDS AtomicRecords, FiniteSets

CONSTANTS
    Slots,          \* requests that may be in progress at once
    MaxPoolSize,    \* postgres.maxPoolSize
    LoginEmail      \* the address each One Login account signs in with

ASSUME PoolAssumption == MaxPoolSize \in Nat \ {0}

ASSUME LoginEmailAssumption == LoginEmail \in [Subjects -> Emails]

VARIABLES
    pc,             \* the statement each slot awaits
    req,            \* what the request was called with, and the ids it generated
    written,        \* uncommitted rows, named by the statement that wrote them
    connected,      \* slots holding a client of the pool
    answer          \* how the request ended, or the error being rolled back

vars == <<clock, people, identities, organisations, memberships, invitations,
          auditEvents, pc, req, written, connected, answer>>

-----------------------------------------------------------------------------
\* Requests.  A slot's request is one record for all four operations, None
\* where the operation has no use for a field.  Ids are those the INSERTs
\* will generate (gen_random_uuid).

Operations == {"register", "create", "invite", "accept"}

ASSUME NoneIsNoOperation == None \notin Operations

NoRequest == [op |-> None, subject |-> None, person |-> None, email |-> None,
              organisation |-> None, sbi |-> None, invitation |-> None,
              permission |-> None, now |-> 0, issued |-> 0]

Requests == [op : Operations \cup {None}, subject : Subjects \cup {None},
             person : People \cup {None}, email : Emails \cup {None},
             organisation : Organisations \cup {None}, sbi : Sbis \cup {None},
             invitation : Invitations \cup {None},
             permission : Permissions \cup {None}, now : Time, issued : Time]

Writes == {"createPerson", "linkExternalIdentity", "createOrganisation",
           "addMembership", "createInvitation", "markInvitationAccepted",
           "recordAuditEvent"}

Reads == {"requireMembership", "getInvitationByToken"}

InTransaction == Writes \cup {"commit", "rollback"}

Control == {"idle", "connect", "answered"} \cup Reads \cup InTransaction

Answers == {"registered", "alreadyRegistered", "created", "duplicateSbi", "invited",
            "notFound", "forbidden", "accepted", "notValid", "wrongAccount", "alreadyMember",
            "error"}

\* The order each service awaits its statements in, after BEGIN.
FirstStatement(op) ==
    CASE op = "register" -> "createPerson"
      [] op = "create" -> "createOrganisation"
      [] op = "invite" -> "createInvitation"
      [] op = "accept" -> "markInvitationAccepted"

\* What each service returns when its transaction commits.
SuccessOf(op) ==
    CASE op = "register" -> "registered"
      [] op = "create" -> "created"
      [] op = "invite" -> "invited"
      [] op = "accept" -> "accepted"

\* What the slot's statements have written, as rows.
NewPerson(r) == [id |-> r.person, email |-> r.email]
NewIdentity(r) == [subject |-> r.subject, person |-> r.person]
NewOrganisation(r) == [id |-> r.organisation, sbi |-> r.sbi]
NewMembership(r) == [organisation |-> r.organisation, person |-> r.person,
                     permission |-> r.permission]
NewInvitation(r) == [id |-> r.invitation, organisation |-> r.organisation,
                     invitedBy |-> r.person, email |-> r.email,
                     permission |-> r.permission,
                     expiresAt |-> r.issued + Lifetime, acceptedAt |-> None]

\* Mutant: recordAuditEvent is called without a personId.
AuditWithoutPerson(r) ==
    [Registered(r.person) EXCEPT !.person = None]

NewAuditEvent(r) ==
    CASE r.op = "register" -> Registered(r.person)
      [] r.op = "create" -> Created(r.person, r.organisation)
      [] r.op = "invite" -> Invited(r.person, r.organisation, r.invitation)
      [] r.op = "accept" -> Accepted(r.person, r.organisation, r.invitation)

TypeOK ==
    /\ RecordsTypeOK
    /\ pc \in [Slots -> Control]
    /\ req \in [Slots -> Requests]
    /\ written \in [Slots -> SUBSET Writes]
    /\ connected \subseteq Slots
    /\ answer \in [Slots -> Answers \cup {None}]

Init ==
    /\ EmptyRecords
    /\ pc = [s \in Slots |-> "idle"]
    /\ req = [s \in Slots |-> NoRequest]
    /\ written = [s \in Slots |-> {}]
    /\ connected = {}
    /\ answer = [s \in Slots |-> None]

-----------------------------------------------------------------------------
\* Connections and locks.

\* Statements sent through getDb() instead of a transaction's client take a
\* client of the pool for themselves.

\* Mutant: recordAuditEvent is not passed the client and takes its default.
AuditOnThePool == Reads \cup {"recordAuditEvent"}

OnThePool == Reads

PoolHasClient == Cardinality(connected) < MaxPoolSize

NeedsClient(s) == pc[s] \in OnThePool \cup {"connect"}

\* Slots whose open transaction wrote the row or key that the statement of s
\* is about to write.  PostgreSQL makes s wait until they commit or roll back.
RowLockHolders(s) ==
    {t \in Slots \ {s} :
        \/ /\ pc[s] = "linkExternalIdentity"
           /\ "linkExternalIdentity" \in written[t]
           /\ req[t].subject = req[s].subject
        \/ /\ pc[s] = "createOrganisation"
           /\ "createOrganisation" \in written[t]
           /\ req[t].sbi = req[s].sbi
        \/ /\ pc[s] = "addMembership"
           /\ "addMembership" \in written[t]
           /\ req[t].organisation = req[s].organisation
           /\ req[t].person = req[s].person
        \/ /\ pc[s] = "markInvitationAccepted"
           /\ "markInvitationAccepted" \in written[t]
           /\ req[t].invitation = req[s].invitation}

\* Whom s waits for: any one holder of a client while the pool is exhausted,
\* or the transaction holding the row.
WaitsFor(s) ==
    IF NeedsClient(s) /\ ~PoolHasClient THEN connected ELSE RowLockHolders(s)

Goto(s, label) == pc' = [pc EXCEPT ![s] = label]

Wrote(s, statement) == written' = [written EXCEPT ![s] = @ \cup {statement}]

\* A statement of an open transaction succeeds and the service awaits the next.
Statement(s, next) ==
    /\ RowLockHolders(s) = {}
    /\ Wrote(s, pc[s])
    /\ Goto(s, next)
    /\ UNCHANGED <<recordVars, req, connected, answer>>

\* A statement throws: PostgreSQL undoes the transaction's writes at once, and
\* withTransaction is left to send ROLLBACK and rethrow `error`.
Throw(s, error) ==
    /\ RowLockHolders(s) = {}
    /\ written' = [written EXCEPT ![s] = {}]
    /\ answer' = [answer EXCEPT ![s] = error]
    /\ Goto(s, "rollback")
    /\ UNCHANGED <<recordVars, req, connected>>

\* The request ends without a transaction.
Refuse(s, reason) ==
    /\ answer' = [answer EXCEPT ![s] = reason]
    /\ Goto(s, "answered")
    /\ UNCHANGED <<recordVars, req, written, connected>>

\* Mutant: no `finally` releases the client.
QuitKeepingClient(s, reason) ==
    /\ written' = [written EXCEPT ![s] = {}]
    /\ connected' = connected
    /\ answer' = [answer EXCEPT ![s] = reason]
    /\ Goto(s, "answered")

\* withTransaction is left, its client released.
Quit(s, reason) ==
    /\ written' = [written EXCEPT ![s] = {}]
    /\ connected' = connected \ {s}
    /\ answer' = [answer EXCEPT ![s] = reason]
    /\ Goto(s, "answered")

-----------------------------------------------------------------------------
\* Arrivals.  An id that a request in progress will insert is not free.

Busy(s) == pc[s] # "idle"

FreshPerson(p) ==
    /\ \A q \in people : q.id # p
    /\ \A s \in Slots : req[s].op = "register" => req[s].person # p

FreshOrganisation(o) ==
    /\ \A q \in organisations : q.id # o
    /\ \A s \in Slots : req[s].op = "create" => req[s].organisation # o

FreshInvitation(i) ==
    /\ \A j \in invitations : j.id # i
    /\ \A s \in Slots : req[s].op = "invite" => req[s].invitation # i

Arrive(s, label, request) ==
    /\ ~Busy(s)
    /\ req' = [req EXCEPT ![s] = request]
    /\ Goto(s, label)
    /\ UNCHANGED <<recordVars, written, connected, answer>>

\* POST /register/check-answers: any account, registered or not, since a session
\* keeps the personId it had when it was created.
ArriveRegister(s) ==
    \E subject \in Subjects, person \in People, email \in Emails :
        /\ FreshPerson(person)
        /\ Arrive(s, "connect",
                  [NoRequest EXCEPT !.op = "register", !.subject = subject,
                                    !.person = person, !.email = email])

\* POST /organisations/create by a registered person.
ArriveCreate(s) ==
    \E p \in people, organisation \in Organisations, sbi \in Sbis :
        /\ FreshOrganisation(organisation)
        /\ Arrive(s, "connect",
                  [NoRequest EXCEPT !.op = "create", !.person = p.id, !.sbi = sbi,
                                    !.organisation = organisation, !.permission = "owner"])

\* Mutant: inviteToOrganisation stores the address as it was typed.
InviteAsTyped(s) ==
    \E p \in people, organisation \in Organisations, invitation \in Invitations,
       email \in Emails, permission \in Permissions :
        /\ FreshInvitation(invitation)
        /\ Arrive(s, "requireMembership",
                  [NoRequest EXCEPT !.op = "invite", !.person = p.id,
                                    !.organisation = organisation, !.email = email,
                                    !.invitation = invitation, !.permission = permission])

\* POST /organisations/{organisationId}/invite by a registered person.
ArriveInvite(s) ==
    \E p \in people, organisation \in Organisations, invitation \in Invitations,
       email \in Emails, permission \in Permissions :
        /\ FreshInvitation(invitation)
        /\ Arrive(s, "requireMembership",
                  [NoRequest EXCEPT !.op = "invite", !.person = p.id,
                                    !.organisation = organisation, !.email = Lower[email],
                                    !.invitation = invitation, !.permission = permission])

\* POST /invitations/{token} by a registered person; None is a token that no
\* invitation has.  `email` is the person's, read with the session.
ArriveAccept(s) ==
    \E p \in people, invitation \in {i.id : i \in invitations} \cup {None} :
        Arrive(s, "getInvitationByToken",
               [NoRequest EXCEPT !.op = "accept", !.person = p.id, !.email = p.email,
                                 !.invitation = invitation])

-----------------------------------------------------------------------------
\* Reads before the transaction, each on a client of its own.

\* Mutant: requireMembership(), which lets any member pass.
RequireAnyMembership(s) ==
    /\ pc[s] = "requireMembership"
    /\ PoolHasClient
    /\ \E m \in memberships : m.organisation = req[s].organisation /\ m.person = req[s].person
    /\ req' = [req EXCEPT ![s].issued = clock]
    /\ Goto(s, "connect")
    /\ UNCHANGED <<recordVars, written, connected, answer>>

\* requireMembership(['owner']), the pre-handler of the invite route; the
\* handler then computes the expiry, before it has a connection.
RequireMembership(s) ==
    LET held == {m \in memberships : /\ m.organisation = req[s].organisation
                                     /\ m.person = req[s].person}
    IN /\ pc[s] = "requireMembership"
       /\ PoolHasClient
       /\ \/ held = {} /\ Refuse(s, "notFound")
          \/ \E m \in held : m.permission # "owner" /\ Refuse(s, "forbidden")
          \/ /\ Owner(req[s].organisation, req[s].person) \in held
             /\ req' = [req EXCEPT ![s].issued = clock]
             /\ Goto(s, "connect")
             /\ UNCHANGED <<recordVars, written, connected, answer>>

\* Mutant: acceptInvitation leaves the email check to the GET route.
GetInvitationForAnyone(s) ==
    /\ pc[s] = "getInvitationByToken"
    /\ PoolHasClient
    /\ \E i \in invitations :
        /\ i.id = req[s].invitation /\ i.acceptedAt = None /\ i.expiresAt > clock
        /\ req' = [req EXCEPT ![s].organisation = i.organisation,
                              ![s].permission = i.permission]
    /\ Goto(s, "connect")
    /\ UNCHANGED <<recordVars, written, connected, answer>>

\* The checks acceptInvitation makes on the invitation it reads.
GetInvitationByToken(s) ==
    /\ pc[s] = "getInvitationByToken"
    /\ PoolHasClient
    /\ LET found == {i \in invitations : i.id = req[s].invitation}
           valid == {i \in found : i.acceptedAt = None /\ i.expiresAt > clock}
       IN \/ /\ valid = {}
             /\ Refuse(s, "notValid")
          \/ \E i \in valid :
                /\ i.email # Lower[req[s].email]
                /\ Refuse(s, "wrongAccount")
          \/ \E i \in valid :
                /\ i.email = Lower[req[s].email]
                /\ req' = [req EXCEPT ![s].organisation = i.organisation,
                                      ![s].permission = i.permission]
                /\ Goto(s, "connect")
                /\ UNCHANGED <<recordVars, written, connected, answer>>

-----------------------------------------------------------------------------
\* withTransaction.

\* connect and BEGIN: now() is the same in every statement that follows.
BeginTransaction(s) ==
    /\ pc[s] = "connect"
    /\ PoolHasClient
    /\ connected' = connected \cup {s}
    /\ req' = [req EXCEPT ![s].now = clock]
    /\ Goto(s, FirstStatement(req[s].op))
    /\ UNCHANGED <<recordVars, written, answer>>

CreatePerson(s) ==
    /\ pc[s] = "createPerson"
    /\ Statement(s, "linkExternalIdentity")

\* Mutant: the schema lacks external_identity_issuer_subject_key.
LinkWithoutKey(s) ==
    /\ pc[s] = "linkExternalIdentity"
    /\ Statement(s, "recordAuditEvent")

\* external_identity_issuer_subject_key decides, not a prior read.
LinkExternalIdentity(s) ==
    /\ pc[s] = "linkExternalIdentity"
    /\ IF \E i \in identities : i.subject = req[s].subject
       THEN Throw(s, "alreadyRegistered")
       ELSE Statement(s, "recordAuditEvent")

\* Mutant: createOrganisation relies on a read made while others insert.
CreateOrganisationAfterRead(s) ==
    /\ pc[s] = "createOrganisation"
    /\ Wrote(s, pc[s])
    /\ Goto(s, "addMembership")
    /\ UNCHANGED <<recordVars, req, connected, answer>>

\* Mutant: createOrganisation runs on the pool, outside the transaction.
CreateOrganisationOnThePool(s) ==
    /\ pc[s] = "createOrganisation"
    /\ \A o \in organisations : o.sbi # req[s].sbi
    /\ organisations' = organisations \cup {NewOrganisation(req[s])}
    /\ Goto(s, "addMembership")
    /\ UNCHANGED <<clock, people, identities, memberships, invitations, auditEvents,
                   req, written, connected, answer>>

\* Mutant: an SBI that another request is about to insert is taken for a
\* duplicate, though that request may still roll back.
CreateOrganisationWithoutWaiting(s) ==
    /\ pc[s] = "createOrganisation"
    /\ IF RowLockHolders(s) # {} \/ \E o \in organisations : o.sbi = req[s].sbi
       THEN /\ answer' = [answer EXCEPT ![s] = "duplicateSbi"]
            /\ Goto(s, "rollback")
            /\ UNCHANGED <<recordVars, req, written, connected>>
       ELSE Statement(s, "addMembership")

\* organisation_sbi_key.
CreateOrganisation(s) ==
    /\ pc[s] = "createOrganisation"
    /\ IF \E o \in organisations : o.sbi = req[s].sbi
       THEN Throw(s, "duplicateSbi")
       ELSE Statement(s, "addMembership")

\* Mutant: the schema lacks organisation_person_organisation_id_person_id_key.
AddMembershipWithoutKey(s) ==
    /\ pc[s] = "addMembership"
    /\ Statement(s, "recordAuditEvent")

\* organisation_person_organisation_id_person_id_key.
AddMembership(s) ==
    /\ pc[s] = "addMembership"
    /\ IF \E m \in memberships : /\ m.organisation = req[s].organisation
                                 /\ m.person = req[s].person
       THEN Throw(s, "alreadyMember")
       ELSE Statement(s, "recordAuditEvent")

CreateInvitation(s) ==
    /\ pc[s] = "createInvitation"
    /\ Statement(s, "recordAuditEvent")

\* Mutant: the UPDATE has no `accepted_at IS NULL`.
MarkAcceptedAgain(s) ==
    /\ pc[s] = "markInvitationAccepted"
    /\ \E i \in invitations : i.id = req[s].invitation /\ i.expiresAt > req[s].now
    /\ Statement(s, "addMembership")

\* Mutant: the UPDATE has no `expires_at > now()`, the read having checked it.
MarkAcceptedLate(s) ==
    /\ pc[s] = "markInvitationAccepted"
    /\ \E i \in invitations : i.id = req[s].invitation /\ i.acceptedAt = None
    /\ Statement(s, "addMembership")

\* Mutant: the UPDATE is not passed the client and commits on its own.
MarkAcceptedOnThePool(s) ==
    /\ pc[s] = "markInvitationAccepted"
    /\ \E i \in invitations : /\ i.id = req[s].invitation
                               /\ i.acceptedAt = None
                               /\ i.expiresAt > clock
                               /\ invitations' = (invitations \ {i})
                                      \cup {[i EXCEPT !.acceptedAt = clock]}
    /\ Goto(s, "addMembership")
    /\ UNCHANGED <<clock, people, identities, organisations, memberships, auditEvents,
                   req, written, connected, answer>>

\* The conditional UPDATE, evaluated on the row as the last committed claim of
\* it left it, against the time the transaction began.
MarkInvitationAccepted(s) ==
    /\ pc[s] = "markInvitationAccepted"
    /\ IF \E i \in invitations : /\ i.id = req[s].invitation
                                 /\ i.acceptedAt = None
                                 /\ i.expiresAt > req[s].now
       THEN Statement(s, "addMembership")
       ELSE Throw(s, "notValid")

\* Mutant: the event is written on the pool, whatever becomes of the transaction.
RecordAuditEventAtOnce(s) ==
    /\ pc[s] = "recordAuditEvent"
    /\ auditEvents' = auditEvents \cup {NewAuditEvent(req[s])}
    /\ Goto(s, "commit")
    /\ UNCHANGED <<clock, people, identities, organisations, memberships, invitations,
                   req, written, connected, answer>>

RecordAuditEvent(s) ==
    /\ pc[s] = "recordAuditEvent"
    /\ pc[s] \in OnThePool => PoolHasClient
    /\ Statement(s, "commit")

\* The tables once the transaction of s is committed.
Publish(s) ==
    LET r == req[s]
        rows(statement, row) == IF statement \in written[s] THEN {row} ELSE {}
    IN /\ people' = people \cup rows("createPerson", NewPerson(r))
       /\ identities' = identities \cup rows("linkExternalIdentity", NewIdentity(r))
       /\ organisations' = organisations \cup rows("createOrganisation", NewOrganisation(r))
       /\ memberships' = memberships \cup rows("addMembership", NewMembership(r))
       /\ invitations' =
              IF "markInvitationAccepted" \in written[s]
              THEN {IF i.id = r.invitation THEN [i EXCEPT !.acceptedAt = r.now] ELSE i
                       : i \in invitations}
              ELSE invitations \cup rows("createInvitation", NewInvitation(r))
       /\ auditEvents' = auditEvents \cup rows("recordAuditEvent", NewAuditEvent(r))

\* COMMIT.  If its reply is lost the rows are there all the same, ROLLBACK is
\* sent to a dead connection, and the caller gets an error.
CommitTransaction(s, outcome) ==
    /\ pc[s] = "commit"
    /\ Publish(s)
    /\ Quit(s, outcome)
    /\ UNCHANGED <<clock, req>>

Commit(s) == CommitTransaction(s, SuccessOf(req[s].op))

CommitLost(s) == CommitTransaction(s, "error")

\* Mutant: the catch of withTransaction does not rethrow.
RollbackSwallowingError(s) ==
    /\ pc[s] = "rollback"
    /\ Quit(s, SuccessOf(req[s].op))
    /\ UNCHANGED <<recordVars, req>>

\* The catch and finally of withTransaction, and the service's catch, which
\* turned the unique violation into its own error.
Rollback(s) ==
    /\ pc[s] = "rollback"
    /\ Quit(s, answer[s])
    /\ UNCHANGED <<recordVars, req>>

\* A statement, COMMIT or ROLLBACK fails: the connection or the statement is
\* gone, the transaction has no effect, and the error that is rethrown is the
\* failure's own, whatever was being rolled back.
StatementFails(s) ==
    /\ pc[s] \in Reads \cup InTransaction \cup {"connect"}
    /\ Quit(s, "error")
    /\ UNCHANGED <<recordVars, req>>

Deliver(s) ==
    /\ pc[s] = "answered"
    /\ Goto(s, "idle")
    /\ req' = [req EXCEPT ![s] = NoRequest]
    /\ answer' = [answer EXCEPT ![s] = None]
    /\ UNCHANGED <<recordVars, written, connected>>

\* The process stops; PostgreSQL undoes whatever was open.
Crash ==
    /\ \E s \in Slots : Busy(s)
    /\ pc' = [s \in Slots |-> "idle"]
    /\ req' = [s \in Slots |-> NoRequest]
    /\ written' = [s \in Slots |-> {}]
    /\ connected' = {}
    /\ answer' = [s \in Slots |-> None]
    /\ UNCHANGED recordVars

Tick ==
    /\ clock < MaxClock
    /\ clock' = clock + 1
    /\ UNCHANGED <<people, identities, organisations, memberships, invitations,
                   auditEvents, pc, req, written, connected, answer>>

-----------------------------------------------------------------------------
Arrival(s) ==
    \/ ArriveRegister(s)
    \/ ArriveCreate(s)
    \/ ArriveInvite(s)
    \/ ArriveAccept(s)

\* What a request in progress does when nothing fails.
Step(s) ==
    \/ RequireMembership(s)
    \/ GetInvitationByToken(s)
    \/ BeginTransaction(s)
    \/ CreatePerson(s)
    \/ LinkExternalIdentity(s)
    \/ CreateOrganisation(s)
    \/ AddMembership(s)
    \/ CreateInvitation(s)
    \/ MarkInvitationAccepted(s)
    \/ RecordAuditEvent(s)
    \/ Commit(s)
    \/ Rollback(s)
    \/ Deliver(s)

Failure(s) == CommitLost(s) \/ StatementFails(s)

Next ==
    \/ \E s \in Slots : Arrival(s) \/ Step(s) \/ Failure(s)
    \/ Crash
    \/ Tick

Spec == Init /\ [][Next]_vars

\* A slot that could go on again and again goes on.  The pool hands clients to
\* its waiters in order and PostgreSQL wakes those who wait for a row, so a
\* wait that could end repeatedly does not last for ever.  Nothing says that
\* requests arrive, that statements fail or that time passes.
Fairness == \A s \in Slots : SF_vars(Step(s))

FairSpec == Spec /\ Fairness

-----------------------------------------------------------------------------
\* The code does what AtomicRecords says: every statement is a stutter and
\* every COMMIT one whole operation, whatever else is in progress.
ImplementsAtomicRecords == AtomicSpec

\* The same of each step alone, for runs that start from a database in use.
StepsAreAtomic == [][AtomicNext]_recordVars

\* What the user is told is so: a success is in the database when it is
\* announced and a refusal names a record that is really there.  Only "error"
\* and "notFound" promise nothing: a membership may come after the refusal.
AnswersAreTrue ==
    \A s \in Slots : pc[s] = "answered" =>
        LET r == req[s] IN
        /\ answer[s] = "registered" => NewPerson(r) \in people /\ NewIdentity(r) \in identities
        /\ answer[s] = "alreadyRegistered" => \E i \in identities : i.subject = r.subject
        /\ answer[s] = "created" =>
               /\ NewOrganisation(r) \in organisations
               /\ Owner(r.organisation, r.person) \in memberships
        /\ answer[s] = "duplicateSbi" => \E o \in organisations : o.sbi = r.sbi
        /\ answer[s] = "invited" =>
               \E i \in invitations : i.id = r.invitation /\ i.email = r.email
        /\ answer[s] = "forbidden" =>
               [organisation |-> r.organisation, person |-> r.person,
                permission |-> "member"] \in memberships
        /\ answer[s] = "accepted" =>
               /\ NewMembership(r) \in memberships
               /\ Accepted(r.person, r.organisation, r.invitation) \in auditEvents
        /\ answer[s] = "alreadyMember" =>
               \E m \in memberships : m.organisation = r.organisation /\ m.person = r.person
        /\ answer[s] = "notValid" =>
               ~\E i \in invitations :
                    i.id = r.invitation /\ i.acceptedAt = None /\ i.expiresAt > clock
        /\ answer[s] = "wrongAccount" =>
               \E i \in invitations : i.id = r.invitation /\ i.email # Lower[r.email]

\* No set of requests waits only for itself: whoever waits for a client of the
\* pool or for a row waits, in the end, for a request that can go on.
NoDeadlock ==
    ~\E D \in (SUBSET Slots) \ {{}} :
        \A s \in D : WaitsFor(s) # {} /\ WaitsFor(s) \subseteq D

\* Every request is answered, however many compete for the pool and the keys.
EveryRequestIsAnswered == \A s \in Slots : Busy(s) ~> ~Busy(s)

\* README.md:67 of /invitations/{token}: "Requires signing in with a One Login
\* account whose email matches", and views/invitations/wrong-account.njk:10, the
\* page of a refusal: "You are signed in with a different email address to the
\* one the invitation was sent to."  A person whose account does match, and who
\* is not a member yet, is not told so.
InvitedAccountIsNotRefused ==
    \A s \in Slots : pc[s] = "answered" /\ answer[s] = "wrongAccount" =>
        ~\E i \in invitations, a \in identities :
            /\ i.id = req[s].invitation
            /\ a.person = req[s].person
            /\ i.email = Lower[LoginEmail[a.subject]]
            /\ \A m \in memberships :
                   ~(m.organisation = i.organisation /\ m.person = req[s].person)

-----------------------------------------------------------------------------
\* The inductive invariant behind the theorems of TransactionsProofs.

\* A slot's request is complete for its operation.
RequestIsComplete(s) ==
    LET r == req[s] IN
    /\ pc[s] = "idle" => r.op = None
    /\ pc[s] = "requireMembership" => r.op = "invite"
    /\ pc[s] = "getInvitationByToken" => r.op = "accept"
    /\ pc[s] \in {"connect"} \cup InTransaction => r.op \in Operations
    /\ r.op # None => r.person \in People
    /\ r.op = "register" => r.subject \in Subjects /\ r.email \in Emails
    /\ r.op = "create" =>
           r.organisation \in Organisations /\ r.sbi \in Sbis /\ r.permission = "owner"
    /\ r.op = "invite" =>
           /\ r.organisation \in Organisations /\ r.invitation \in Invitations
           /\ r.permission \in Permissions
           /\ r.email \in Emails /\ Lower[r.email] = r.email

\* A slot holds a client exactly while its transaction is open, and what the
\* transaction has written is what comes before the statement it awaits.
WrittenInOrder(s) ==
    LET doing(op, done) == req[s].op = op /\ written[s] = done IN
    /\ s \in connected <=> pc[s] \in InTransaction
    /\ pc[s] \notin Writes \cup {"commit"} => written[s] = {}
    /\ pc[s] = "createPerson" => doing("register", {})
    /\ pc[s] = "linkExternalIdentity" => doing("register", {"createPerson"})
    /\ pc[s] = "createOrganisation" => doing("create", {})
    /\ pc[s] = "createInvitation" => doing("invite", {})
    /\ pc[s] = "markInvitationAccepted" => doing("accept", {})
    /\ pc[s] = "addMembership" =>
           \/ doing("create", {"createOrganisation"})
           \/ doing("accept", {"markInvitationAccepted"})
    /\ pc[s] = "recordAuditEvent" =>
           \/ doing("register", {"createPerson", "linkExternalIdentity"})
           \/ doing("create", {"createOrganisation", "addMembership"})
           \/ doing("invite", {"createInvitation"})
           \/ doing("accept", {"markInvitationAccepted", "addMembership"})
    /\ pc[s] = "commit" =>
           \/ doing("register", {"createPerson", "linkExternalIdentity", "recordAuditEvent"})
           \/ doing("create", {"createOrganisation", "addMembership", "recordAuditEvent"})
           \/ doing("invite", {"createInvitation", "recordAuditEvent"})
           \/ doing("accept", {"markInvitationAccepted", "addMembership", "recordAuditEvent"})

\* What a slot read or wrote earlier still agrees with the committed tables:
\* its new ids and keys are free and the rows it relies on are there.
StillHolds(s) ==
    LET r == req[s] IN
    pc[s] \in Reads \cup {"connect"} \cup Writes \cup {"commit"} =>
    /\ r.op = "register" =>
           /\ \A p \in people : p.id # r.person
           /\ "linkExternalIdentity" \in written[s] =>
                  \A i \in identities : i.subject # r.subject
    /\ r.op = "create" =>
           /\ \E p \in people : p.id = r.person
           /\ \A o \in organisations : o.id # r.organisation
           /\ "createOrganisation" \in written[s] =>
                  \A o \in organisations : o.sbi # r.sbi
    /\ r.op = "invite" =>
           /\ \A i \in invitations : i.id # r.invitation
           /\ pc[s] # "requireMembership" =>
                  /\ Owner(r.organisation, r.person) \in memberships
                  /\ r.issued <= clock
    /\ r.op = "accept" =>
           /\ \E p \in people : p.id = r.person /\ p.email = r.email
           /\ pc[s] # "getInvitationByToken" =>
                  \E i \in invitations :
                      /\ i.id = r.invitation
                      /\ i.organisation = r.organisation
                      /\ i.permission = r.permission
                      /\ i.email = Lower[r.email]
                      /\ "markInvitationAccepted" \in written[s] =>
                             /\ i.acceptedAt = None
                             /\ r.now < i.expiresAt
           /\ pc[s] \notin Reads \cup {"connect"} => r.now <= clock
           /\ "addMembership" \in written[s] =>
                  \A m \in memberships : ~(m.organisation = r.organisation /\ m.person = r.person)

\* Two requests never generate one id, nor have one key written and uncommitted.
Exclusive(s, t) ==
    LET q == req[s]
        r == req[t]
        bothWrote(statement) == statement \in written[s] /\ statement \in written[t]
    IN /\ q.op = "register" /\ r.op = "register" => q.person # r.person
       /\ q.op = "create" /\ r.op = "create" => q.organisation # r.organisation
       /\ q.op = "invite" /\ r.op = "invite" => q.invitation # r.invitation
       /\ bothWrote("linkExternalIdentity") => q.subject # r.subject
       /\ bothWrote("createOrganisation") => q.sbi # r.sbi
       /\ bothWrote("markInvitationAccepted") => q.invitation # r.invitation
       /\ bothWrote("addMembership") => ~(q.organisation = r.organisation /\ q.person = r.person)

SlotInvariant(s) == RequestIsComplete(s) /\ WrittenInOrder(s) /\ StillHolds(s)

\* All of it together.  No request acts on something that is no longer so:
\* what it checked before its transaction, or wrote inside it, still stands at
\* every later statement up to its COMMIT.
TransactionsInvariant ==
    /\ TypeOK
    /\ Consistent
    /\ \A s \in Slots : SlotInvariant(s)
    /\ \A s, t \in Slots : s # t => Exclusive(s, t)

=============================================================================
