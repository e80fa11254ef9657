-------------------------------- MODULE Gate --------------------------------
(***************************************************************************)
(* What a request goes through on its way to an answer: authentication and *)
(* the registration guard, validation of the path, validation of the       *)
(* payload, the membership pre-handler, the handler; and what each kind of *)
(* caller is answered.  Every read of the database in between is a step.   *)
(*                                                                         *)
(* What a handler writes is one operation of AtomicRecords, which is what  *)
(* Transactions is about.  Other processes of the service write as well.   *)
(***************************************************************************)
EXTENDS AtomicRecords, Sequences

CONSTANTS
    Slots,          \* requests that may be in progress at once
    Malformed,      \* a path parameter that is not an id, or not a token
    Refusals        \* what Joi may have to say of a payload, see Detail

\* Guarded routes that take no parameter; of a business; of an invitation.
PlainRoutes == {"account", "organisations", "createForm", "create"}
BusinessRoutes == {"details", "inviteForm", "invite"}
InvitationRoutes == {"showInvitation", "accept"}
Routes == {"healthy", "home"} \cup PlainRoutes \cup BusinessRoutes \cup InvitationRoutes

\* One of a ValidationError's details: the field, and which of its messages.
Detail == [path : {"name", "sbi", "email", "permission"},
           message : {"any.required", "string.empty", "string.email", "any.only", "exists"}]

ASSUME RefusalsAssumption == Refusals \subseteq Seq(Detail) \ {<<>>}

VARIABLES
    visit,          \* what each slot is doing
    told            \* history: answers about an invitation or a business

gateVars == <<visit, told>>
vars == <<recordVars, gateVars>>

Stages == {"authenticate", "failAction", "pre", "handle", "answered"}

Pages == {"ok", "home", "account", "list", "createForm", "createErrors", "details",
          "inviteForm", "inviteErrors", "inviteSent", "acceptPage", "wrongAccount",
          "notValid", "notFound", "forbidden", "error"}
Redirects == {"signIn", "yourName", "organisations", "business"}

\* `person` is that of the session, if any; `organisation` and `invitation` are
\* path parameters; `details` is what is wrong with the payload; `permission` is
\* the caller's, once read; `listed` and `pending` are what `reads` reads of the
\* database found for the details.
Visit == [route : Routes, session : BOOLEAN, person : People \cup {None},
          organisation : Organisations \cup {Malformed, None},
          invitation : Invitations \cup {Malformed, None},
          details : Seq(Detail), since : Time, stage : Stages,
          permission : Permissions \cup {None}, reads : 0 .. 2, listed : SUBSET People,
          pending : SUBSET Invitations, answer : Pages \cup Redirects \cup {None}]

Told == [person : People, about : Organisations \cup Invitations,
         answer : {"business", "acceptPage", "wrongAccount"}]

\* Requests and what was said of them keep to their types.
TypeOK ==
    /\ RecordsTypeOK
    /\ visit \in [Slots -> Visit \cup {None}]
    /\ told \subseteq Told

-----------------------------------------------------------------------------
At(s, stage) == visit[s] # None /\ visit[s].stage = stage

Handling(s, route) == At(s, "handle") /\ visit[s].route = route

Goto(s, stage) == visit' = [visit EXCEPT ![s].stage = stage]

Reply(s, answer) == visit' = [visit EXCEPT ![s].stage = "answered", ![s].answer = answer]

\* ... and what was said is remembered.
Tell(s, answer, about) ==
    /\ visit' = [visit EXCEPT ![s].stage = "answered", ![s].answer = answer,
                              ![s].organisation = IF answer = "business" THEN about ELSE @]
    /\ told' = told \cup {[person |-> visit[s].person, about |-> about, answer |-> answer]}

\* A request, of nobody, of somebody signed in, or of a registered person.
Arrive(s) ==
    /\ visit[s] = None
    /\ \E route \in Routes, session \in BOOLEAN, person \in {p.id : p \in people} \cup {None},
          organisation \in Organisations \cup {Malformed, None},
          invitation \in Invitations \cup {Malformed, None}, details \in Refusals \cup {<<>>} :
        /\ person # None => session
        /\ organisation # None <=> route \in BusinessRoutes
        /\ invitation # None <=> route \in InvitationRoutes
        /\ details # <<>> => route \in {"create", "invite"}
        /\ visit' = [visit EXCEPT ![s] =
               [route |-> route, session |-> session, person |-> person,
                organisation |-> organisation, invitation |-> invitation,
                details |-> details, since |-> clock, stage |-> "authenticate",
                permission |-> None, reads |-> 0, listed |-> {}, pending |-> {}, answer |-> None]]
    /\ UNCHANGED <<recordVars, told>>

-----------------------------------------------------------------------------
\* Authentication and the guard.

\* auth: false, or a mode of `try`.
ServeOpen(s) ==
    /\ At(s, "authenticate")
    /\ \/ visit[s].route = "healthy" /\ Reply(s, "ok")
       \/ visit[s].route = "home" /\ ~visit[s].session /\ Reply(s, "home")
    /\ UNCHANGED <<recordVars, told>>

\* No session: 401, which becomes a redirect.
TurnAway(s) ==
    /\ At(s, "authenticate")
    /\ visit[s].route \notin {"healthy", "home"}
    /\ ~visit[s].session
    /\ Reply(s, "signIn")
    /\ UNCHANGED <<recordVars, told>>

\* The guard: registration first.
SendToRegistration(s) ==
    /\ At(s, "authenticate")
    /\ visit[s].route # "healthy"
    /\ visit[s].session
    /\ visit[s].person = None
    /\ Reply(s, "yourName")
    /\ UNCHANGED <<recordVars, told>>

\* Path parameters first, then the payload: only a payload in order gets to the
\* pre-handler, or to the handler where there is none.  The invite form has one
\* failAction for both.
Validate(s) ==
    LET v == visit[s]
        malformed == Malformed \in {v.organisation, v.invitation}
    IN /\ At(s, "authenticate")
       /\ v.route # "healthy"
       /\ v.person # None
       /\ \/ ~malformed /\ v.details = <<>>
             /\ Goto(s, IF v.route \in BusinessRoutes THEN "pre" ELSE "handle")
          \/ malformed /\ v.route # "invite" /\ Reply(s, "notFound")
          \/ v.details # <<>> /\ v.route = "create" /\ Reply(s, "createErrors")
          \/ (malformed \/ v.details # <<>>) /\ v.route = "invite" /\ Goto(s, "failAction")
       /\ UNCHANGED <<recordVars, told>>

-----------------------------------------------------------------------------
\* getOrganisationForPerson: the permissions, one at most, of the caller in the
\* business of the path.
GetOrganisationForPerson(s) ==
    {m.permission : m \in {n \in memberships : /\ n.organisation = visit[s].organisation
                                               /\ n.person = visit[s].person}}

\* Mutant: the form is shown again without asking who is asking.
ShowErrorsToAnyone(s) ==
    LET known == \E o \in organisations : o.id = visit[s].organisation IN
    /\ At(s, "failAction")
    /\ Reply(s, IF known THEN "inviteErrors" ELSE "notFound")
    /\ UNCHANGED <<recordVars, told>>

\* failAction of POST invite, which runs before the pre-handler: any member is
\* shown the form again.  The database refuses an id that is none, see Fails.
ShowErrors(s) ==
    /\ At(s, "failAction")
    /\ visit[s].organisation # Malformed
    /\ Reply(s, IF GetOrganisationForPerson(s) = {} THEN "notFound" ELSE "inviteErrors")
    /\ UNCHANGED <<recordVars, told>>

\* requireMembership(): any member.
\* requireMembership(['owner']): owners.
Sufficient(route) == IF route = "details" THEN Permissions ELSE {"owner"}

RequireMembership(s) ==
    /\ At(s, "pre")
    /\ \/ GetOrganisationForPerson(s) = {} /\ Reply(s, "notFound")
       \/ \E permission \in GetOrganisationForPerson(s) :
           IF permission \in Sufficient(visit[s].route)
           THEN visit' = [visit EXCEPT ![s].stage = "handle", ![s].permission = permission]
           ELSE Reply(s, "forbidden")
    /\ UNCHANGED <<recordVars, told>>

-----------------------------------------------------------------------------
\* Handlers that read.

\* What most GETs answer at once, or after a read that only feeds the page.
PageOf == [home |-> "organisations", account |-> "account", organisations |-> "list",
           createForm |-> "createForm", inviteForm |-> "inviteForm"]

ShowPage(s) ==
    /\ At(s, "handle")
    /\ visit[s].route \in DOMAIN PageOf
    /\ Reply(s, PageOf[visit[s].route])
    /\ UNCHANGED <<recordVars, told>>

\* Mutant: rows of the join, without what was selected of them.
RowsOf(organisation) == {m \in memberships : m.organisation = organisation}

PeopleIn(organisation) == {m.person : m \in {n \in memberships : n.organisation = organisation}}

PendingOf(organisation) ==
    {i.id : i \in {j \in invitations : /\ j.organisation = organisation
                                       /\ j.acceptedAt = None
                                       /\ clock < j.expiresAt}}

\* Mutant: the two reads of the details the other way round.
PendingReadFirst == <<"pending", "people">>

\* GET /organisations/{id}: the people are read, then, for owners, the
\* invitations that are still open.
DetailsReads == <<"people", "pending">>

ReadDetails(s) ==
    LET v == visit[s]
        part == DetailsReads[v.reads + 1]
    IN /\ Handling(s, "details")
       /\ visit' = [visit EXCEPT
              ![s].reads = @ + 1,
              ![s].listed = IF part = "people" THEN PeopleIn(v.organisation) ELSE @,
              ![s].pending = IF part = "pending" /\ v.permission = "owner"
                             THEN PendingOf(v.organisation) ELSE @,
              ![s].stage = IF v.reads = 1 THEN "answered" ELSE @,
              ![s].answer = IF v.reads = 1 THEN "details" ELSE @]
       /\ UNCHANGED <<recordVars, told>>

EmailOf(person) == (CHOOSE p \in people : p.id = person).email

\* Mutant: addresses are compared as they were typed.
IsAddresseeAsTyped(i, person) == i.email = EmailOf(person)

\* The page's own comparison.
IsAddressee(i, person) == i.email = Lower[EmailOf(person)]

\* GET /invitations/{token}.
ShowInvitation(s) ==
    LET v == visit[s]
        open == {i \in invitations : i.id = v.invitation /\ i.acceptedAt = None /\ clock < i.expiresAt}
    IN /\ Handling(s, "showInvitation")
       /\ \/ open = {} /\ Reply(s, "notValid") /\ UNCHANGED told
          \/ \E i \in open :
              Tell(s, IF IsAddressee(i, v.person) THEN "acceptPage" ELSE "wrongAccount", i.id)
       /\ UNCHANGED recordVars

-----------------------------------------------------------------------------
\* Handlers that write.

\* POST /organisations/create.
Create(s) ==
    /\ Handling(s, "create")
    /\ \E organisation \in Organisations, sbi \in Sbis :
        /\ CreateOrganisationWithOwner(visit[s].person, organisation, sbi)
        /\ Tell(s, "business", organisation)

\* ... of an SBI that is taken: the form again, with that error.
RefuseSbi(s) ==
    /\ Handling(s, "create")
    /\ \E o \in organisations : o.sbi \in Sbis
    /\ visit' = [visit EXCEPT ![s].stage = "answered", ![s].answer = "createErrors",
                              ![s].details = <<[path |-> "sbi", message |-> "exists"]>>]
    /\ UNCHANGED <<recordVars, told>>

\* POST /organisations/{id}/invite.
Invite(s) ==
    LET v == visit[s] IN
    /\ Handling(s, "invite")
    /\ \E invitation \in Invitations, email \in Emails, permission \in Permissions,
          issued \in v.since .. clock :
        InviteToOrganisation(v.person, v.organisation, invitation, email, permission, issued)
    /\ Reply(s, "inviteSent")
    /\ UNCHANGED told

\* POST /invitations/{token}.
Accept(s) ==
    LET v == visit[s] IN
    /\ Handling(s, "accept")
    /\ \E p \in people, i \in invitations, claimed \in v.since .. clock :
        /\ p.id = v.person /\ i.id = v.invitation
        /\ AcceptInvitation(p, i, claimed)
        /\ Tell(s, "business", i.organisation)

\* Mutant: whoever comes too late for an invitation is sent to the business.
RefuseInvitationKindly(s) ==
    LET v == visit[s] IN
    /\ Handling(s, "accept")
    /\ \/ /\ \A i \in invitations : i.id # v.invitation
          /\ Reply(s, "notValid") /\ UNCHANGED told
       \/ \E i \in invitations :
           /\ i.id = v.invitation
           /\ i.acceptedAt # None \/ i.expiresAt <= clock
           /\ Tell(s, "business", i.organisation)
    /\ UNCHANGED recordVars

\* ... of an invitation that is unknown, accepted or expired; that is somebody
\* else's; to a business one belongs to.
RefuseInvitation(s) ==
    LET v == visit[s]
        mine == {i \in invitations : i.id = v.invitation}
    IN /\ Handling(s, "accept")
       /\ \/ /\ \A i \in mine : i.acceptedAt # None \/ i.expiresAt <= clock
             /\ Reply(s, "notValid") /\ UNCHANGED told
          \/ \E i \in mine :
              /\ i.acceptedAt = None /\ v.since < i.expiresAt
              /\ i.email # Lower[EmailOf(v.person)]
              /\ Tell(s, "wrongAccount", i.id)
          \/ \E i \in mine :
              /\ i.acceptedAt = None /\ v.since < i.expiresAt
              /\ i.email = Lower[EmailOf(v.person)]
              /\ \E m \in memberships : m.organisation = i.organisation /\ m.person = v.person
              /\ Reply(s, "organisations") /\ UNCHANGED told
       /\ UNCHANGED recordVars

-----------------------------------------------------------------------------
\* Redis or the database fails a read or a write, or answers too late: the error
\* page.  A write may have been made all the same, which is Elsewhere.
Fails(s) ==
    LET v == visit[s] IN
    /\ v # None
    /\ v.stage # "answered"
    /\ v.route # "healthy" /\ v.session
    /\ ~(v.stage = "handle" /\ v.route \in {"home", "createForm", "inviteForm"})
    /\ Reply(s, "error")
    /\ UNCHANGED <<recordVars, told>>

Leave(s) ==
    /\ At(s, "answered")
    /\ visit' = [visit EXCEPT ![s] = None]
    /\ UNCHANGED <<recordVars, told>>

\* Registrations, other processes of the service, and time.
Elsewhere == AtomicNext /\ UNCHANGED gateVars

Enter(s) == ServeOpen(s) \/ TurnAway(s) \/ SendToRegistration(s) \/ Validate(s)

Admission(s) == ShowErrors(s) \/ RequireMembership(s)

Handle(s) ==
    \/ ShowPage(s) \/ ReadDetails(s) \/ ShowInvitation(s)
    \/ Create(s) \/ RefuseSbi(s) \/ Invite(s) \/ Accept(s) \/ RefuseInvitation(s)

Init ==
    /\ EmptyRecords
    /\ visit = [s \in Slots |-> None]
    /\ told = {}

Next ==
    \/ \E s \in Slots : Arrive(s) \/ Enter(s) \/ Admission(s) \/ Handle(s) \/ Fails(s) \/ Leave(s)
    \/ Elsewhere

Spec == Init /\ [][Next]_vars

-----------------------------------------------------------------------------
\* The error summary.

\* Mutant: the last message of a field replaces the first.
ShowLastOf(errors, detail) ==
    [errorList |-> Append(errors.errorList, [text |-> detail.message, href |-> detail.path]),
     fields |-> [f \in DOMAIN errors.fields \cup {detail.path} |->
                    IF f = detail.path THEN detail.message ELSE errors.fields[f]]]

\* One turn of the loop: a field that has a message keeps it.
ShowDetail(errors, detail) ==
    IF detail.path \in DOMAIN errors.fields THEN errors
    ELSE [errorList |-> Append(errors.errorList, [text |-> detail.message, href |-> detail.path]),
          fields |-> [f \in DOMAIN errors.fields \cup {detail.path} |->
                         IF f = detail.path THEN detail.message ELSE errors.fields[f]]]

NoErrors == [errorList |-> <<>>, fields |-> [f \in {} |-> None]]

\* The loop: what there is to show after each turn, and at the end.
ErrorsAfter(details) ==
    LET errors[n \in 0 .. Len(details)] ==
            IF n = 0 THEN NoErrors ELSE ShowDetail(errors[n - 1], details[n])
    IN  errors

BuildViewErrors(details) == ErrorsAfter(details)[Len(details)]

-----------------------------------------------------------------------------
Answered(s, route) == At(s, "answered") /\ visit[s].route = route

IsMember(person, organisation) ==
    \E m \in memberships : m.person = person /\ m.organisation = organisation

\* README.md:147: "Asking for a business you are not linked to returns "page not
\* found", so the response cannot be used to confirm that a business exists".
\* Whatever a stranger asks of a business, in whatever order validation, guard
\* and handler run, the answer is the one for a business that does not exist.
StrangersSeeNothing ==
    \A s \in Slots :
        LET v == visit[s] IN
        /\ At(s, "answered")
        /\ v.route \in BusinessRoutes
        /\ v.person # None
        /\ ~IsMember(v.person, v.organisation)
        => v.answer \in {"notFound", "error"}

\* The page of an invitation and its form, which each compare the addresses for
\* themselves, agree: whoever was refused by either as another account is never
\* offered the invitation, and never let in by it.
PageAndFormAgree ==
    \A t \in told : t.answer = "wrongAccount" =>
        /\ [t EXCEPT !.answer = "acceptPage"] \notin told
        /\ \A i \in invitations : i.id = t.about =>
               Accepted(t.person, i.organisation, i.id) \notin auditEvents

\* The details of a business, which are read by two statements while people
\* accept, never show somebody both as a member and by the invitation that made
\* them one.
NobodyIsListedTwice ==
    \A s \in Slots :
        LET v == visit[s] IN
        Answered(s, "details") => \A p \in v.listed, i \in v.pending :
            Accepted(p, v.organisation, i) \notin auditEvents

\* Whoever has been redirected to a business, after creating it or accepting an
\* invitation, is let into its details from then on: neither handler redirects
\* before its transaction has made the caller a member.
RedirectedBusinessOpens ==
    [][\A s \in Slots :
         LET v == visit[s] IN
         /\ At(s, "pre")
         /\ v.route = "details"
         /\ [person |-> v.person, about |-> v.organisation, answer |-> "business"] \in told
         => visit'[s].answer \in {None, "error"}]_vars

\* Where Joi comes to a field for the first time.
FirstOfField(details) ==
    {n \in 1 .. Len(details) : \A k \in 1 .. n - 1 : details[k].path # details[n].path}

\* The error summary has one line for each field something is wrong with, in the
\* order Joi came to them, with the first thing that is wrong; and the field of
\* the page shows the message of its line.
FirstMessageWins ==
    \A s \in Slots :
        LET details == visit[s].details
            errors == BuildViewErrors(details)
            lines == 1 .. Len(errors.errorList)
        IN At(s, "answered") /\ visit[s].answer \in {"createErrors", "inviteErrors"} =>
            /\ \E place \in [lines -> FirstOfField(details)] :
                /\ \A i, j \in lines : i < j => place[i] < place[j]
                /\ \A n \in FirstOfField(details) : \E i \in lines : place[i] = n
                /\ \A i \in lines : errors.errorList[i] = [text |-> details[place[i]].message,
                                                          href |-> details[place[i]].path]
            /\ \A n \in FirstOfField(details) :
                   errors.fields[details[n].path] = details[n].message

=============================================================================
