----------------------------- MODULE GateProofs -----------------------------
(***************************************************************************)
(* What Gate says of every kind of caller holds for any number of requests *)
(* in progress, people, businesses and invitations.  The tables only grow, *)
(* so that what a request has read stays true while it waits; and what a   *)
(* caller was told stays true after the request is over.                   *)
(***************************************************************************)
EXTENDS Gate, AtomicRecordsProofs

\* Nothing is ever taken out of the tables, ids are not used again, and only
\* whoever an invitation is addressed to, and is no member yet, accepts it.
Grows ==
    /\ people \subseteq people'
    /\ memberships \subseteq memberships'
    /\ \A p \in people' : p \in people \/ \A q \in people : q.id # p.id
    /\ \A i \in invitations : \E j \in invitations' : j.id = i.id /\ j.email = i.email
    /\ \A j \in invitations' :
           \/ \E i \in invitations : j.id = i.id /\ j.email = i.email
           \/ \A i \in invitations : i.id # j.id
    /\ \A a \in auditEvents' :
           \/ a \in auditEvents
           \/ a.eventType # "invitation.accepted"
           \/ \E p \in people, i \in invitations :
                 /\ a = Accepted(p.id, i.organisation, i.id)
                 /\ i.email = Lower[p.email]
                 /\ ~IsMember(p.id, i.organisation)

LEMMA AtomicNextGrows ==
    ASSUME RecordsTypeOK, AtomicNext
    PROVE  Grows
<1>1. CASE \E subject \in Subjects, person \in People, email \in Emails :
               RegisterPerson(subject, person, email)
  BY <1>1 DEF RegisterPerson, Grows, Registered
<1>2. CASE \E person \in People, organisation \in Organisations, sbi \in Sbis :
               CreateOrganisationWithOwner(person, organisation, sbi)
  BY <1>2 DEF CreateOrganisationWithOwner, Grows, Created
<1>3. CASE \E person \in People, organisation \in Organisations, invitation \in Invitations,
              email \in Emails, permission \in Permissions, issued \in Time :
               InviteToOrganisation(person, organisation, invitation, email, permission, issued)
  BY <1>3 DEF InviteToOrganisation, Grows, Invited
<1>4. ASSUME NEW p \in people, NEW i \in invitations, NEW claimed \in Time,
             AcceptInvitation(p, i, claimed)
      PROVE  Grows
  <2>1. invitations' = (invitations \ {i}) \cup {[i EXCEPT !.acceptedAt = claimed]}
    BY <1>4 DEF AcceptInvitation
  <2>2. [i EXCEPT !.acceptedAt = claimed].id = i.id /\ [i EXCEPT !.acceptedAt = claimed].email = i.email
    BY DEF RecordsTypeOK, InvitationRow
  <2>3. \A j \in invitations : \E k \in invitations' : k.id = j.id /\ k.email = j.email
    BY <2>1, <2>2
  <2>4. \A k \in invitations' : \E j \in invitations : k.id = j.id /\ k.email = j.email
    BY <2>1, <2>2
  <2>5. ~IsMember(p.id, i.organisation) /\ i.email = Lower[p.email]
    BY <1>4 DEF AcceptInvitation, IsMember
  <2>6. \A a \in auditEvents' : a \in auditEvents \/ a = Accepted(p.id, i.organisation, i.id)
    BY <1>4 DEF AcceptInvitation
  <2>7. UNCHANGED people /\ memberships \subseteq memberships'
    BY <1>4 DEF AcceptInvitation
  <2>8. QED
    BY <2>3, <2>4, <2>5, <2>6, <2>7 DEF Grows
<1>5. CASE TimePasses
  BY <1>5 DEF TimePasses, Grows
<1>6. QED
  BY <1>1, <1>2, <1>3, <1>4, <1>5 DEF AtomicNext

-----------------------------------------------------------------------------
\* What holds of one request.

AddressOfRow(i, person) == \E p \in people : p.id = person /\ i.email = Lower[p.email]

\* A request past the guard has a registered caller, one past the pre-handler
\* a member; an answer is given once.
Admitted(s) ==
    LET v == visit[s] IN
    /\ v.person # None => v.session /\ \E p \in people : p.id = v.person
    /\ v.stage # "answered" => v.answer = None
    /\ v.stage \in {"failAction", "pre", "handle"} => v.person # None
    /\ v.stage = "failAction" => v.route = "invite"
    /\ v.stage = "pre" => v.route \in BusinessRoutes
    /\ v.stage = "handle" /\ v.route \in BusinessRoutes =>
           [organisation |-> v.organisation, person |-> v.person,
            permission |-> v.permission] \in memberships

\* Whoever is no member is answered as the property says.
StrangerSeesNothing(s) ==
    LET v == visit[s] IN
    /\ At(s, "answered")
    /\ v.route \in BusinessRoutes
    /\ v.person # None
    /\ ~IsMember(v.person, v.organisation)
    => v.answer \in {"notFound", "error"}

\* What the reads of the details have found, in their order.
ListsAgree(s) ==
    LET v == visit[s] IN
    /\ v.stage \notin {"handle", "answered"} => v.reads = 0
    /\ v.stage = "handle" => v.reads < 2
    /\ v.reads < 2 => v.pending = {}
    /\ v.reads = 0 => v.listed = {}
    /\ v.reads # 0 => v.route = "details"
    /\ \A p \in v.listed :
          /\ IsMember(p, v.organisation)
          /\ \A i \in v.pending : Accepted(p, v.organisation, i) \notin auditEvents

VisitInvariant(s) ==
    visit[s] # None => Admitted(s) /\ StrangerSeesNothing(s) /\ ListsAgree(s)

\* What was told to somebody.
StillTrue(t) ==
    /\ t.answer = "business" => IsMember(t.person, t.about)
    /\ t.answer \in {"acceptPage", "wrongAccount"} =>
          /\ \E p \in people : p.id = t.person
          /\ \E i \in invitations : i.id = t.about
          /\ \A p \in people, i \in invitations : p.id = t.person /\ i.id = t.about =>
                (i.email = Lower[p.email] <=> t.answer = "acceptPage")
    /\ t.answer = "wrongAccount" =>
          \A i \in invitations : i.id = t.about =>
              Accepted(t.person, i.organisation, i.id) \notin auditEvents

GateInvariant ==
    /\ TypeOK
    /\ Consistent
    /\ \A s \in Slots : VisitInvariant(s)
    /\ \A t \in told : StillTrue(t)

\* Both are kept while the tables grow and the request waits.
LEMMA ListsAgeWell ==
    ASSUME Grows, NEW s \in Slots, ListsAgree(s),
           visit'[s].stage \in {visit[s].stage, "answered"}, UNCHANGED visit[s].route,
           UNCHANGED <<visit[s].reads, visit[s].organisation, visit[s].listed, visit[s].pending>>
    PROVE  ListsAgree(s)'
<1>1. \A p, o : IsMember(p, o) => IsMember(p, o)'
  BY DEF Grows, IsMember
<1>2. ASSUME NEW p \in visit[s].listed, NEW i \in visit[s].pending
      PROVE  Accepted(p, visit[s].organisation, i) \notin auditEvents'
  <2>1. Accepted(p, visit[s].organisation, i) \notin auditEvents /\ IsMember(p, visit[s].organisation)
    BY <1>2 DEF ListsAgree
  <2>2. QED
    BY <2>1 DEF Grows, Accepted
<1>3. QED
  BY <1>1, <1>2 DEF ListsAgree

LEMMA VisitsAgeWell ==
    ASSUME Grows, NEW s \in Slots, VisitInvariant(s), TypeOK, UNCHANGED visit[s]
    PROVE  VisitInvariant(s)'
<1> SUFFICES ASSUME visit[s] # None PROVE VisitInvariant(s)'
  BY DEF VisitInvariant
<1>1. Admitted(s)'
  BY DEF Grows, VisitInvariant, Admitted
<1>2. \A p, o : IsMember(p, o) => IsMember(p, o)'
  BY DEF Grows, IsMember
<1>3. StrangerSeesNothing(s)'
  BY <1>2 DEF VisitInvariant, StrangerSeesNothing, At
<1>4. ListsAgree(s)'
  BY ListsAgeWell DEF VisitInvariant
<1>5. QED
  BY <1>1, <1>3, <1>4 DEF VisitInvariant

LEMMA WordsAgeWell ==
    ASSUME Grows, Consistent, NEW t \in told, StillTrue(t)
    PROVE  StillTrue(t)'
<1>1. t.answer = "business" => IsMember(t.person, t.about)'
  BY DEF Grows, IsMember, StillTrue
<1>2. ASSUME t.answer \in {"acceptPage", "wrongAccount"}
      PROVE  /\ \E p \in people' : p.id = t.person
             /\ \E i \in invitations' : i.id = t.about
             /\ \A p \in people', i \in invitations' : p.id = t.person /\ i.id = t.about =>
                   (i.email = Lower[p.email] <=> t.answer = "acceptPage")
  <2>1. (\E p \in people : p.id = t.person) /\ (\E i \in invitations : i.id = t.about)
    BY <1>2 DEF StillTrue
  <2>2. (\E p \in people' : p.id = t.person) /\ (\E i \in invitations' : i.id = t.about)
    BY <2>1 DEF Grows
  <2>3. ASSUME NEW p \in people', NEW i \in invitations', p.id = t.person, i.id = t.about
        PROVE  i.email = Lower[p.email] <=> t.answer = "acceptPage"
    <3>1. p \in people
      BY <2>1, <2>3 DEF Grows
    <3>2. PICK j \in invitations : j.id = i.id /\ j.email = i.email
      BY <2>1, <2>3 DEF Grows
    <3>3. QED
      BY <1>2, <2>3, <3>1, <3>2 DEF StillTrue
  <2>4. QED
    BY <2>2, <2>3
<1>3. ASSUME t.answer = "wrongAccount", NEW i \in invitations', i.id = t.about,
             Accepted(t.person, i.organisation, i.id) \in auditEvents'
      PROVE  FALSE
  <2>1. PICK j \in invitations : j.id = t.about
    BY <1>3 DEF StillTrue
  <2>2. \A a \in auditEvents : a # Accepted(t.person, i.organisation, i.id)
    <3>1. SUFFICES ASSUME Accepted(t.person, i.organisation, i.id) \in auditEvents PROVE FALSE
      OBVIOUS
    <3>2. EventHasRecord(Accepted(t.person, i.organisation, i.id))
      BY <3>1 DEF Consistent, AuditMatchesRecords, EveryEventHasRecord
    <3>3. PICK k \in invitations : Accepted(t.person, i.organisation, i.id)
                                   = Accepted(t.person, k.organisation, k.id)
      BY <3>2 DEF EventHasRecord, Accepted
    <3>4. k.id = t.about /\ k.organisation = i.organisation /\ k.id = i.id
      BY <1>3, <3>3 DEF Accepted
    <3>5. QED
      BY <1>3, <3>1, <3>4 DEF StillTrue
  <2>3. PICK p \in people, k \in invitations :
            /\ Accepted(t.person, i.organisation, i.id) = Accepted(p.id, k.organisation, k.id)
            /\ k.email = Lower[p.email]
    BY <1>3, <2>2 DEF Grows, Accepted
  <2>4. p.id = t.person /\ k.id = t.about
    BY <1>3, <2>3 DEF Accepted
  <2>5. QED
    BY <1>3, <2>3, <2>4 DEF StillTrue
<1>4. QED
  BY <1>1, <1>2, <1>3 DEF StillTrue

-----------------------------------------------------------------------------
\* Steps of one request.

LEMMA RecordStepGrows ==
    ASSUME Consistent, [AtomicNext]_recordVars
    PROVE  Grows /\ Consistent'
<1>1. RecordsTypeOK
  BY DEF Consistent
<1>2. ASSUME UNCHANGED recordVars PROVE Grows
  BY <1>2 DEF Grows, recordVars
<1>3. QED
  BY <1>1, <1>2, AtomicNextGrows, AtomicNextKeepsConsistent

\* It is enough to look at the request that moves, and at what it is told.
LEMMA OneVisitStep ==
    ASSUME GateInvariant, [AtomicNext]_recordVars, NEW s \in Slots,
           \A u \in Slots \ {s} : visit'[u] = visit[u],
           visit' \in [Slots -> Visit \cup {None}],
           VisitInvariant(s)',
           told' \subseteq Told,
           \A t \in told' : t \in told \/ StillTrue(t)'
    PROVE  GateInvariant'
<1>1. Grows /\ Consistent'
  BY RecordStepGrows DEF GateInvariant
<1>2. TypeOK'
  BY <1>1 DEF TypeOK, Consistent
<1>3. ASSUME NEW u \in Slots PROVE VisitInvariant(u)'
  BY <1>1, VisitsAgeWell DEF GateInvariant
<1>4. ASSUME NEW t \in told' PROVE StillTrue(t)'
  BY <1>1, WordsAgeWell DEF GateInvariant
<1>5. QED
  BY <1>1, <1>2, <1>3, <1>4 DEF GateInvariant

\* An answer, with or without a change to the tables.
LEMMA ReplyKeepsInvariant ==
    ASSUME GateInvariant, [AtomicNext]_recordVars, NEW s \in Slots, visit[s] # None,
           NEW answer \in Pages \cup Redirects, Reply(s, answer),
           UNCHANGED told,
           /\ visit[s].route \in BusinessRoutes /\ visit[s].person # None
           /\ ~IsMember(visit[s].person, visit[s].organisation)
           => answer \in {"notFound", "error"}
    PROVE  GateInvariant'
<1> DEFINE v == visit[s]
<1>1. visit[s] \in Visit /\ visit \in [Slots -> Visit \cup {None}] /\ told \subseteq Told
  BY DEF GateInvariant, TypeOK
<1>2. visit'[s] = [visit[s] EXCEPT !.stage = "answered", !.answer = answer]
  BY <1>1 DEF Reply
<1>3. visit'[s] \in Visit
  BY <1>1, <1>2 DEF Visit, Stages
<1>4. VisitInvariant(s)
  BY DEF GateInvariant
<1>5. visit'[s].stage = "answered" /\ visit'[s].answer = answer
      /\ visit'[s].person = v.person /\ visit'[s].route = v.route /\ visit'[s].session = v.session
      /\ visit'[s].organisation = v.organisation /\ visit'[s].reads = v.reads
      /\ visit'[s].listed = v.listed /\ visit'[s].pending = v.pending
  BY <1>1, <1>2 DEF Visit
<1>6. Grows
  BY RecordStepGrows DEF GateInvariant
<1>7. Admitted(s)' /\ StrangerSeesNothing(s)'
  BY <1>4, <1>5, <1>6 DEF VisitInvariant, Admitted, StrangerSeesNothing, At, IsMember, Grows
<1>8. ListsAgree(s)'
  BY <1>4, <1>5, <1>6, ListsAgeWell DEF VisitInvariant
<1>9. \A u \in Slots \ {s} : visit'[u] = visit[u]
  BY <1>1 DEF Reply
<1>10. visit' \in [Slots -> Visit \cup {None}]
  BY <1>1, <1>3, <1>9 DEF Reply
<1>11. VisitInvariant(s)'
  BY <1>7, <1>8 DEF VisitInvariant
<1>12. QED
  BY <1>1, <1>9, <1>10, <1>11, OneVisitStep

\* What becomes of a request otherwise, the tables staying as they are.
LEMMA GoOnKeepsInvariant ==
    ASSUME GateInvariant, NEW s \in Slots, NEW w \in Visit,
           visit' = [visit EXCEPT ![s] = w], UNCHANGED <<recordVars, told>>,
           VisitInvariant(s)'
    PROVE  GateInvariant'
<1>1. visit \in [Slots -> Visit \cup {None}] /\ told \subseteq Told
  BY DEF GateInvariant, TypeOK
<1>2. visit' \in [Slots -> Visit \cup {None}] /\ \A u \in Slots \ {s} : visit'[u] = visit[u]
  BY <1>1
<1>3. QED
  BY <1>1, <1>2, OneVisitStep DEF recordVars

\* What was told by an answer, and the tables may have changed with it.
LEMMA TellKeepsInvariant ==
    ASSUME GateInvariant, [AtomicNext]_recordVars, NEW s \in Slots, visit[s] # None,
           visit[s].stage = "handle", visit[s].route \notin BusinessRoutes,
           NEW answer \in {"business", "acceptPage", "wrongAccount"},
           NEW about \in Organisations \cup Invitations,
           answer = "business" => about \in Organisations,
           Tell(s, answer, about),
           NEW t, t = [person |-> visit[s].person, about |-> about, answer |-> answer],
           StillTrue(t)'
    PROVE  GateInvariant'
<1> DEFINE v == visit[s]
<1>1. visit[s] \in Visit /\ visit \in [Slots -> Visit \cup {None}] /\ told \subseteq Told
  BY DEF GateInvariant, TypeOK
<1>2. VisitInvariant(s) /\ Admitted(s) /\ ListsAgree(s)
  BY DEF GateInvariant, VisitInvariant
<1>3. v.person \in People
  BY <1>1, <1>2 DEF Admitted, Visit
<1>4. Grows
  BY RecordStepGrows DEF GateInvariant
<1> DEFINE o == IF answer = "business" THEN about ELSE v.organisation
           w == [v EXCEPT !.stage = "answered", !.answer = answer, !.organisation = o]
<1>5. visit'[s] = w
  BY <1>1 DEF Tell
<1>6. answer \in Pages \cup Redirects
  BY DEF Pages, Redirects
<1> HIDE DEF w
<1>7. w \in Visit
  <2>1. o \in Organisations \cup {Malformed, None}
    BY <1>1 DEF Visit
  <2> HIDE DEF o
  <2>2. QED
    BY <1>1, <1>6, <2>1 DEF Visit, Stages, w
<1>8. w.stage = "answered" /\ w.person = v.person /\ w.route = v.route /\ w.session = v.session
      /\ w.reads = v.reads /\ w.listed = v.listed /\ w.pending = v.pending
  BY <1>1 DEF Visit, w
<1>9. v.reads = 0 /\ v.listed = {} /\ v.pending = {}
  BY <1>1, <1>2 DEF ListsAgree, BusinessRoutes
<1>10. ListsAgree(s)'
  BY <1>5, <1>8, <1>9 DEF ListsAgree
<1>11. Admitted(s)' /\ StrangerSeesNothing(s)'
  BY <1>2, <1>4, <1>5, <1>8 DEF Admitted, StrangerSeesNothing, At, Grows
<1>12. VisitInvariant(s)'
  BY <1>10, <1>11 DEF VisitInvariant
<1>13. visit' \in [Slots -> Visit \cup {None}] /\ \A u \in Slots \ {s} : visit'[u] = visit[u]
  BY <1>1, <1>5, <1>7 DEF Tell
<1>14. told' = told \cup {t} /\ t \in Told
  BY <1>3 DEF Tell, Told
<1>15. told' \subseteq Told /\ \A u \in told' : u \in told \/ u = t
  BY <1>1, <1>14
<1>16. \A u \in told' : u \in told \/ StillTrue(u)'
  BY <1>15
<1>17. QED
  BY <1>12, <1>13, <1>15, <1>16, OneVisitStep

LEMMA ArriveKeepsInvariant ==
    ASSUME GateInvariant, NEW s \in Slots, Arrive(s)
    PROVE  GateInvariant'
<1>1. PICK route \in Routes, session \in BOOLEAN, person \in {p.id : p \in people} \cup {None},
           organisation \in Organisations \cup {Malformed, None},
           invitation \in Invitations \cup {Malformed, None}, details \in Refusals \cup {<<>>} :
        /\ person # None => session
        /\ organisation # None <=> route \in BusinessRoutes
        /\ invitation # None <=> route \in InvitationRoutes
        /\ details # <<>> => route \in {"create", "invite"}
        /\ visit' = [visit EXCEPT ![s] =
               [route |-> route, session |-> session, person |-> person,
                organisation |-> organisation, invitation |-> invitation,
                details |-> details, since |-> clock, stage |-> "authenticate",
                permission |-> None, reads |-> 0, listed |-> {}, pending |-> {}, answer |-> None]]
  BY DEF Arrive
<1> DEFINE w == [route |-> route, session |-> session, person |-> person,
                organisation |-> organisation, invitation |-> invitation,
                details |-> details, since |-> clock, stage |-> "authenticate",
                permission |-> None, reads |-> 0, listed |-> {}, pending |-> {}, answer |-> None]
<1>2. person \in People \cup {None} /\ clock \in Time /\ details \in Seq(Detail)
  <2>1. details \in Seq(Detail)
    <3>1. <<>> \in Seq(Detail)
      OBVIOUS
    <3>2. Refusals \subseteq Seq(Detail)
      BY RefusalsAssumption
    <3>3. QED
      BY <3>1, <3>2
  <2>2. person \in People \cup {None} /\ clock \in Time
    BY DEF GateInvariant, TypeOK, RecordsTypeOK, PersonRow
  <2>3. QED
    BY <2>1, <2>2
<1>3. w \in Visit
  BY <1>2 DEF Visit, Stages
<1>4. visit'[s] = w /\ UNCHANGED <<recordVars, told>>
  BY <1>1 DEF Arrive, GateInvariant, TypeOK
<1>5. VisitInvariant(s)'
  BY <1>1, <1>4 DEF VisitInvariant, Admitted, StrangerSeesNothing, ListsAgree, At, recordVars
<1>6. QED
  BY <1>1, <1>3, <1>4, <1>5, GoOnKeepsInvariant

LEMMA AnswersAreKnown ==
    {"ok", "home", "account", "list", "createForm", "createErrors", "details",
     "inviteForm", "inviteErrors", "inviteSent", "acceptPage", "wrongAccount",
     "notValid", "notFound", "forbidden", "error", "signIn", "yourName",
     "organisations", "business"} = Pages \cup Redirects
  BY DEF Pages, Redirects

\* Membership, as the query answers it.
LEMMA MembershipIsFound ==
    ASSUME GateInvariant, NEW s \in Slots, visit[s] # None
    PROVE  /\ GetOrganisationForPerson(s) \subseteq Permissions
           /\ GetOrganisationForPerson(s) = {} <=> ~IsMember(visit[s].person, visit[s].organisation)
           /\ \A permission \in GetOrganisationForPerson(s) :
                 [organisation |-> visit[s].organisation, person |-> visit[s].person,
                  permission |-> permission] \in memberships
  BY DEF GetOrganisationForPerson, IsMember, GateInvariant, TypeOK, RecordsTypeOK, MembershipRow

LEMMA EnterKeepsInvariant ==
    ASSUME GateInvariant, NEW s \in Slots, Enter(s)
    PROVE  GateInvariant'
<1>1. visit[s] # None
  BY DEF Enter, ServeOpen, TurnAway, SendToRegistration, Validate, At
<1>2. VisitInvariant(s) /\ Admitted(s)
  BY <1>1 DEF GateInvariant, VisitInvariant
<1>3. CASE ServeOpen(s)
  BY <1>1, <1>3, ReplyKeepsInvariant, AnswersAreKnown DEF ServeOpen, BusinessRoutes
<1>4. CASE TurnAway(s)
  BY <1>1, <1>2, <1>4, ReplyKeepsInvariant, AnswersAreKnown DEF TurnAway, Admitted
<1>5. CASE SendToRegistration(s)
  BY <1>1, <1>5, ReplyKeepsInvariant, AnswersAreKnown DEF SendToRegistration
<1>6. CASE Validate(s)
  <2>1. CASE Reply(s, "notFound") \/ (visit[s].route = "create" /\ Reply(s, "createErrors"))
    BY <1>1, <1>6, <2>1, ReplyKeepsInvariant, AnswersAreKnown DEF Validate, BusinessRoutes
  <2>2. ASSUME NEW stage \in {"pre", "handle", "failAction"}, Goto(s, stage),
               stage = "pre" <=> stage # "failAction" /\ visit[s].route \in BusinessRoutes,
               stage = "failAction" => visit[s].route = "invite"
        PROVE  GateInvariant'
    <3> DEFINE w == [visit[s] EXCEPT !.stage = stage]
    <3>1. visit[s] \in Visit /\ visit \in [Slots -> Visit \cup {None}]
      BY <1>1 DEF GateInvariant, TypeOK
    <3>2. w \in Visit
      BY <3>1 DEF Visit, Stages
    <3>3. visit' = [visit EXCEPT ![s] = w] /\ visit'[s] = w
      BY <2>2, <3>1 DEF Goto
    <3>4. w.stage = stage /\ w.person = visit[s].person /\ w.route = visit[s].route
          /\ w.session = visit[s].session /\ w.answer = visit[s].answer
          /\ w.organisation = visit[s].organisation /\ w.reads = visit[s].reads
          /\ w.listed = visit[s].listed /\ w.pending = visit[s].pending
      BY <3>1 DEF Visit
    <3>5. visit[s].stage = "authenticate" /\ visit[s].person # None
      BY <1>6 DEF Validate, At
    <3>6. VisitInvariant(s)'
      BY <1>2, <2>2, <3>3, <3>4, <3>5, <1>6
      DEF Validate, VisitInvariant, Admitted, StrangerSeesNothing, ListsAgree, At, IsMember,
          BusinessRoutes, recordVars, GateInvariant
    <3>7. QED
      BY <1>6, <3>2, <3>3, <3>6, GoOnKeepsInvariant DEF Validate
  <2>3. QED
    BY <1>6, <2>1, <2>2 DEF Validate
<1>7. QED
  BY <1>3, <1>4, <1>5, <1>6 DEF Enter

LEMMA AdmissionKeepsInvariant ==
    ASSUME GateInvariant, NEW s \in Slots, Admission(s)
    PROVE  GateInvariant'
<1>1. visit[s] # None
  BY DEF Admission, ShowErrors, RequireMembership, At
<1>2. VisitInvariant(s)
  BY DEF GateInvariant
<1>3. CASE ShowErrors(s)
  BY <1>1, <1>3, MembershipIsFound, ReplyKeepsInvariant, AnswersAreKnown DEF ShowErrors
<1>4. CASE RequireMembership(s)
  <2>1. CASE GetOrganisationForPerson(s) = {} /\ Reply(s, "notFound")
    BY <1>1, <1>4, <2>1, ReplyKeepsInvariant, AnswersAreKnown DEF RequireMembership
  <2>2. ASSUME NEW permission \in GetOrganisationForPerson(s), Reply(s, "forbidden")
        PROVE  GateInvariant'
    BY <1>1, <1>4, <2>2, MembershipIsFound, ReplyKeepsInvariant, AnswersAreKnown DEF RequireMembership
  <2>3. ASSUME NEW permission \in GetOrganisationForPerson(s),
               visit' = [visit EXCEPT ![s].stage = "handle", ![s].permission = permission]
        PROVE  GateInvariant'
    <3> DEFINE w == [visit[s] EXCEPT !.stage = "handle", !.permission = permission]
    <3>1. visit[s] \in Visit /\ visit \in [Slots -> Visit \cup {None}]
      BY <1>1 DEF GateInvariant, TypeOK
    <3>2. permission \in Permissions
          /\ [organisation |-> visit[s].organisation, person |-> visit[s].person,
              permission |-> permission] \in memberships
      BY <1>1, MembershipIsFound
    <3>3. w \in Visit
      BY <3>1, <3>2 DEF Visit, Stages
    <3>4. visit' = [visit EXCEPT ![s] = w] /\ visit'[s] = w
      BY <2>3, <3>1
    <3>5. w.stage = "handle" /\ w.permission = permission /\ w.person = visit[s].person
          /\ w.route = visit[s].route /\ w.session = visit[s].session
          /\ w.answer = visit[s].answer /\ w.organisation = visit[s].organisation
          /\ w.reads = visit[s].reads /\ w.listed = visit[s].listed /\ w.pending = visit[s].pending
      BY <3>1 DEF Visit
    <3>6. visit[s].stage = "pre" /\ UNCHANGED <<recordVars, told>>
      BY <1>4 DEF RequireMembership, At
    <3>7. visit[s].reads = 0
      BY <1>1, <1>2, <3>6 DEF VisitInvariant, ListsAgree
    <3>8. VisitInvariant(s)'
      BY <1>1, <1>2, <3>2, <3>4, <3>5, <3>6, <3>7
      DEF VisitInvariant, Admitted, StrangerSeesNothing, ListsAgree, At, IsMember,
          BusinessRoutes, recordVars
    <3>9. QED
      BY <3>3, <3>4, <3>6, <3>8, GoOnKeepsInvariant
  <2>4. QED
    BY <1>4, <2>1, <2>2, <2>3 DEF RequireMembership
<1>5. QED
  BY <1>3, <1>4 DEF Admission

LEMMA NoEventYet ==
    ASSUME Consistent, NEW i \in invitations, i.acceptedAt = None, NEW p, NEW o
    PROVE  Accepted(p, o, i.id) \notin auditEvents
<1> SUFFICES ASSUME Accepted(p, o, i.id) \in auditEvents PROVE FALSE
  OBVIOUS
<1>1. EventHasRecord(Accepted(p, o, i.id))
  BY DEF Consistent, AuditMatchesRecords, EveryEventHasRecord
<1>2. PICK j \in invitations : j.acceptedAt # None /\ Accepted(p, o, i.id) = Accepted(p, j.organisation, j.id)
  BY <1>1 DEF EventHasRecord, Accepted
<1>3. j.id = i.id
  BY <1>2 DEF Accepted
<1>4. QED
  BY <1>2, <1>3 DEF Consistent, IdsAreKeys

LEMMA ReadDetailsKeepsInvariant ==
    ASSUME GateInvariant, NEW s \in Slots, ReadDetails(s)
    PROVE  GateInvariant'
<1> DEFINE v == visit[s]
           part == DetailsReads[v.reads + 1]
           listed == IF part = "people" THEN PeopleIn(v.organisation) ELSE v.listed
           pending == IF part = "pending" /\ v.permission = "owner"
                      THEN PendingOf(v.organisation) ELSE v.pending
           stage == IF v.reads = 1 THEN "answered" ELSE v.stage
           answer == IF v.reads = 1 THEN "details" ELSE v.answer
           w == [v EXCEPT !.reads = @ + 1, !.listed = listed, !.pending = pending,
                          !.stage = stage, !.answer = answer]
<1>1. visit[s] \in Visit /\ visit \in [Slots -> Visit \cup {None}]
      /\ v.stage = "handle" /\ v.route = "details" /\ UNCHANGED <<recordVars, told>>
  BY DEF ReadDetails, Handling, At, GateInvariant, TypeOK
<1>2. VisitInvariant(s) /\ v # None
  BY DEF GateInvariant, ReadDetails, Handling, At
<1>3. IsMember(v.person, v.organisation)
  BY <1>1, <1>2 DEF VisitInvariant, Admitted, BusinessRoutes, IsMember
<1>4. v.reads \in {0, 1} /\ v.pending = {} /\ v.answer = None
  BY <1>1, <1>2 DEF VisitInvariant, ListsAgree, Admitted, Visit
<1>5. visit' = [visit EXCEPT ![s] = w] /\ visit'[s] = w
  BY <1>1 DEF ReadDetails
<1>6. part = IF v.reads = 0 THEN "people" ELSE "pending"
  BY <1>4 DEF DetailsReads
<1>7. listed \subseteq People /\ \A p \in listed : IsMember(p, v.organisation)
  <2>1. PeopleIn(v.organisation) \subseteq People
        /\ \A p \in PeopleIn(v.organisation) : IsMember(p, v.organisation)
    BY DEF PeopleIn, IsMember, GateInvariant, TypeOK, RecordsTypeOK, MembershipRow
  <2>2. QED
    BY <1>1, <1>2, <2>1 DEF VisitInvariant, ListsAgree, Visit
<1>8. pending \subseteq Invitations /\ \A p : \A i \in pending : Accepted(p, v.organisation, i) \notin auditEvents
  <2>1. \A i \in pending : \E j \in invitations : j.id = i /\ j.acceptedAt = None
    BY <1>4 DEF PendingOf
  <2> HIDE DEF pending
  <2>2. pending \subseteq Invitations
    BY <2>1 DEF GateInvariant, TypeOK, RecordsTypeOK, InvitationRow
  <2>3. QED
    BY <2>1, <2>2, NoEventYet DEF GateInvariant
<1>9. v.reads = 0 => pending = {}
  BY <1>4, <1>6
<1>10. w.reads = v.reads + 1 /\ w.listed = listed /\ w.pending = pending
       /\ w.stage = stage /\ w.answer = answer
       /\ w.person = v.person /\ w.route = v.route /\ w.session = v.session
       /\ w.organisation = v.organisation /\ w.permission = v.permission
  BY <1>1 DEF Visit
<1>11. w \in Visit
  <2>1. v.reads + 1 \in 0 .. 2 /\ stage \in Stages /\ answer \in Pages \cup Redirects \cup {None}
    BY <1>1, <1>4 DEF Stages, Pages
  <2> HIDE DEF listed, pending, stage, answer
  <2>2. QED
    BY <1>1, <1>7, <1>8, <2>1 DEF Visit
<1> HIDE DEF listed, pending, w
<1>12. Admitted(s)' /\ StrangerSeesNothing(s)'
  BY <1>1, <1>2, <1>3, <1>4, <1>5, <1>10
  DEF VisitInvariant, Admitted, StrangerSeesNothing, At, IsMember, recordVars
<1>13. ListsAgree(s)'
  <2>1. UNCHANGED <<memberships, auditEvents>>
    BY <1>1 DEF recordVars
  <2>2. \A p \in listed : IsMember(p, v.organisation)'
    BY <1>1, <1>5, <1>7, <1>10, <2>1 DEF IsMember
  <2>3. \A p \in listed, i \in pending : Accepted(p, v.organisation, i) \notin auditEvents'
    BY <1>8, <2>1
  <2>4. /\ visit'[s].stage = stage /\ visit'[s].reads = v.reads + 1
        /\ visit'[s].listed = listed /\ visit'[s].pending = pending
        /\ visit'[s].organisation = v.organisation /\ visit'[s].route = "details"
    BY <1>1, <1>5, <1>10
  <2>5. /\ v.reads + 1 < 2 => v.reads = 0
        /\ v.reads + 1 # 0
        /\ stage = "handle" => v.reads = 0
        /\ stage \in {"handle", "answered"}
    BY <1>1, <1>4
  <2> HIDE DEF stage
  <2>6. QED
    BY <1>9, <2>2, <2>3, <2>4, <2>5 DEF ListsAgree
<1>14. VisitInvariant(s)'
  BY <1>12, <1>13 DEF VisitInvariant
<1>15. QED
  BY <1>1, <1>5, <1>11, <1>14, GoOnKeepsInvariant

\* The address of the only row of a person.
LEMMA EmailIsFound ==
    ASSUME Consistent, NEW p \in people
    PROVE  EmailOf(p.id) = p.email
<1>1. \A q \in people : q.id = p.id => q = p
  BY DEF Consistent, IdsAreKeys
<1>2. QED
  BY <1>1 DEF EmailOf

\* Whoever a handler answers is registered and has one address.
LEMMA CallerIsKnown ==
    ASSUME GateInvariant, NEW s \in Slots, At(s, "handle")
    PROVE  /\ visit[s] \in Visit /\ visit[s].person \in People
           /\ VisitInvariant(s) /\ Admitted(s) /\ ListsAgree(s)
           /\ \E p \in people : p.id = visit[s].person
<1>1. visit[s] \in Visit /\ VisitInvariant(s) /\ visit[s] # None /\ visit[s].stage = "handle"
  BY DEF At, GateInvariant, TypeOK
<1>2. Admitted(s) /\ ListsAgree(s)
  BY <1>1 DEF VisitInvariant
<1>3. QED
  BY <1>1, <1>2 DEF Admitted, Visit

\* What the page or the form says of an invitation that is still open.
LEMMA SayingIsTrue ==
    ASSUME GateInvariant, NEW s \in Slots, At(s, "handle"), UNCHANGED recordVars,
           NEW i \in invitations, i.acceptedAt = None,
           NEW answer \in {"acceptPage", "wrongAccount"},
           i.email = Lower[EmailOf(visit[s].person)] <=> answer = "acceptPage",
           NEW t, t = [person |-> visit[s].person, about |-> i.id, answer |-> answer]
    PROVE  StillTrue(t)'
<1>1. Consistent
  BY DEF GateInvariant
<1>2. PICK q \in people : q.id = visit[s].person
  BY CallerIsKnown
<1>3. \A p \in people : p.id = t.person => EmailOf(visit[s].person) = p.email
  BY <1>1, EmailIsFound
<1>4. \A j \in invitations : j.id = t.about => j = i
  BY <1>1 DEF Consistent, IdsAreKeys
<1>5. \A j \in invitations : j.id = t.about => Accepted(t.person, j.organisation, j.id) \notin auditEvents
  BY <1>1, <1>4, NoEventYet
<1>6. UNCHANGED <<people, invitations, auditEvents>>
  BY DEF recordVars
<1>7. t.answer = answer /\ t.person = visit[s].person /\ t.about = i.id
  OBVIOUS
<1>8. \A p \in people, j \in invitations : p.id = t.person /\ j.id = t.about =>
          (j.email = Lower[p.email] <=> t.answer = "acceptPage")
  BY <1>3, <1>4, <1>7
<1>9. (\E p \in people : p.id = t.person) /\ (\E j \in invitations : j.id = t.about)
  BY <1>2, <1>7
<1>10. QED
  BY <1>5, <1>6, <1>7, <1>8, <1>9 DEF StillTrue

\* Times a request may have read.
LEMMA TimesAreTimes ==
    ASSUME GateInvariant, NEW s \in Slots, visit[s] \in Visit,
           NEW time \in visit[s].since .. clock
    PROVE  time \in Time
<1>1. visit[s].since \in 0 .. MaxClock /\ clock \in 0 .. MaxClock
  BY DEF GateInvariant, TypeOK, RecordsTypeOK, Visit, Time
<1>2. QED
  BY <1>1, ClockAssumption DEF Time

LEMMA ShowPageKeepsInvariant ==
    ASSUME GateInvariant, NEW s \in Slots, ShowPage(s)
    PROVE  GateInvariant'
<1>1. At(s, "handle") /\ visit[s] # None
  BY DEF ShowPage, At
<1>2. PageOf[visit[s].route] \in Pages \cup Redirects
  BY DEF ShowPage, PageOf, Pages, Redirects
<1>3. visit[s].route \in BusinessRoutes => IsMember(visit[s].person, visit[s].organisation)
  BY <1>1, CallerIsKnown DEF Admitted, At, IsMember
<1>4. QED
  BY <1>1, <1>2, <1>3, ReplyKeepsInvariant DEF ShowPage

LEMMA ShowInvitationKeepsInvariant ==
    ASSUME GateInvariant, NEW s \in Slots, ShowInvitation(s)
    PROVE  GateInvariant'
<1>1. At(s, "handle") /\ visit[s] # None /\ visit[s].stage = "handle"
      /\ visit[s].route \notin BusinessRoutes /\ UNCHANGED recordVars
  BY DEF ShowInvitation, Handling, At, BusinessRoutes
<1>2. CASE Reply(s, "notValid") /\ UNCHANGED told
  BY <1>1, <1>2, ReplyKeepsInvariant, AnswersAreKnown
<1>3. ASSUME NEW i \in invitations, i.acceptedAt = None,
             Tell(s, IF IsAddressee(i, visit[s].person) THEN "acceptPage" ELSE "wrongAccount", i.id)
      PROVE  GateInvariant'
  <2> DEFINE answer == IF IsAddressee(i, visit[s].person) THEN "acceptPage" ELSE "wrongAccount"
  <2>1. i.id \in Invitations
    BY DEF GateInvariant, TypeOK, RecordsTypeOK, InvitationRow
  <2>2. PICK t : t = [person |-> visit[s].person, about |-> i.id, answer |-> answer]
    OBVIOUS
  <2>3. PICK a \in {"acceptPage", "wrongAccount"} :
            a = answer /\ (i.email = Lower[EmailOf(visit[s].person)] <=> a = "acceptPage")
    BY DEF IsAddressee
  <2>4. StillTrue(t)'
    BY <1>1, <1>3, <2>2, <2>3, SayingIsTrue
  <2>5. Tell(s, a, i.id)
    BY <1>3, <2>3
  <2>6. QED
    BY <1>1, <2>1, <2>2, <2>3, <2>4, <2>5, TellKeepsInvariant
<1>4. QED
  BY <1>2, <1>3 DEF ShowInvitation

LEMMA CreateKeepsInvariant ==
    ASSUME GateInvariant, NEW s \in Slots, Create(s)
    PROVE  GateInvariant'
<1>1. At(s, "handle") /\ visit[s] # None /\ visit[s].stage = "handle"
      /\ visit[s].route \notin BusinessRoutes
  BY DEF Create, Handling, At, BusinessRoutes
<1>2. PICK organisation \in Organisations, sbi \in Sbis :
          /\ CreateOrganisationWithOwner(visit[s].person, organisation, sbi)
          /\ Tell(s, "business", organisation)
  BY DEF Create
<1>3. AtomicNext
  BY <1>1, <1>2, CallerIsKnown DEF AtomicNext
<1>4. PICK t : t = [person |-> visit[s].person, about |-> organisation, answer |-> "business"]
  OBVIOUS
<1>5. StillTrue(t)'
  <2>1. Owner(organisation, visit[s].person) \in memberships'
    BY <1>2 DEF CreateOrganisationWithOwner
  <2>2. IsMember(t.person, t.about)'
    BY <1>4, <2>1 DEF IsMember, Owner
  <2>3. QED
    BY <1>4, <2>2 DEF StillTrue
<1>6. QED
  BY <1>1, <1>2, <1>3, <1>4, <1>5, TellKeepsInvariant

LEMMA RefuseSbiKeepsInvariant ==
    ASSUME GateInvariant, NEW s \in Slots, RefuseSbi(s)
    PROVE  GateInvariant'
<1> DEFINE v == visit[s]
           details == <<[path |-> "sbi", message |-> "exists"]>>
           w == [v EXCEPT !.stage = "answered", !.answer = "createErrors", !.details = details]
<1>1. At(s, "handle") /\ v # None /\ v.route = "create" /\ UNCHANGED <<recordVars, told>>
  BY DEF RefuseSbi, Handling, At
<1>2. v \in Visit /\ visit \in [Slots -> Visit \cup {None}] /\ Admitted(s) /\ ListsAgree(s)
  BY <1>1, CallerIsKnown DEF GateInvariant, TypeOK
<1>3. details \in Seq(Detail)
  BY DEF Detail
<1> HIDE DEF details
<1>4. w \in Visit
  BY <1>2, <1>3 DEF Visit, Stages, Pages
<1>5. visit' = [visit EXCEPT ![s] = w] /\ visit'[s] = w
  BY <1>2 DEF RefuseSbi, details
<1>6. w.stage = "answered" /\ w.answer = "createErrors" /\ w.person = v.person /\ w.route = v.route
      /\ w.session = v.session /\ w.organisation = v.organisation /\ w.reads = v.reads
      /\ w.listed = v.listed /\ w.pending = v.pending
  BY <1>2 DEF Visit
<1>7. v.reads = 0 /\ v.listed = {} /\ v.pending = {}
  BY <1>1, <1>2 DEF ListsAgree
<1>8. VisitInvariant(s)'
  BY <1>1, <1>2, <1>5, <1>6, <1>7
  DEF VisitInvariant, Admitted, StrangerSeesNothing, ListsAgree, At, BusinessRoutes, recordVars
<1>9. QED
  BY <1>1, <1>4, <1>5, <1>8, GoOnKeepsInvariant

LEMMA InviteKeepsInvariant ==
    ASSUME GateInvariant, NEW s \in Slots, Invite(s)
    PROVE  GateInvariant'
<1>1. At(s, "handle") /\ visit[s] # None /\ visit[s].route = "invite"
      /\ Reply(s, "inviteSent") /\ UNCHANGED told
  BY DEF Invite, Handling, At
<1>2. visit[s] \in Visit /\ IsMember(visit[s].person, visit[s].organisation)
  BY <1>1, CallerIsKnown DEF Admitted, At, IsMember, BusinessRoutes
<1>3. PICK invitation \in Invitations, email \in Emails, permission \in Permissions,
           issued \in visit[s].since .. clock :
          InviteToOrganisation(visit[s].person, visit[s].organisation, invitation, email, permission, issued)
  BY DEF Invite
<1>4. issued \in Time
  BY <1>2, TimesAreTimes
<1>5. visit[s].person \in People /\ visit[s].organisation \in Organisations
  BY <1>3 DEF InviteToOrganisation, Owner, GateInvariant, TypeOK, RecordsTypeOK, MembershipRow
<1>6. AtomicNext
  BY <1>3, <1>4, <1>5 DEF AtomicNext
<1>7. QED
  BY <1>1, <1>2, <1>6, ReplyKeepsInvariant, AnswersAreKnown

LEMMA AcceptKeepsInvariant ==
    ASSUME GateInvariant, NEW s \in Slots, Accept(s)
    PROVE  GateInvariant'
<1>1. At(s, "handle") /\ visit[s] # None /\ visit[s].stage = "handle"
      /\ visit[s].route \notin BusinessRoutes
  BY DEF Accept, Handling, At, BusinessRoutes
<1>2. PICK p \in people, i \in invitations, claimed \in visit[s].since .. clock :
          /\ p.id = visit[s].person
          /\ AcceptInvitation(p, i, claimed)
          /\ Tell(s, "business", i.organisation)
  BY DEF Accept
<1>3. visit[s] \in Visit
  BY <1>1, CallerIsKnown
<1>4. claimed \in Time
  BY <1>3, TimesAreTimes
<1>5. AtomicNext
  BY <1>2, <1>4 DEF AtomicNext
<1>6. i.organisation \in Organisations
  BY DEF GateInvariant, TypeOK, RecordsTypeOK, InvitationRow
<1>7. PICK t : t = [person |-> visit[s].person, about |-> i.organisation, answer |-> "business"]
  OBVIOUS
<1>8. StillTrue(t)'
  <2>1. [organisation |-> i.organisation, person |-> p.id, permission |-> i.permission] \in memberships'
    BY <1>2 DEF AcceptInvitation
  <2>2. IsMember(t.person, t.about)'
    BY <1>2, <1>7, <2>1 DEF IsMember
  <2>3. QED
    BY <1>7, <2>2 DEF StillTrue
<1>9. QED
  BY <1>1, <1>2, <1>5, <1>6, <1>7, <1>8, TellKeepsInvariant

LEMMA RefuseInvitationKeepsInvariant ==
    ASSUME GateInvariant, NEW s \in Slots, RefuseInvitation(s)
    PROVE  GateInvariant'
<1>1. At(s, "handle") /\ visit[s] # None /\ visit[s].stage = "handle"
      /\ visit[s].route \notin BusinessRoutes /\ UNCHANGED recordVars
  BY DEF RefuseInvitation, Handling, At, BusinessRoutes
<1>2. CASE (Reply(s, "notValid") \/ Reply(s, "organisations")) /\ UNCHANGED told
  BY <1>1, <1>2, ReplyKeepsInvariant, AnswersAreKnown
<1>3. ASSUME NEW i \in invitations, i.acceptedAt = None,
             i.email # Lower[EmailOf(visit[s].person)], Tell(s, "wrongAccount", i.id)
      PROVE  GateInvariant'
  <2>1. i.id \in Invitations
    BY DEF GateInvariant, TypeOK, RecordsTypeOK, InvitationRow
  <2>2. PICK t : t = [person |-> visit[s].person, about |-> i.id, answer |-> "wrongAccount"]
    OBVIOUS
  <2>3. StillTrue(t)'
    BY <1>1, <1>3, <2>2, SayingIsTrue
  <2>4. QED
    BY <1>1, <1>3, <2>1, <2>2, <2>3, TellKeepsInvariant
<1>4. QED
  BY <1>2, <1>3 DEF RefuseInvitation

LEMMA HandleKeepsInvariant ==
    ASSUME GateInvariant, NEW s \in Slots, Handle(s)
    PROVE  GateInvariant'
  BY ShowPageKeepsInvariant, ReadDetailsKeepsInvariant, ShowInvitationKeepsInvariant,
     CreateKeepsInvariant, RefuseSbiKeepsInvariant, InviteKeepsInvariant,
     AcceptKeepsInvariant, RefuseInvitationKeepsInvariant DEF Handle

LEMMA LeaveKeepsInvariant ==
    ASSUME GateInvariant, NEW s \in Slots, Leave(s)
    PROVE  GateInvariant'
<1>1. visit \in [Slots -> Visit \cup {None}] /\ told \subseteq Told
  BY DEF GateInvariant, TypeOK
<1>2. visit' = [visit EXCEPT ![s] = None] /\ UNCHANGED <<recordVars, told>>
  BY DEF Leave
<1>3. visit' \in [Slots -> Visit \cup {None}] /\ (\A u \in Slots \ {s} : visit'[u] = visit[u])
      /\ visit'[s] = None
  BY <1>1, <1>2
<1>4. VisitInvariant(s)'
  BY <1>3 DEF VisitInvariant
<1>5. QED
  BY <1>1, <1>2, <1>3, <1>4, OneVisitStep DEF recordVars

LEMMA OthersKeepInvariant ==
    ASSUME GateInvariant, [AtomicNext]_recordVars, UNCHANGED gateVars
    PROVE  GateInvariant'
<1>1. Grows /\ Consistent' /\ UNCHANGED <<visit, told>>
  BY RecordStepGrows DEF GateInvariant, gateVars
<1>2. TypeOK'
  BY <1>1 DEF GateInvariant, TypeOK, Consistent
<1>3. ASSUME NEW u \in Slots PROVE VisitInvariant(u)'
  BY <1>1, VisitsAgeWell DEF GateInvariant
<1>4. ASSUME NEW t \in told PROVE StillTrue(t)'
  BY <1>1, WordsAgeWell DEF GateInvariant
<1>5. QED
  BY <1>1, <1>2, <1>3, <1>4 DEF GateInvariant

\* A service without requests, with whatever consistent rows its database has,
\* and nothing said of them yet.
Quiet ==
    /\ Consistent
    /\ visit = [s \in Slots |-> None]
    /\ told = {}

LEMMA InitIsQuiet == Init => Quiet
  BY EmptyIsConsistent DEF Init, Quiet

LEMMA QuietHasInvariant == Quiet => GateInvariant
  BY DEF Quiet, GateInvariant, TypeOK, Consistent, VisitInvariant

LEMMA NextKeepsInvariant == GateInvariant /\ [Next]_vars => GateInvariant'
<1> SUFFICES ASSUME GateInvariant, [Next]_vars PROVE GateInvariant'
  OBVIOUS
<1>1. ASSUME NEW s \in Slots, Arrive(s) PROVE GateInvariant'
  BY <1>1, ArriveKeepsInvariant
<1>2. ASSUME NEW s \in Slots, Enter(s) PROVE GateInvariant'
  BY <1>2, EnterKeepsInvariant
<1>3. ASSUME NEW s \in Slots, Admission(s) PROVE GateInvariant'
  BY <1>3, AdmissionKeepsInvariant
<1>4. ASSUME NEW s \in Slots, Handle(s) PROVE GateInvariant'
  BY <1>4, HandleKeepsInvariant
<1>5. ASSUME NEW s \in Slots, Fails(s) PROVE GateInvariant'
  BY <1>5, ReplyKeepsInvariant, AnswersAreKnown DEF Fails
<1>6. ASSUME NEW s \in Slots, Leave(s) PROVE GateInvariant'
  BY <1>6, LeaveKeepsInvariant
<1>7. CASE Elsewhere
  BY <1>7, OthersKeepInvariant DEF Elsewhere
<1>8. CASE UNCHANGED vars
  BY <1>8, OthersKeepInvariant DEF vars
<1>9. QED
  BY <1>1, <1>2, <1>3, <1>4, <1>5, <1>6, <1>7, <1>8 DEF Next

-----------------------------------------------------------------------------
\* The invariant, in every reachable state.
THEOREM GateInvariantHolds == Spec => []GateInvariant
<1>1. QED
  BY InitIsQuiet, QuietHasInvariant, NextKeepsInvariant, PTL DEF Spec

\* Requests, and what was said of them, keep to their types.
THEOREM GateTypesHold == Spec => []TypeOK
<1>1. GateInvariant => TypeOK
  BY DEF GateInvariant
<1>2. QED
  BY <1>1, GateInvariantHolds, PTL

LEMMA StrangersAreToldNothing == GateInvariant => StrangersSeeNothing
  BY DEF GateInvariant, VisitInvariant, StrangerSeesNothing, StrangersSeeNothing, At

\* A business answers strangers as if it did not exist, for any number of
\* requests: requireMembership and failAction both ask for the caller's own row.
THEOREM StrangersNeverSee == Spec => []StrangersSeeNothing
<1>1. QED
  BY StrangersAreToldNothing, GateInvariantHolds, PTL

LEMMA WordsAgree == GateInvariant => PageAndFormAgree
<1> SUFFICES ASSUME GateInvariant, NEW t \in told, t.answer = "wrongAccount"
             PROVE  /\ [t EXCEPT !.answer = "acceptPage"] \notin told
                    /\ \A i \in invitations : i.id = t.about =>
                           Accepted(t.person, i.organisation, i.id) \notin auditEvents
  BY DEF PageAndFormAgree
<1>1. StillTrue(t) /\ t \in Told
  BY DEF GateInvariant, TypeOK
<1> DEFINE u == [t EXCEPT !.answer = "acceptPage"]
<1>2. u.person = t.person /\ u.about = t.about /\ u.answer = "acceptPage"
  BY <1>1 DEF Told
<1>3. ASSUME u \in told PROVE FALSE
  <2>1. StillTrue(u)
    BY <1>3 DEF GateInvariant
  <2> HIDE DEF u
  <2>2. QED
    BY <1>1, <1>2, <2>1 DEF StillTrue
<1>4. QED
  BY <1>1, <1>3 DEF StillTrue

\* The page of an invitation and its form never contradict each other, nor
\* themselves later: neither address ever changes.
THEOREM PageAndFormAlwaysAgree == Spec => []PageAndFormAgree
<1>1. QED
  BY WordsAgree, GateInvariantHolds, PTL

LEMMA ListsAreApart == GateInvariant => NobodyIsListedTwice
  BY DEF GateInvariant, VisitInvariant, ListsAgree, NobodyIsListedTwice, Answered, At

\* The two reads of the details, members before invitations, never show one
\* person by both.
THEOREM NobodyIsEverListedTwice == Spec => []NobodyIsListedTwice
<1>1. QED
  BY ListsAreApart, GateInvariantHolds, PTL

\* An action of one slot leaves what the others do alone.
LEMMA OthersStay ==
    ASSUME GateInvariant, NEW s \in Slots, NEW u \in Slots \ {s},
           \/ Arrive(u) \/ Enter(u) \/ Admission(u) \/ Handle(u) \/ Fails(u) \/ Leave(u)
    PROVE  visit'[s] = visit[s]
<1>1. visit \in [Slots -> Visit \cup {None}]
  BY DEF GateInvariant, TypeOK
<1>2. ASSUME \E w : visit' = [visit EXCEPT ![u] = w]
      PROVE  visit'[s] = visit[s]
  BY <1>1, <1>2
<1>3. ASSUME NEW answer, Reply(u, answer)
      PROVE  visit'[s] = visit[s]
  BY <1>1, <1>3 DEF Reply
<1>4. ASSUME NEW answer, NEW about, Tell(u, answer, about)
      PROVE  visit'[s] = visit[s]
  BY <1>1, <1>4 DEF Tell
<1>5. CASE Arrive(u)
  BY <1>1, <1>5 DEF Arrive
<1>6. CASE Enter(u)
  BY <1>1, <1>3, <1>6 DEF Enter, ServeOpen, TurnAway, SendToRegistration, Validate, Goto
<1>7. CASE Admission(u)
  BY <1>1, <1>3, <1>7 DEF Admission, ShowErrors, RequireMembership
<1>8. CASE Handle(u)
  <2>1. CASE ShowPage(u) \/ ShowInvitation(u)
    BY <1>3, <1>4, <2>1 DEF ShowPage, ShowInvitation
  <2>2. CASE ReadDetails(u) \/ RefuseSbi(u)
    BY <1>1, <2>2 DEF ReadDetails, RefuseSbi
  <2>3. CASE Create(u) \/ Invite(u) \/ Accept(u) \/ RefuseInvitation(u)
    BY <1>3, <1>4, <2>3 DEF Create, Invite, Accept, RefuseInvitation
  <2>4. QED
    BY <1>8, <2>1, <2>2, <2>3 DEF Handle
<1>9. CASE Fails(u)
  BY <1>3, <1>9 DEF Fails
<1>10. CASE Leave(u)
  BY <1>1, <1>10 DEF Leave
<1>11. QED
  BY <1>5, <1>6, <1>7, <1>8, <1>9, <1>10

RedirectOpens ==
    \A s \in Slots :
     LET v == visit[s] IN
     /\ At(s, "pre")
     /\ v.route = "details"
     /\ [person |-> v.person, about |-> v.organisation, answer |-> "business"] \in told
     => visit'[s].answer \in {None, "error"}

LEMMA MembersComeIn == GateInvariant /\ [Next]_vars => RedirectOpens
<1> SUFFICES ASSUME GateInvariant, [Next]_vars,
                    NEW s \in Slots, At(s, "pre"), visit[s].route = "details",
                    [person |-> visit[s].person, about |-> visit[s].organisation,
                     answer |-> "business"] \in told
             PROVE  visit'[s].answer \in {None, "error"}
  BY DEF RedirectOpens
<1>1. /\ visit \in [Slots -> Visit \cup {None}] /\ visit[s] \in Visit
      /\ visit[s] # None /\ visit[s].stage = "pre" /\ visit[s].answer = None
  BY DEF At, GateInvariant, TypeOK, VisitInvariant, Admitted
<1>2. IsMember(visit[s].person, visit[s].organisation)
  <2>1. PICK t \in told : t = [person |-> visit[s].person, about |-> visit[s].organisation,
                               answer |-> "business"]
    OBVIOUS
  <2>2. t.answer = "business" /\ t.person = visit[s].person /\ t.about = visit[s].organisation
    BY <2>1
  <2>3. QED
    BY <2>1, <2>2 DEF GateInvariant, StillTrue
<1>3. \A permission \in GetOrganisationForPerson(s) : permission \in Sufficient(visit[s].route)
  BY DEF GetOrganisationForPerson, Sufficient, GateInvariant, TypeOK, RecordsTypeOK, MembershipRow
<1>4. CASE RequireMembership(s)
  <2>1. GetOrganisationForPerson(s) # {}
    BY <1>2 DEF IsMember, GetOrganisationForPerson
  <2>2. PICK permission : visit' = [visit EXCEPT ![s].stage = "handle", ![s].permission = permission]
    BY <1>3, <1>4, <2>1 DEF RequireMembership
  <2>3. QED
    BY <1>1, <2>2 DEF Visit
<1>5. CASE Fails(s)
  BY <1>1, <1>5 DEF Fails, Reply, Visit
<1>6. ASSUME \E u \in Slots : Arrive(u) \/ Enter(u) \/ Admission(u) \/ Handle(u) \/ Fails(u) \/ Leave(u)
      PROVE  visit'[s].answer \in {None, "error"}
  <2>1. PICK u \in Slots : Arrive(u) \/ Enter(u) \/ Admission(u) \/ Handle(u) \/ Fails(u) \/ Leave(u)
    BY <1>6
  <2>2. CASE u # s
    BY <1>1, <2>1, <2>2, OthersStay
  <2>3. ~Arrive(s) /\ ~Leave(s)
    BY <1>1 DEF Arrive, Leave, At
  <2>4. ~Enter(s)
    BY <1>1 DEF Enter, ServeOpen, TurnAway, SendToRegistration, Validate, At
  <2>5. ~Handle(s)
    BY <1>1 DEF Handle, ShowPage, ReadDetails, ShowInvitation, Create, RefuseSbi, Invite,
                Accept, RefuseInvitation, Handling, At
  <2>6. ~ShowErrors(s)
    BY <1>1 DEF ShowErrors, At
  <2>7. QED
    BY <1>4, <1>5, <2>1, <2>2, <2>3, <2>4, <2>5, <2>6 DEF Admission
<1>7. CASE Elsewhere \/ UNCHANGED vars
  BY <1>1, <1>7 DEF Elsewhere, vars, gateVars
<1>8. QED
  BY <1>6, <1>7 DEF Next

\* Whoever was redirected to a business may open it: having been made a member,
\* the caller passes the pre-handler.
THEOREM RedirectedBusinessAlwaysOpens == Spec => RedirectedBusinessOpens
<1>1. GateInvariant /\ [Next]_vars => [RedirectOpens]_vars
  BY MembersComeIn
<1>2. QED
  BY <1>1, GateInvariantHolds, PTL DEF Spec, RedirectedBusinessOpens, RedirectOpens

\* Of a business in use as of an empty database: whatever rows the service finds,
\* strangers see nothing of them, the page of an invitation and its form agree,
\* nobody is listed twice, and a business one was redirected to opens.
THEOREM GateInUse ==
    Quiet /\ [][Next]_vars =>
        /\ [](StrangersSeeNothing /\ PageAndFormAgree /\ NobodyIsListedTwice)
        /\ RedirectedBusinessOpens
<1>1. GateInvariant => StrangersSeeNothing /\ PageAndFormAgree /\ NobodyIsListedTwice
  BY StrangersAreToldNothing, WordsAgree, ListsAreApart
<1>2. GateInvariant /\ [Next]_vars => [RedirectOpens]_vars
  BY MembersComeIn
<1>3. QED
  BY <1>1, <1>2, QuietHasInvariant, NextKeepsInvariant, PTL
     DEF RedirectedBusinessOpens, RedirectOpens

=============================================================================
