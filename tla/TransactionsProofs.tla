------------------------- MODULE TransactionsProofs -------------------------
(***************************************************************************)
(* TransactionsInvariant is an inductive invariant of Transactions: for    *)
(* any number of requests in progress, any pool and any data.  From it,    *)
(* every step of the code is a step or a stutter of AtomicRecords, the     *)
(* table invariants hold, and no set of requests waits only for itself.    *)
(***************************************************************************)
EXTENDS Transactions, AtomicRecordsProofs

-----------------------------------------------------------------------------
\* Steps of one slot that leave the tables alone.

\* What such a step keeps: the types, the tables and the other slots.
OthersKept(s) ==
    /\ UNCHANGED recordVars
    /\ pc' \in [Slots -> Control]
    /\ req' \in [Slots -> Requests]
    /\ written' \in [Slots -> SUBSET Writes]
    /\ connected' \subseteq Slots
    /\ answer' \in [Slots -> Answers \cup {None}]
    /\ \A t \in Slots \ {s} :
           /\ pc'[t] = pc[t] /\ req'[t] = req[t] /\ written'[t] = written[t]
           /\ t \in connected' <=> t \in connected

LEMMA OneSlotStep ==
    ASSUME TransactionsInvariant, NEW s \in Slots, OthersKept(s), SlotInvariant(s)',
           \A t \in Slots \ {s} : Exclusive(s, t)'
    PROVE  TransactionsInvariant'
<1>1. Consistent'
  <2>1. clock' \in Time /\ clock <= clock'
    BY DEF TransactionsInvariant, TypeOK, RecordsTypeOK, OthersKept, recordVars, Time
  <2>2. QED
    BY <2>1, UnchangedTablesKeepConsistent DEF TransactionsInvariant, OthersKept, recordVars
<1>2. TypeOK'
  BY <1>1 DEF Consistent, OthersKept, TypeOK
<1>3. ASSUME NEW t \in Slots \ {s} PROVE SlotInvariant(t)'
  <2>1. SlotInvariant(t) /\ UNCHANGED <<pc[t], req[t], written[t]>>
        /\ (t \in connected' <=> t \in connected)
    BY <1>3 DEF TransactionsInvariant, OthersKept
  <2>2. RequestIsComplete(t)'
    BY <2>1 DEF SlotInvariant, RequestIsComplete
  <2>3. WrittenInOrder(t)'
    BY <2>1 DEF SlotInvariant, WrittenInOrder
  <2>4. StillHolds(t)'
    BY <2>1 DEF SlotInvariant, StillHolds, OthersKept, recordVars
  <2>5. QED
    BY <2>2, <2>3, <2>4 DEF SlotInvariant
<1>4. ASSUME NEW t \in Slots, NEW u \in Slots, t # u PROVE Exclusive(t, u)'
  <2>1. CASE t = s
    BY <1>4, <2>1
  <2>2. CASE u = s
    <3>1. Exclusive(u, t)'
      BY <1>4, <2>2
    <3>2. QED
      BY <3>1 DEF Exclusive
  <2>3. CASE t # s /\ u # s
    <3>1. Exclusive(t, u)
      BY <1>4 DEF TransactionsInvariant
    <3>2. UNCHANGED <<req[t], written[t], req[u], written[u]>>
      BY <2>3 DEF OthersKept
    <3>3. QED
      BY <3>1, <3>2 DEF Exclusive
  <2>4. QED
    BY <2>1, <2>2, <2>3
<1>5. QED
  BY <1>1, <1>2, <1>3, <1>4 DEF TransactionsInvariant

\* A request's ids and keys stay exclusive when it keeps them and writes nothing.
LEMMA ExclusiveIsKept ==
    ASSUME NEW s, NEW t, Exclusive(s, t),
           req'[s].op = req[s].op, req'[s].person = req[s].person,
           req'[s].subject = req[s].subject, req'[s].sbi = req[s].sbi,
           req'[s].organisation = req[s].organisation \/ (written'[s] = {} /\ req[s].op # "create"),
           req'[s].invitation = req[s].invitation,
           written'[s] \subseteq written[s],
           req'[t] = req[t], written'[t] = written[t]
    PROVE  Exclusive(s, t)'
  BY DEF Exclusive

LEMMA StatementKeepsOthers ==
    ASSUME TypeOK, NEW s \in Slots, NEW next \in Control, pc[s] \in Writes,
           Statement(s, next)
    PROVE  /\ OthersKept(s)
           /\ RowLockHolders(s) = {}
           /\ pc'[s] = next /\ written'[s] = written[s] \cup {pc[s]}
           /\ UNCHANGED <<recordVars, req, connected>>
  BY DEF TypeOK, Statement, Wrote, Goto, OthersKept

LEMMA ThrowKeepsInvariant ==
    ASSUME TransactionsInvariant, NEW s \in Slots, NEW error \in Answers,
           pc[s] \in Writes, Throw(s, error)
    PROVE  TransactionsInvariant'
<1>1. /\ OthersKept(s)
      /\ pc'[s] = "rollback" /\ written'[s] = {}
      /\ UNCHANGED <<recordVars, req, connected>>
  BY DEF TransactionsInvariant, TypeOK, Throw, Goto, OthersKept, Control, InTransaction
<1>2. SlotInvariant(s)
  BY DEF TransactionsInvariant
<1>3. SlotInvariant(s)'
  BY <1>1, <1>2 DEF SlotInvariant, RequestIsComplete, WrittenInOrder, StillHolds,
                    InTransaction, Writes, Reads
<1>4. ASSUME NEW t \in Slots \ {s} PROVE Exclusive(s, t)'
  <2>1. Exclusive(s, t) /\ req'[s] = req[s] /\ req'[t] = req[t] /\ written'[t] = written[t]
    BY <1>1 DEF TransactionsInvariant, OthersKept
  <2>2. QED
    BY <1>1, <2>1, ExclusiveIsKept
<1>5. QED
  BY <1>1, <1>3, <1>4, OneSlotStep

LEMMA RefuseKeepsInvariant ==
    ASSUME TransactionsInvariant, NEW s \in Slots, NEW reason \in Answers,
           pc[s] \in Reads, Refuse(s, reason)
    PROVE  TransactionsInvariant'
<1>1. /\ OthersKept(s)
      /\ pc'[s] = "answered"
      /\ UNCHANGED <<recordVars, req, written, connected>>
  BY DEF TransactionsInvariant, TypeOK, Refuse, Goto, OthersKept, Control
<1>2. SlotInvariant(s)
  BY DEF TransactionsInvariant
<1>3. SlotInvariant(s)'
  BY <1>1, <1>2 DEF SlotInvariant, RequestIsComplete, WrittenInOrder, StillHolds,
                    InTransaction, Writes, Reads
<1>4. ASSUME NEW t \in Slots \ {s} PROVE Exclusive(s, t)'
  <2>1. Exclusive(s, t) /\ req'[s] = req[s] /\ written'[s] = written[s]
        /\ req'[t] = req[t] /\ written'[t] = written[t]
    BY <1>1 DEF TransactionsInvariant, OthersKept
  <2>2. QED
    BY <2>1, ExclusiveIsKept
<1>5. QED
  BY <1>1, <1>3, <1>4, OneSlotStep

\* Rollback and StatementFails: the slot quits and the tables stay.
LEMMA QuitKeepsInvariant ==
    ASSUME TransactionsInvariant, NEW s \in Slots, NEW reason \in Answers \cup {None},
           pc[s] # "idle", Quit(s, reason), UNCHANGED <<recordVars, req>>
    PROVE  TransactionsInvariant'
<1>1. /\ OthersKept(s)
      /\ pc'[s] = "answered" /\ written'[s] = {} /\ s \notin connected'
  BY DEF TransactionsInvariant, TypeOK, Quit, Goto, OthersKept, Control
<1>2. SlotInvariant(s)
  BY DEF TransactionsInvariant
<1>3. SlotInvariant(s)'
  BY <1>1, <1>2 DEF SlotInvariant, RequestIsComplete, WrittenInOrder, StillHolds,
                    InTransaction, Writes, Reads
<1>4. ASSUME NEW t \in Slots \ {s} PROVE Exclusive(s, t)'
  <2>1. Exclusive(s, t) /\ req'[s] = req[s] /\ req'[t] = req[t] /\ written'[t] = written[t]
    BY <1>1 DEF TransactionsInvariant, OthersKept
  <2>2. QED
    BY <1>1, <2>1, ExclusiveIsKept
<1>5. QED
  BY <1>1, <1>3, <1>4, OneSlotStep

-----------------------------------------------------------------------------
\* Arrivals.

LEMMA NoRequestIsARequest == NoRequest \in Requests
  BY ClockAssumption DEF NoRequest, Requests, Time

LEMMA ArriveKeepsOthers ==
    ASSUME TransactionsInvariant, NEW s \in Slots, NEW label \in Control,
           NEW r \in Requests, Arrive(s, label, r)
    PROVE  /\ OthersKept(s)
           /\ pc'[s] = label /\ req'[s] = r
           /\ written'[s] = {} /\ s \notin connected'
           /\ \A t \in Slots \ {s} : req'[t] = req[t] /\ written'[t] = written[t]
<1>1. pc[s] = "idle" /\ SlotInvariant(s) /\ TypeOK
  BY DEF Arrive, Busy, TransactionsInvariant
<1>2. written[s] = {} /\ s \notin connected
  BY <1>1 DEF SlotInvariant, WrittenInOrder, InTransaction, Writes
<1>3. QED
  BY <1>1, <1>2 DEF Arrive, Goto, TypeOK, OthersKept

LEMMA ArriveRegisterKeepsInvariant ==
    ASSUME TransactionsInvariant, NEW s \in Slots, ArriveRegister(s)
    PROVE  TransactionsInvariant'
<1>1. PICK subject \in Subjects, person \in People, email \in Emails :
        /\ FreshPerson(person)
        /\ Arrive(s, "connect",
                  [NoRequest EXCEPT !.op = "register", !.subject = subject,
                                    !.person = person, !.email = email])
  BY DEF ArriveRegister
<1> DEFINE r == [NoRequest EXCEPT !.op = "register", !.subject = subject,
                                  !.person = person, !.email = email]
<1>2. r \in Requests /\ "connect" \in Control
  BY NoRequestIsARequest DEF Requests, Operations, Control
<1>3. r.op = "register" /\ r.subject = subject /\ r.person = person /\ r.email = email
  BY DEF NoRequest
<1>4. Arrive(s, "connect", r)
  BY <1>1
<1> HIDE DEF r
<1>5. /\ OthersKept(s)
      /\ pc'[s] = "connect" /\ req'[s] = r /\ written'[s] = {} /\ s \notin connected'
      /\ \A t \in Slots \ {s} : req'[t] = req[t] /\ written'[t] = written[t]
  BY <1>2, <1>4, ArriveKeepsOthers
<1>6. SlotInvariant(s)'
  BY <1>1, <1>3, <1>5
  DEF SlotInvariant, RequestIsComplete, WrittenInOrder, StillHolds, FreshPerson, OthersKept,
      recordVars, InTransaction, Writes, Reads, Operations
<1>7. \A t \in Slots \ {s} : Exclusive(s, t)'
  BY <1>1, <1>3, <1>5 DEF Exclusive, FreshPerson
<1>8. QED
  BY <1>5, <1>6, <1>7, OneSlotStep

LEMMA ArriveCreateKeepsInvariant ==
    ASSUME TransactionsInvariant, NEW s \in Slots, ArriveCreate(s)
    PROVE  TransactionsInvariant'
<1>1. PICK p \in people, organisation \in Organisations, sbi \in Sbis :
        /\ FreshOrganisation(organisation)
        /\ Arrive(s, "connect",
                  [NoRequest EXCEPT !.op = "create", !.person = p.id, !.sbi = sbi,
                                    !.organisation = organisation, !.permission = "owner"])
  BY DEF ArriveCreate
<1> DEFINE r == [NoRequest EXCEPT !.op = "create", !.person = p.id, !.sbi = sbi,
                                  !.organisation = organisation, !.permission = "owner"]
<1>2. p.id \in People
  BY DEF TransactionsInvariant, TypeOK, RecordsTypeOK, PersonRow
<1>3. r \in Requests /\ "connect" \in Control
  BY <1>2, NoRequestIsARequest DEF Requests, Operations, Permissions, Control
<1>4. /\ r.op = "create" /\ r.person = p.id /\ r.sbi = sbi
      /\ r.organisation = organisation /\ r.permission = "owner"
  BY DEF NoRequest
<1>5. Arrive(s, "connect", r)
  BY <1>1
<1> HIDE DEF r
<1>6. /\ OthersKept(s)
      /\ pc'[s] = "connect" /\ req'[s] = r /\ written'[s] = {} /\ s \notin connected'
      /\ \A t \in Slots \ {s} : req'[t] = req[t] /\ written'[t] = written[t]
  BY <1>3, <1>5, ArriveKeepsOthers
<1>7. SlotInvariant(s)'
  BY <1>1, <1>2, <1>4, <1>6
  DEF SlotInvariant, RequestIsComplete, WrittenInOrder, StillHolds, FreshOrganisation,
      OthersKept, recordVars, InTransaction, Writes, Reads, Operations
<1>8. \A t \in Slots \ {s} : Exclusive(s, t)'
  BY <1>1, <1>4, <1>6 DEF Exclusive, FreshOrganisation
<1>9. QED
  BY <1>6, <1>7, <1>8, OneSlotStep

LEMMA ArriveInviteKeepsInvariant ==
    ASSUME TransactionsInvariant, NEW s \in Slots, ArriveInvite(s)
    PROVE  TransactionsInvariant'
<1>1. PICK p \in people, organisation \in Organisations, invitation \in Invitations,
           email \in Emails, permission \in Permissions :
        /\ FreshInvitation(invitation)
        /\ Arrive(s, "requireMembership",
                  [NoRequest EXCEPT !.op = "invite", !.person = p.id,
                                    !.organisation = organisation, !.email = Lower[email],
                                    !.invitation = invitation, !.permission = permission])
  BY DEF ArriveInvite
<1> DEFINE r == [NoRequest EXCEPT !.op = "invite", !.person = p.id,
                                  !.organisation = organisation, !.email = Lower[email],
                                  !.invitation = invitation, !.permission = permission]
<1>2. p.id \in People /\ Lower[email] \in Emails /\ Lower[Lower[email]] = Lower[email]
  BY LowerAssumption DEF TransactionsInvariant, TypeOK, RecordsTypeOK, PersonRow
<1>3. r \in Requests /\ "requireMembership" \in Control
  BY <1>2, NoRequestIsARequest DEF Requests, Operations, Control, Reads
<1>4. /\ r.op = "invite" /\ r.person = p.id /\ r.organisation = organisation
      /\ r.email = Lower[email] /\ r.invitation = invitation /\ r.permission = permission
  BY DEF NoRequest
<1>5. Arrive(s, "requireMembership", r)
  BY <1>1
<1> HIDE DEF r
<1>6. /\ OthersKept(s)
      /\ pc'[s] = "requireMembership" /\ req'[s] = r /\ written'[s] = {} /\ s \notin connected'
      /\ \A t \in Slots \ {s} : req'[t] = req[t] /\ written'[t] = written[t]
  BY <1>3, <1>5, ArriveKeepsOthers
<1>7. SlotInvariant(s)'
  BY <1>1, <1>2, <1>4, <1>6
  DEF SlotInvariant, RequestIsComplete, WrittenInOrder, StillHolds, FreshInvitation,
      OthersKept, recordVars, InTransaction, Writes, Reads
<1>8. \A t \in Slots \ {s} : Exclusive(s, t)'
  BY <1>1, <1>4, <1>6 DEF Exclusive, FreshInvitation
<1>9. QED
  BY <1>6, <1>7, <1>8, OneSlotStep

LEMMA ArriveAcceptKeepsInvariant ==
    ASSUME TransactionsInvariant, NEW s \in Slots, ArriveAccept(s)
    PROVE  TransactionsInvariant'
<1>1. PICK p \in people, invitation \in {i.id : i \in invitations} \cup {None} :
        Arrive(s, "getInvitationByToken",
               [NoRequest EXCEPT !.op = "accept", !.person = p.id, !.email = p.email,
                                 !.invitation = invitation])
  BY DEF ArriveAccept
<1> DEFINE r == [NoRequest EXCEPT !.op = "accept", !.person = p.id, !.email = p.email,
                                  !.invitation = invitation]
<1>2. p.id \in People /\ p.email \in Emails /\ invitation \in Invitations \cup {None}
  BY DEF TransactionsInvariant, TypeOK, RecordsTypeOK, PersonRow, InvitationRow
<1>3. r \in Requests /\ "getInvitationByToken" \in Control
  BY <1>2, NoRequestIsARequest DEF Requests, Operations, Control, Reads
<1>4. r.op = "accept" /\ r.person = p.id /\ r.email = p.email /\ r.invitation = invitation
  BY DEF NoRequest
<1>5. Arrive(s, "getInvitationByToken", r)
  BY <1>1
<1> HIDE DEF r
<1>6. /\ OthersKept(s)
      /\ pc'[s] = "getInvitationByToken" /\ req'[s] = r /\ written'[s] = {} /\ s \notin connected'
      /\ \A t \in Slots \ {s} : req'[t] = req[t] /\ written'[t] = written[t]
  BY <1>3, <1>5, ArriveKeepsOthers
<1>7. SlotInvariant(s)'
  BY <1>2, <1>4, <1>6
  DEF SlotInvariant, RequestIsComplete, WrittenInOrder, StillHolds,
      OthersKept, recordVars, InTransaction, Writes, Reads
<1>8. \A t \in Slots \ {s} : Exclusive(s, t)'
  BY <1>4, <1>6 DEF Exclusive
<1>9. QED
  BY <1>6, <1>7, <1>8, OneSlotStep

-----------------------------------------------------------------------------
\* The reads and the statements.

LEMMA RequireMembershipKeepsInvariant ==
    ASSUME TransactionsInvariant, NEW s \in Slots, RequireMembership(s)
    PROVE  TransactionsInvariant'
<1>1. CASE Refuse(s, "notFound") \/ Refuse(s, "forbidden")
  BY <1>1, RefuseKeepsInvariant DEF RequireMembership, Reads, Answers
<1>2. CASE /\ Owner(req[s].organisation, req[s].person) \in memberships
           /\ req' = [req EXCEPT ![s].issued = clock]
           /\ Goto(s, "connect")
           /\ UNCHANGED <<recordVars, written, connected, answer>>
  <2>1. TypeOK /\ SlotInvariant(s) /\ pc[s] = "requireMembership" /\ clock \in Time
    BY DEF TransactionsInvariant, TypeOK, RecordsTypeOK, RequireMembership
  <2> DEFINE r == [req[s] EXCEPT !.issued = clock]
  <2>2. /\ r \in Requests /\ r.issued = clock /\ r.op = req[s].op /\ r.person = req[s].person
        /\ r.subject = req[s].subject /\ r.sbi = req[s].sbi /\ r.email = req[s].email
        /\ r.organisation = req[s].organisation /\ r.invitation = req[s].invitation
        /\ r.permission = req[s].permission
    BY <2>1 DEF TypeOK, Requests
  <2>3. req' = [req EXCEPT ![s] = r]
    BY <1>2, <2>1 DEF TypeOK, Requests
  <2> HIDE DEF r
  <2>4. /\ OthersKept(s)
        /\ pc'[s] = "connect" /\ req'[s] = r
    BY <1>2, <2>1, <2>2, <2>3 DEF TypeOK, OthersKept, Goto, Control
  <2>5. SlotInvariant(s)'
    BY <1>2, <2>1, <2>2, <2>4
    DEF SlotInvariant, RequestIsComplete, WrittenInOrder, StillHolds, recordVars,
        InTransaction, Writes, Reads, Operations, Time
  <2>6. ASSUME NEW t \in Slots \ {s} PROVE Exclusive(s, t)'
    <3>1. Exclusive(s, t) /\ written' = written /\ req'[t] = req[t]
      BY <1>2, <2>4 DEF TransactionsInvariant, OthersKept
    <3>2. QED
      BY <2>2, <2>4, <3>1, ExclusiveIsKept
  <2>7. QED
    BY <2>4, <2>5, <2>6, OneSlotStep
<1>3. QED
  BY <1>1, <1>2 DEF RequireMembership

LEMMA GetInvitationByTokenKeepsInvariant ==
    ASSUME TransactionsInvariant, NEW s \in Slots, GetInvitationByToken(s)
    PROVE  TransactionsInvariant'
<1> DEFINE found == {i \in invitations : i.id = req[s].invitation}
           valid == {i \in found : i.acceptedAt = None /\ i.expiresAt > clock}
<1>1. CASE Refuse(s, "notValid") \/ Refuse(s, "wrongAccount")
  BY <1>1, RefuseKeepsInvariant DEF GetInvitationByToken, Reads, Answers
<1>2. ASSUME NEW i \in valid, i.email = Lower[req[s].email],
             req' = [req EXCEPT ![s].organisation = i.organisation,
                                ![s].permission = i.permission],
             Goto(s, "connect"), UNCHANGED <<recordVars, written, connected, answer>>
      PROVE  TransactionsInvariant'
  <2>1. TypeOK /\ SlotInvariant(s) /\ pc[s] = "getInvitationByToken" /\ i \in InvitationRow
    BY DEF TransactionsInvariant, TypeOK, RecordsTypeOK, GetInvitationByToken
  <2>2. req[s].op = "accept" /\ written[s] = {} /\ s \notin connected
    BY <2>1 DEF SlotInvariant, RequestIsComplete, WrittenInOrder, Reads, Writes, InTransaction
  <2> DEFINE r == [req[s] EXCEPT !.organisation = i.organisation, !.permission = i.permission]
  <2>3. /\ r \in Requests /\ r.organisation = i.organisation /\ r.permission = i.permission
        /\ r.op = req[s].op /\ r.person = req[s].person /\ r.invitation = req[s].invitation
        /\ r.subject = req[s].subject /\ r.sbi = req[s].sbi /\ r.email = req[s].email
    <3>1. req[s] \in Requests
      BY <2>1 DEF TypeOK
    <3>2. i.organisation \in Organisations /\ i.permission \in Permissions
      BY <2>1 DEF InvitationRow
    <3> HIDE DEF valid
    <3>3. QED
      BY <3>1, <3>2 DEF Requests
  <2>4. req' = [req EXCEPT ![s] = r]
    BY <1>2, <2>1 DEF TypeOK, Requests
  <2>5. i \in invitations /\ i.id = req[s].invitation
    BY <1>2
  <2> HIDE DEF r, valid
  <2>6. /\ OthersKept(s)
        /\ pc'[s] = "connect" /\ req'[s] = r
        /\ written'[s] = {} /\ s \notin connected'
    BY <1>2, <2>1, <2>2, <2>3, <2>4 DEF TypeOK, OthersKept, Goto, Control
  <2>7. RequestIsComplete(s)' /\ WrittenInOrder(s)'
    BY <2>1, <2>2, <2>3, <2>6
    DEF SlotInvariant, RequestIsComplete, WrittenInOrder, InTransaction, Writes, Reads, Operations
  <2>8. StillHolds(s)'
    BY <1>2, <2>1, <2>2, <2>3, <2>5, <2>6
    DEF SlotInvariant, StillHolds, OthersKept, recordVars, Reads
  <2>9. ASSUME NEW t \in Slots \ {s} PROVE Exclusive(s, t)'
    <3>1. Exclusive(s, t) /\ written' = written /\ req'[t] = req[t]
      BY <1>2, <2>6 DEF TransactionsInvariant, OthersKept
    <3>2. QED
      BY <2>2, <2>3, <2>6, <3>1, ExclusiveIsKept
  <2>10. QED
    BY <2>6, <2>7, <2>8, <2>9, OneSlotStep DEF SlotInvariant
<1>3. QED
  BY <1>1, <1>2 DEF GetInvitationByToken

LEMMA BeginTransactionKeepsInvariant ==
    ASSUME TransactionsInvariant, NEW s \in Slots, BeginTransaction(s)
    PROVE  TransactionsInvariant'
<1>1. TypeOK /\ SlotInvariant(s) /\ pc[s] = "connect" /\ clock \in Time
  BY DEF TransactionsInvariant, TypeOK, RecordsTypeOK, BeginTransaction
<1>2. req[s].op \in Operations /\ written[s] = {}
  BY <1>1 DEF SlotInvariant, RequestIsComplete, WrittenInOrder, Writes
<1> DEFINE r == [req[s] EXCEPT !.now = clock]
<1>3. /\ r \in Requests /\ r.now = clock /\ r.op = req[s].op /\ r.person = req[s].person
      /\ r.subject = req[s].subject /\ r.sbi = req[s].sbi /\ r.email = req[s].email
      /\ r.organisation = req[s].organisation /\ r.invitation = req[s].invitation
      /\ r.permission = req[s].permission /\ r.issued = req[s].issued
  BY <1>1 DEF TypeOK, Requests
<1>4. req' = [req EXCEPT ![s] = r]
  BY <1>1 DEF BeginTransaction, TypeOK, Requests
<1>5. /\ FirstStatement(req[s].op) \in Writes
      /\ req[s].op = "register" => FirstStatement(req[s].op) = "createPerson"
      /\ req[s].op = "create" => FirstStatement(req[s].op) = "createOrganisation"
      /\ req[s].op = "invite" => FirstStatement(req[s].op) = "createInvitation"
      /\ req[s].op = "accept" => FirstStatement(req[s].op) = "markInvitationAccepted"
  BY <1>2 DEF FirstStatement, Operations, Writes
<1> HIDE DEF r
<1>6. /\ OthersKept(s)
      /\ pc'[s] = FirstStatement(req[s].op) /\ req'[s] = r
      /\ written'[s] = {} /\ s \in connected'
  BY <1>1, <1>2, <1>3, <1>4, <1>5
  DEF BeginTransaction, TypeOK, OthersKept, Goto, Control, InTransaction
<1>7. RequestIsComplete(s)'
  BY <1>1, <1>2, <1>3, <1>5, <1>6
  DEF SlotInvariant, RequestIsComplete, InTransaction, Writes, Reads
<1>8. WrittenInOrder(s)'
  BY <1>2, <1>3, <1>5, <1>6 DEF WrittenInOrder, InTransaction, Writes, Operations
<1>9. StillHolds(s)'
  BY <1>1, <1>3, <1>5, <1>6 DEF SlotInvariant, StillHolds, OthersKept, recordVars, Reads, Writes, Time
<1>10. ASSUME NEW t \in Slots \ {s} PROVE Exclusive(s, t)'
  <2>1. Exclusive(s, t) /\ written'[t] = written[t] /\ req'[t] = req[t]
    BY <1>6 DEF TransactionsInvariant, OthersKept
  <2>2. QED
    BY <1>3, <1>6, <2>1, ExclusiveIsKept
<1>11. QED
  BY <1>6, <1>7, <1>8, <1>9, <1>10, OneSlotStep DEF SlotInvariant

LEMMA CreatePersonKeepsInvariant ==
    ASSUME TransactionsInvariant, NEW s \in Slots, CreatePerson(s)
    PROVE  TransactionsInvariant'
<1>1. TypeOK /\ SlotInvariant(s) /\ pc[s] = "createPerson" /\ "linkExternalIdentity" \in Control
  BY DEF TransactionsInvariant, CreatePerson, Control, InTransaction, Writes
<1>2. /\ OthersKept(s)
      /\ pc'[s] = "linkExternalIdentity" /\ written'[s] = written[s] \cup {"createPerson"}
      /\ UNCHANGED <<recordVars, req, connected>>
  BY <1>1, StatementKeepsOthers DEF CreatePerson, Writes
<1>3. SlotInvariant(s)'
  BY <1>1, <1>2 DEF SlotInvariant, RequestIsComplete, WrittenInOrder, StillHolds, recordVars,
                    InTransaction, Writes, Reads
<1>4. \A t \in Slots \ {s} : Exclusive(s, t)'
  BY <1>2 DEF TransactionsInvariant, OthersKept, Exclusive
<1>5. QED
  BY <1>2, <1>3, <1>4, OneSlotStep

LEMMA LinkExternalIdentityKeepsInvariant ==
    ASSUME TransactionsInvariant, NEW s \in Slots, LinkExternalIdentity(s)
    PROVE  TransactionsInvariant'
<1>1. /\ TypeOK /\ SlotInvariant(s) /\ pc[s] = "linkExternalIdentity" /\ pc[s] \in Writes
      /\ "recordAuditEvent" \in Control
  BY DEF TransactionsInvariant, LinkExternalIdentity, Control, InTransaction, Writes
<1>2. CASE Throw(s, "alreadyRegistered")
  BY <1>1, <1>2, ThrowKeepsInvariant DEF Answers
<1>3. CASE /\ \A i \in identities : i.subject # req[s].subject
           /\ Statement(s, "recordAuditEvent")
  <2>1. /\ OthersKept(s) /\ RowLockHolders(s) = {}
        /\ pc'[s] = "recordAuditEvent" /\ written'[s] = written[s] \cup {pc[s]}
        /\ UNCHANGED <<recordVars, req, connected>>
    BY <1>1, <1>3, StatementKeepsOthers
  <2>2. SlotInvariant(s)'
    BY <1>1, <1>3, <2>1 DEF SlotInvariant, RequestIsComplete, WrittenInOrder, StillHolds,
                            recordVars, InTransaction, Writes, Reads
  <2>3. ASSUME NEW t \in Slots \ {s} PROVE Exclusive(s, t)'
    <3>1. ~("linkExternalIdentity" \in written[t] /\ req[t].subject = req[s].subject)
      BY <1>1, <2>1 DEF RowLockHolders
    <3>2. QED
      BY <1>1, <2>1, <3>1 DEF TransactionsInvariant, OthersKept, Exclusive
  <2>4. QED
    BY <2>1, <2>2, <2>3, OneSlotStep
<1>4. QED
  BY <1>2, <1>3 DEF LinkExternalIdentity

LEMMA CreateOrganisationKeepsInvariant ==
    ASSUME TransactionsInvariant, NEW s \in Slots, CreateOrganisation(s)
    PROVE  TransactionsInvariant'
<1>1. /\ TypeOK /\ SlotInvariant(s) /\ pc[s] = "createOrganisation" /\ pc[s] \in Writes
      /\ "addMembership" \in Control
  BY DEF TransactionsInvariant, CreateOrganisation, Control, InTransaction, Writes
<1>2. CASE Throw(s, "duplicateSbi")
  BY <1>1, <1>2, ThrowKeepsInvariant DEF Answers
<1>3. CASE /\ \A o \in organisations : o.sbi # req[s].sbi
           /\ Statement(s, "addMembership")
  <2>1. /\ OthersKept(s) /\ RowLockHolders(s) = {}
        /\ pc'[s] = "addMembership" /\ written'[s] = written[s] \cup {pc[s]}
        /\ UNCHANGED <<recordVars, req, connected>>
    BY <1>1, <1>3, StatementKeepsOthers
  <2>2. SlotInvariant(s)'
    BY <1>1, <1>3, <2>1 DEF SlotInvariant, RequestIsComplete, WrittenInOrder, StillHolds,
                            recordVars, InTransaction, Writes, Reads
  <2>3. ASSUME NEW t \in Slots \ {s} PROVE Exclusive(s, t)'
    <3>1. ~("createOrganisation" \in written[t] /\ req[t].sbi = req[s].sbi)
      BY <1>1, <2>1 DEF RowLockHolders
    <3>2. QED
      BY <1>1, <2>1, <3>1 DEF TransactionsInvariant, OthersKept, Exclusive
  <2>4. QED
    BY <2>1, <2>2, <2>3, OneSlotStep
<1>4. QED
  BY <1>2, <1>3 DEF CreateOrganisation

LEMMA AddMembershipKeepsInvariant ==
    ASSUME TransactionsInvariant, NEW s \in Slots, AddMembership(s)
    PROVE  TransactionsInvariant'
<1>1. /\ TypeOK /\ SlotInvariant(s) /\ pc[s] = "addMembership" /\ pc[s] \in Writes
      /\ "recordAuditEvent" \in Control
  BY DEF TransactionsInvariant, AddMembership, Control, InTransaction, Writes
<1>2. CASE Throw(s, "alreadyMember")
  BY <1>1, <1>2, ThrowKeepsInvariant DEF Answers
<1>3. CASE /\ \A m \in memberships : ~(m.organisation = req[s].organisation /\ m.person = req[s].person)
           /\ Statement(s, "recordAuditEvent")
  <2>1. /\ OthersKept(s) /\ RowLockHolders(s) = {}
        /\ pc'[s] = "recordAuditEvent" /\ written'[s] = written[s] \cup {pc[s]}
        /\ UNCHANGED <<recordVars, req, connected>>
    BY <1>1, <1>3, StatementKeepsOthers
  <2>2. SlotInvariant(s)'
    BY <1>1, <1>3, <2>1 DEF SlotInvariant, RequestIsComplete, WrittenInOrder, StillHolds,
                            recordVars, InTransaction, Writes, Reads
  <2>3. ASSUME NEW t \in Slots \ {s} PROVE Exclusive(s, t)'
    <3>1. ~(/\ "addMembership" \in written[t]
            /\ req[t].organisation = req[s].organisation /\ req[t].person = req[s].person)
      BY <1>1, <2>1 DEF RowLockHolders
    <3>2. QED
      BY <1>1, <2>1, <3>1 DEF TransactionsInvariant, OthersKept, Exclusive
  <2>4. QED
    BY <2>1, <2>2, <2>3, OneSlotStep
<1>4. QED
  BY <1>2, <1>3 DEF AddMembership

LEMMA CreateInvitationKeepsInvariant ==
    ASSUME TransactionsInvariant, NEW s \in Slots, CreateInvitation(s)
    PROVE  TransactionsInvariant'
<1>1. /\ TypeOK /\ SlotInvariant(s) /\ pc[s] = "createInvitation" /\ pc[s] \in Writes
      /\ "recordAuditEvent" \in Control
  BY DEF TransactionsInvariant, CreateInvitation, Control, InTransaction, Writes
<1>2. /\ OthersKept(s)
      /\ pc'[s] = "recordAuditEvent" /\ written'[s] = written[s] \cup {pc[s]}
      /\ UNCHANGED <<recordVars, req, connected>>
  BY <1>1, StatementKeepsOthers DEF CreateInvitation
<1>3. SlotInvariant(s)'
  BY <1>1, <1>2 DEF SlotInvariant, RequestIsComplete, WrittenInOrder, StillHolds, recordVars,
                    InTransaction, Writes, Reads
<1>4. \A t \in Slots \ {s} : Exclusive(s, t)'
  BY <1>1, <1>2 DEF TransactionsInvariant, OthersKept, Exclusive
<1>5. QED
  BY <1>2, <1>3, <1>4, OneSlotStep

LEMMA MarkInvitationAcceptedKeepsInvariant ==
    ASSUME TransactionsInvariant, NEW s \in Slots, MarkInvitationAccepted(s)
    PROVE  TransactionsInvariant'
<1>1. /\ TypeOK /\ SlotInvariant(s) /\ pc[s] = "markInvitationAccepted" /\ pc[s] \in Writes
      /\ "addMembership" \in Control /\ IdsAreKeys
  BY DEF TransactionsInvariant, Consistent, MarkInvitationAccepted, Control, InTransaction, Writes
<1>2. CASE Throw(s, "notValid")
  BY <1>1, <1>2, ThrowKeepsInvariant DEF Answers
<1>3. ASSUME NEW i \in invitations, i.id = req[s].invitation, i.acceptedAt = None,
             i.expiresAt > req[s].now, Statement(s, "addMembership")
      PROVE  TransactionsInvariant'
  <2>1. /\ OthersKept(s) /\ RowLockHolders(s) = {}
        /\ pc'[s] = "addMembership" /\ written'[s] = written[s] \cup {pc[s]}
        /\ UNCHANGED <<recordVars, req, connected>>
    BY <1>1, <1>3, StatementKeepsOthers
  <2>2. RequestIsComplete(s)' /\ WrittenInOrder(s)'
    BY <1>1, <2>1 DEF SlotInvariant, RequestIsComplete, WrittenInOrder,
                      InTransaction, Writes, Reads
  <2>3. req[s].op = "accept" /\ written[s] = {}
    BY <1>1 DEF SlotInvariant, WrittenInOrder
  <2>4. /\ req[s].now <= clock
        /\ \E p \in people : p.id = req[s].person /\ p.email = req[s].email
        /\ i.organisation = req[s].organisation /\ i.permission = req[s].permission
        /\ i.email = Lower[req[s].email]
    BY <1>1, <1>3, <2>3 DEF SlotInvariant, StillHolds, IdsAreKeys, Writes, Reads
  <2>5. req[s].now < i.expiresAt
    BY <1>1, <1>3 DEF TypeOK, RecordsTypeOK, InvitationRow, Requests, Time
  <2>6. StillHolds(s)'
    BY <1>1, <1>3, <2>1, <2>3, <2>4, <2>5 DEF StillHolds, recordVars, Reads
  <2>7. ASSUME NEW t \in Slots \ {s} PROVE Exclusive(s, t)'
    <3>1. ~("markInvitationAccepted" \in written[t] /\ req[t].invitation = req[s].invitation)
      BY <1>1, <2>1 DEF RowLockHolders
    <3>2. QED
      BY <1>1, <2>1, <3>1 DEF TransactionsInvariant, OthersKept, Exclusive
  <2>8. QED
    BY <2>1, <2>2, <2>6, <2>7, OneSlotStep DEF SlotInvariant
<1>4. QED
  BY <1>2, <1>3 DEF MarkInvitationAccepted

LEMMA RecordAuditEventKeepsInvariant ==
    ASSUME TransactionsInvariant, NEW s \in Slots, RecordAuditEvent(s)
    PROVE  TransactionsInvariant'
<1>1. /\ TypeOK /\ SlotInvariant(s) /\ pc[s] = "recordAuditEvent" /\ pc[s] \in Writes
      /\ "commit" \in Control
  BY DEF TransactionsInvariant, RecordAuditEvent, Control, InTransaction, Writes
<1>2. /\ OthersKept(s)
      /\ pc'[s] = "commit" /\ written'[s] = written[s] \cup {pc[s]}
      /\ UNCHANGED <<recordVars, req, connected>>
  BY <1>1, StatementKeepsOthers DEF RecordAuditEvent
<1>3. RequestIsComplete(s)' /\ StillHolds(s)'
  BY <1>1, <1>2 DEF SlotInvariant, RequestIsComplete, StillHolds, recordVars,
                    InTransaction, Writes, Reads
<1>4. WrittenInOrder(s)'
  BY <1>1, <1>2 DEF SlotInvariant, WrittenInOrder, InTransaction, Writes
<1>5. \A t \in Slots \ {s} : Exclusive(s, t)'
  BY <1>1, <1>2 DEF TransactionsInvariant, OthersKept, Exclusive
<1>6. QED
  BY <1>2, <1>3, <1>4, <1>5, OneSlotStep DEF SlotInvariant

LEMMA DeliverKeepsInvariant ==
    ASSUME TransactionsInvariant, NEW s \in Slots, Deliver(s)
    PROVE  TransactionsInvariant'
<1>1. TypeOK /\ SlotInvariant(s) /\ pc[s] = "answered"
  BY DEF TransactionsInvariant, Deliver
<1>2. /\ OthersKept(s)
      /\ pc'[s] = "idle" /\ req'[s] = NoRequest
      /\ UNCHANGED <<recordVars, written, connected>>
  BY <1>1, NoRequestIsARequest DEF TypeOK, OthersKept, Deliver, Goto, Control
<1>3. NoRequest.op = None /\ None \notin Operations
  BY NoneIsNoOperation DEF NoRequest
<1>4. SlotInvariant(s)'
  BY <1>1, <1>2, <1>3 DEF SlotInvariant, RequestIsComplete, WrittenInOrder, StillHolds,
                          InTransaction, Writes, Reads, Operations
<1>5. \A t \in Slots \ {s} : Exclusive(s, t)'
  BY <1>1, <1>2, <1>3 DEF SlotInvariant, WrittenInOrder, Writes, Exclusive, Operations
<1>6. QED
  BY <1>2, <1>4, <1>5, OneSlotStep

-----------------------------------------------------------------------------
\* COMMIT.

\* Publishing a transaction is one operation of AtomicRecords, whichever
\* requests are in progress beside it.
LEMMA PublishIsAtomic ==
    ASSUME TransactionsInvariant, NEW s \in Slots, pc[s] = "commit", Publish(s),
           clock' = clock
    PROVE  LET r == req[s] IN
           \/ /\ r.op = "register" /\ "linkExternalIdentity" \in written[s]
              /\ RegisterPerson(r.subject, r.person, r.email)
           \/ /\ r.op = "create" /\ "createOrganisation" \in written[s]
              /\ CreateOrganisationWithOwner(r.person, r.organisation, r.sbi)
           \/ /\ r.op = "invite"
              /\ InviteToOrganisation(r.person, r.organisation, r.invitation,
                                      r.email, r.permission, r.issued)
           \/ /\ r.op = "accept"
              /\ "markInvitationAccepted" \in written[s] /\ "addMembership" \in written[s]
              /\ \E p \in people, i \in invitations :
                    /\ p.id = r.person
                    /\ i.id = r.invitation /\ i.organisation = r.organisation
                    /\ AcceptInvitation(p, i, r.now)
<1> DEFINE r == req[s]
<1>1. SlotInvariant(s) /\ TypeOK /\ Consistent
  BY DEF TransactionsInvariant
<1>2. CASE /\ r.op = "register"
           /\ written[s] = {"createPerson", "linkExternalIdentity", "recordAuditEvent"}
  <2>1. /\ people' = people \cup {NewPerson(r)}
        /\ identities' = identities \cup {NewIdentity(r)}
        /\ auditEvents' = auditEvents \cup {Registered(r.person)}
        /\ UNCHANGED <<clock, organisations, memberships, invitations>>
    BY <1>2 DEF Publish, NewAuditEvent
  <2>2. /\ \A p \in people : p.id # r.person
        /\ \A i \in identities : i.subject # r.subject
    BY <1>1, <1>2 DEF SlotInvariant, StillHolds
  <2>3. RegisterPerson(r.subject, r.person, r.email)
    BY <2>1, <2>2 DEF RegisterPerson, NewPerson, NewIdentity
  <2>4. QED
    BY <1>2, <2>3
<1>3. CASE /\ r.op = "create"
           /\ written[s] = {"createOrganisation", "addMembership", "recordAuditEvent"}
  <2>1. /\ organisations' = organisations \cup {NewOrganisation(r)}
        /\ memberships' = memberships \cup {NewMembership(r)}
        /\ auditEvents' = auditEvents \cup {Created(r.person, r.organisation)}
        /\ UNCHANGED <<clock, people, identities, invitations>>
    BY <1>3 DEF Publish, NewAuditEvent
  <2>2. /\ \E p \in people : p.id = r.person
        /\ \A o \in organisations : o.id # r.organisation /\ o.sbi # r.sbi
    BY <1>1, <1>3 DEF SlotInvariant, StillHolds
  <2>3. NewMembership(r) = Owner(r.organisation, r.person)
    BY <1>1, <1>3 DEF SlotInvariant, RequestIsComplete, NewMembership, Owner
  <2>4. CreateOrganisationWithOwner(r.person, r.organisation, r.sbi)
    BY <2>1, <2>2, <2>3 DEF CreateOrganisationWithOwner, NewOrganisation
  <2>5. QED
    BY <1>3, <2>4
<1>4. CASE /\ r.op = "invite"
           /\ written[s] = {"createInvitation", "recordAuditEvent"}
  <2>1. /\ invitations' = invitations \cup {NewInvitation(r)}
        /\ auditEvents' = auditEvents \cup {Invited(r.person, r.organisation, r.invitation)}
        /\ UNCHANGED <<clock, people, identities, organisations, memberships>>
    BY <1>4 DEF Publish, NewAuditEvent
  <2>2. /\ Owner(r.organisation, r.person) \in memberships
        /\ \A i \in invitations : i.id # r.invitation
        /\ r.issued <= clock
    BY <1>1, <1>4 DEF SlotInvariant, StillHolds
  <2>3. Lower[r.email] = r.email
    BY <1>1, <1>4 DEF SlotInvariant, RequestIsComplete
  <2>4. InviteToOrganisation(r.person, r.organisation, r.invitation,
                             r.email, r.permission, r.issued)
    BY <2>1, <2>2, <2>3 DEF InviteToOrganisation, NewInvitation
  <2>5. QED
    BY <1>4, <2>4
<1>5. CASE /\ r.op = "accept"
           /\ written[s] = {"markInvitationAccepted", "addMembership", "recordAuditEvent"}
  <2>1. /\ invitations' = {IF i.id = r.invitation THEN [i EXCEPT !.acceptedAt = r.now] ELSE i
                              : i \in invitations}
        /\ memberships' = memberships \cup {NewMembership(r)}
        /\ auditEvents' = auditEvents \cup {Accepted(r.person, r.organisation, r.invitation)}
        /\ UNCHANGED <<clock, people, identities, organisations>>
    BY <1>5 DEF Publish, NewAuditEvent
  <2>2. PICK p \in people : p.id = r.person /\ p.email = r.email
    BY <1>1, <1>5 DEF SlotInvariant, StillHolds
  <2>3. PICK i \in invitations :
          /\ i.id = r.invitation /\ i.organisation = r.organisation
          /\ i.permission = r.permission /\ i.email = Lower[r.email]
          /\ i.acceptedAt = None /\ r.now < i.expiresAt
    BY <1>1, <1>5 DEF SlotInvariant, StillHolds
  <2>4. /\ r.now <= clock
        /\ \A m \in memberships : ~(m.organisation = r.organisation /\ m.person = r.person)
    BY <1>1, <1>5 DEF SlotInvariant, StillHolds, Reads
  <2>5. invitations' = (invitations \ {i}) \cup {[i EXCEPT !.acceptedAt = r.now]}
    <3>1. \A k \in invitations : k.id = r.invitation <=> k = i
      BY <1>1, <2>3 DEF Consistent, IdsAreKeys
    <3>2. QED
      BY <2>1, <3>1
  <2>6. AcceptInvitation(p, i, r.now)
    BY <2>1, <2>2, <2>3, <2>4, <2>5 DEF AcceptInvitation, NewMembership
  <2>7. QED
    BY <1>5, <2>2, <2>3, <2>6
<1>6. QED
  BY <1>1, <1>2, <1>3, <1>4, <1>5 DEF SlotInvariant, WrittenInOrder

LEMMA PublishIsAtomicNext ==
    ASSUME TransactionsInvariant, NEW s \in Slots, pc[s] = "commit", Publish(s),
           clock' = clock
    PROVE  AtomicNext
<1>1. SlotInvariant(s) /\ TypeOK
  BY DEF TransactionsInvariant
<1>2. /\ req[s].now \in Time /\ req[s].issued \in Time
  BY <1>1 DEF TypeOK, Requests
<1>3. /\ req[s].op # None => req[s].person \in People
      /\ req[s].op = "register" => req[s].subject \in Subjects /\ req[s].email \in Emails
      /\ req[s].op = "create" => req[s].organisation \in Organisations /\ req[s].sbi \in Sbis
      /\ req[s].op = "invite" =>
             /\ req[s].organisation \in Organisations /\ req[s].invitation \in Invitations
             /\ req[s].email \in Emails /\ req[s].permission \in Permissions
      /\ req[s].op \in Operations
  BY <1>1 DEF SlotInvariant, RequestIsComplete, InTransaction
<1>4. req[s].op # None
  BY <1>3, NoneIsNoOperation
<1>5. QED
  BY <1>2, <1>3, <1>4, PublishIsAtomic DEF AtomicNext

\* What the other requests rely on survives the commit.
LEMMA CommitKeepsOthers ==
    ASSUME TransactionsInvariant, NEW s \in Slots, pc[s] = "commit", Publish(s),
           clock' = clock, NEW t \in Slots \ {s},
           pc'[t] = pc[t], req'[t] = req[t], written'[t] = written[t]
    PROVE  StillHolds(t)'
<1> DEFINE q == req[s]
           r == req[t]
<1>1. SlotInvariant(s) /\ SlotInvariant(t) /\ Exclusive(s, t) /\ Consistent /\ TypeOK
  BY DEF TransactionsInvariant
<1>2. StillHolds(t)
  BY <1>1 DEF SlotInvariant
<1>3. CASE /\ q.op = "register" /\ "linkExternalIdentity" \in written[s]
           /\ RegisterPerson(q.subject, q.person, q.email)
  <2>1. /\ \A p \in people' : p \in people \/ p.id = q.person
        /\ \A i \in identities' : i \in identities \/ i.subject = q.subject
        /\ people \subseteq people'
        /\ UNCHANGED <<organisations, memberships, invitations>>
    BY <1>3 DEF RegisterPerson
  <2>2. QED
    BY <1>1, <1>2, <1>3, <2>1 DEF StillHolds, Exclusive
<1>4. CASE /\ q.op = "create" /\ "createOrganisation" \in written[s]
           /\ CreateOrganisationWithOwner(q.person, q.organisation, q.sbi)
  <2>1. /\ \A o \in organisations' : o \in organisations \/ (o.id = q.organisation /\ o.sbi = q.sbi)
        /\ \A m \in memberships' : m \in memberships \/ m.organisation = q.organisation
        /\ memberships \subseteq memberships'
        /\ UNCHANGED <<people, identities, invitations>>
    BY <1>4 DEF CreateOrganisationWithOwner, Owner
  <2>2. \A i \in invitations : i.organisation # q.organisation
    BY <1>1, <1>4 DEF CreateOrganisationWithOwner, Consistent, ReferencesResolve
  <2>3. r.op = "accept" /\ "addMembership" \in written[t] => r.organisation # q.organisation
    BY <1>1, <1>2, <2>2 DEF SlotInvariant, WrittenInOrder, StillHolds, Reads, Writes
  <2>4. QED
    BY <1>1, <1>2, <1>4, <2>1, <2>3 DEF StillHolds, Exclusive, Owner
<1>5. CASE /\ q.op = "invite"
           /\ InviteToOrganisation(q.person, q.organisation, q.invitation,
                                   q.email, q.permission, q.issued)
  <2>1. /\ \A i \in invitations' : i \in invitations \/ i.id = q.invitation
        /\ invitations \subseteq invitations'
        /\ UNCHANGED <<people, identities, organisations, memberships>>
    BY <1>5 DEF InviteToOrganisation
  <2>2. QED
    BY <1>1, <1>2, <1>5, <2>1 DEF StillHolds, Exclusive, Owner
<1>6. ASSUME q.op = "accept",
             "markInvitationAccepted" \in written[s], "addMembership" \in written[s],
             NEW p \in people, NEW i \in invitations,
             p.id = q.person, i.id = q.invitation, i.organisation = q.organisation,
             AcceptInvitation(p, i, q.now)
      PROVE  StillHolds(t)'
  <2> DEFINE j == [i EXCEPT !.acceptedAt = q.now]
  <2>1. i \in InvitationRow
    BY <1>1 DEF TypeOK, RecordsTypeOK
  <2>2. /\ j.id = i.id /\ j.organisation = i.organisation /\ j.permission = i.permission
        /\ j.email = i.email
    BY <2>1 DEF InvitationRow
  <2>3. /\ j \in invitations' /\ \A k \in invitations : k \in invitations' \/ k = i
        /\ \A k \in invitations' : k \in invitations \/ k = j
        /\ \A m \in memberships' : \/ m \in memberships
                                   \/ m.organisation = q.organisation /\ m.person = q.person
        /\ memberships \subseteq memberships'
        /\ UNCHANGED <<people, identities, organisations>>
    BY <1>6 DEF AcceptInvitation
  <2> HIDE DEF j
  <2>4. QED
    BY <1>1, <1>2, <1>6, <2>2, <2>3 DEF StillHolds, Exclusive, Owner
<1>7. QED
  BY <1>3, <1>4, <1>5, <1>6, PublishIsAtomic

LEMMA CommitKeepsInvariant ==
    ASSUME TransactionsInvariant, NEW s \in Slots, NEW outcome \in Answers,
           CommitTransaction(s, outcome)
    PROVE  TransactionsInvariant'
<1>1. /\ pc[s] = "commit" /\ Publish(s) /\ clock' = clock /\ req' = req
      /\ TypeOK /\ Consistent /\ SlotInvariant(s)
  BY DEF CommitTransaction, TransactionsInvariant
<1>2. /\ pc' = [pc EXCEPT ![s] = "answered"]
      /\ written' = [written EXCEPT ![s] = {}]
      /\ connected' = connected \ {s}
      /\ answer' = [answer EXCEPT ![s] = outcome]
  BY DEF CommitTransaction, Quit, Goto
<1>3. Consistent'
  BY <1>1, PublishIsAtomicNext, AtomicNextKeepsConsistent
<1>4. TypeOK'
  BY <1>1, <1>2, <1>3 DEF Consistent, TypeOK, Control
<1>5. SlotInvariant(s)'
  BY <1>1, <1>2 DEF TypeOK, SlotInvariant, RequestIsComplete, WrittenInOrder, StillHolds,
                    InTransaction, Writes, Reads
<1>6. ASSUME NEW t \in Slots \ {s} PROVE SlotInvariant(t)'
  <2>1. /\ SlotInvariant(t)
        /\ pc'[t] = pc[t] /\ req'[t] = req[t] /\ written'[t] = written[t]
        /\ (t \in connected' <=> t \in connected)
    BY <1>1, <1>2 DEF TransactionsInvariant, TypeOK
  <2>2. RequestIsComplete(t)' /\ WrittenInOrder(t)'
    BY <2>1 DEF SlotInvariant, RequestIsComplete, WrittenInOrder
  <2>3. StillHolds(t)'
    BY <1>1, <2>1, CommitKeepsOthers
  <2>4. QED
    BY <2>2, <2>3 DEF SlotInvariant
<1>7. ASSUME NEW t \in Slots, NEW u \in Slots, t # u PROVE Exclusive(t, u)'
  <2>1. /\ Exclusive(t, u) /\ req' = req
        /\ written'[t] \subseteq written[t] /\ written'[u] \subseteq written[u]
    BY <1>1, <1>2, <1>7 DEF TransactionsInvariant, TypeOK
  <2>2. QED
    BY <2>1 DEF Exclusive
<1>8. QED
  BY <1>3, <1>4, <1>5, <1>6, <1>7 DEF TransactionsInvariant

-----------------------------------------------------------------------------
\* The process stops, and time passes.

LEMMA CrashKeepsInvariant ==
    ASSUME TransactionsInvariant, Crash
    PROVE  TransactionsInvariant'
<1>1. Consistent'
  <2>1. clock' \in Time /\ clock <= clock'
    BY DEF TransactionsInvariant, TypeOK, RecordsTypeOK, Crash, recordVars, Time
  <2>2. QED
    BY <2>1, UnchangedTablesKeepConsistent DEF TransactionsInvariant, Crash, recordVars
<1>2. TypeOK'
  BY <1>1, NoRequestIsARequest DEF Consistent, Crash, TypeOK, Control
<1>3. NoRequest.op = None /\ None \notin Operations
  BY NoneIsNoOperation DEF NoRequest
<1>4. ASSUME NEW s \in Slots PROVE SlotInvariant(s)'
  BY <1>3 DEF Crash, SlotInvariant, RequestIsComplete, WrittenInOrder, StillHolds,
              InTransaction, Writes, Reads, Operations
<1>5. ASSUME NEW s \in Slots, NEW t \in Slots, s # t PROVE Exclusive(s, t)'
  BY <1>3 DEF Crash, Exclusive, Operations
<1>6. QED
  BY <1>1, <1>2, <1>4, <1>5 DEF TransactionsInvariant

LEMMA TickKeepsInvariant ==
    ASSUME TransactionsInvariant, Tick
    PROVE  TransactionsInvariant'
<1>1. clock \in Nat /\ clock' = clock + 1 /\ clock' \in Time
  BY ClockAssumption DEF TransactionsInvariant, TypeOK, RecordsTypeOK, Tick, Time
<1>2. Consistent'
  BY <1>1, UnchangedTablesKeepConsistent DEF TransactionsInvariant, Tick
<1>3. TypeOK'
  BY <1>2 DEF Consistent, TransactionsInvariant, TypeOK, Tick
<1>4. ASSUME NEW s \in Slots PROVE SlotInvariant(s)'
  <2>1. SlotInvariant(s) /\ req[s].now \in Nat /\ req[s].issued \in Nat
    BY DEF TransactionsInvariant, TypeOK, Requests, Time
  <2>2. RequestIsComplete(s)' /\ WrittenInOrder(s)'
    BY <2>1 DEF Tick, SlotInvariant, RequestIsComplete, WrittenInOrder
  <2>3. StillHolds(s)'
    BY <1>1, <2>1 DEF Tick, SlotInvariant, StillHolds
  <2>4. QED
    BY <2>2, <2>3 DEF SlotInvariant
<1>5. ASSUME NEW s \in Slots, NEW t \in Slots, s # t PROVE Exclusive(s, t)'
  BY <1>5 DEF TransactionsInvariant, Tick, Exclusive
<1>6. QED
  BY <1>2, <1>3, <1>4, <1>5 DEF TransactionsInvariant

-----------------------------------------------------------------------------
\* The theorems.

\* A process that has just started, with whatever consistent rows its database
\* has: the first start of all, and every later one.
AtRest ==
    /\ Consistent
    /\ pc = [s \in Slots |-> "idle"]
    /\ req = [s \in Slots |-> NoRequest]
    /\ written = [s \in Slots |-> {}]
    /\ connected = {}
    /\ answer = [s \in Slots |-> None]

LEMMA InitIsAtRest == Init => AtRest
  BY EmptyIsConsistent DEF Init, AtRest

LEMMA RestHasInvariant == AtRest => TransactionsInvariant
<1> SUFFICES ASSUME AtRest PROVE TransactionsInvariant
  OBVIOUS
<1>1. NoRequest.op = None /\ None \notin Operations
  BY NoneIsNoOperation DEF NoRequest
<1>2. Consistent
  BY DEF AtRest
<1>3. TypeOK
  BY <1>2, NoRequestIsARequest DEF AtRest, Consistent, TypeOK, Control
<1>4. ASSUME NEW s \in Slots PROVE SlotInvariant(s)
  BY <1>1 DEF AtRest, SlotInvariant, RequestIsComplete, WrittenInOrder, StillHolds,
              InTransaction, Writes, Reads, Operations
<1>5. ASSUME NEW s \in Slots, NEW t \in Slots PROVE Exclusive(s, t)
  BY <1>1 DEF AtRest, Exclusive, Operations
<1>6. QED
  BY <1>2, <1>3, <1>4, <1>5 DEF TransactionsInvariant

\* Any step of a slot either commits its transaction or leaves the tables alone,
\* and keeps the invariant.
LEMMA SlotKeepsInvariant ==
    ASSUME TransactionsInvariant, NEW s \in Slots, Arrival(s) \/ Step(s) \/ Failure(s)
    PROVE  TransactionsInvariant'
<1>1. CASE Arrival(s)
  BY <1>1, ArriveRegisterKeepsInvariant, ArriveCreateKeepsInvariant,
     ArriveInviteKeepsInvariant, ArriveAcceptKeepsInvariant DEF Arrival
<1>2. CASE Commit(s)
  <2>1. pc[s] = "commit" /\ SlotInvariant(s)
    BY <1>2 DEF Commit, CommitTransaction, TransactionsInvariant
  <2>2. SuccessOf(req[s].op) \in Answers
    BY <2>1 DEF SlotInvariant, RequestIsComplete, InTransaction, Operations, SuccessOf, Answers
  <2>3. QED
    BY <1>2, <2>2, CommitKeepsInvariant DEF Commit
<1>3. CASE CommitLost(s)
  BY <1>3, CommitKeepsInvariant DEF CommitLost, Answers
<1>4. CASE Rollback(s)
  BY <1>4, QuitKeepsInvariant DEF Rollback, TransactionsInvariant, TypeOK
<1>5. CASE StatementFails(s)
  BY <1>5, QuitKeepsInvariant DEF StatementFails, Answers, Reads, InTransaction, Writes
<1>6. QED
  BY <1>1, <1>2, <1>3, <1>4, <1>5,
     RequireMembershipKeepsInvariant, GetInvitationByTokenKeepsInvariant,
     BeginTransactionKeepsInvariant, CreatePersonKeepsInvariant,
     LinkExternalIdentityKeepsInvariant, CreateOrganisationKeepsInvariant,
     AddMembershipKeepsInvariant, CreateInvitationKeepsInvariant,
     MarkInvitationAcceptedKeepsInvariant, RecordAuditEventKeepsInvariant,
     DeliverKeepsInvariant
  DEF Step, Failure

LEMMA NextKeepsInvariant == TransactionsInvariant /\ [Next]_vars => TransactionsInvariant'
<1> SUFFICES ASSUME TransactionsInvariant, [Next]_vars PROVE TransactionsInvariant'
  OBVIOUS
<1>1. CASE UNCHANGED vars
  <2>1. clock' \in Time /\ clock <= clock'
    BY <1>1 DEF TransactionsInvariant, TypeOK, RecordsTypeOK, vars, Time
  <2>2. Consistent'
    BY <1>1, <2>1, UnchangedTablesKeepConsistent DEF TransactionsInvariant, vars
  <2>3. TypeOK'
    BY <1>1, <2>2 DEF Consistent, TransactionsInvariant, TypeOK, vars
  <2>4. ASSUME NEW s \in Slots PROVE SlotInvariant(s)'
    BY <1>1 DEF TransactionsInvariant, vars, SlotInvariant, RequestIsComplete,
                WrittenInOrder, StillHolds
  <2>5. ASSUME NEW s \in Slots, NEW t \in Slots, s # t PROVE Exclusive(s, t)'
    BY <1>1, <2>5 DEF TransactionsInvariant, vars, Exclusive
  <2>6. QED
    BY <2>2, <2>3, <2>4, <2>5 DEF TransactionsInvariant
<1>2. QED
  BY <1>1, SlotKeepsInvariant, CrashKeepsInvariant, TickKeepsInvariant DEF Next

LEMMA NextIsAtomic == TransactionsInvariant /\ [Next]_vars => [AtomicNext]_recordVars
<1> SUFFICES ASSUME TransactionsInvariant, Next PROVE AtomicNext \/ UNCHANGED recordVars
  BY DEF vars, recordVars
<1>1. ASSUME NEW s \in Slots, Arrival(s)
      PROVE  UNCHANGED recordVars
  BY <1>1 DEF Arrival, ArriveRegister, ArriveCreate, ArriveInvite, ArriveAccept, Arrive
<1>2. ASSUME NEW s \in Slots, Commit(s) \/ CommitLost(s)
      PROVE  AtomicNext
  BY <1>2, PublishIsAtomicNext DEF Commit, CommitLost, CommitTransaction
<1>3. ASSUME NEW s \in Slots, StatementFails(s) \/ Rollback(s) \/ Deliver(s)
      PROVE  UNCHANGED recordVars
  BY <1>3 DEF StatementFails, Rollback, Deliver
<1>4. ASSUME NEW s \in Slots,
             RequireMembership(s) \/ GetInvitationByToken(s) \/ BeginTransaction(s)
      PROVE  UNCHANGED recordVars
  BY <1>4 DEF RequireMembership, GetInvitationByToken, BeginTransaction, Refuse
<1>5. ASSUME NEW s \in Slots,
             \/ CreatePerson(s) \/ LinkExternalIdentity(s) \/ CreateOrganisation(s)
             \/ AddMembership(s) \/ CreateInvitation(s) \/ MarkInvitationAccepted(s)
             \/ RecordAuditEvent(s)
      PROVE  UNCHANGED recordVars
  BY <1>5 DEF CreatePerson, LinkExternalIdentity, CreateOrganisation, AddMembership,
              CreateInvitation, MarkInvitationAccepted, RecordAuditEvent, Statement, Throw
<1>6. CASE Crash
  BY <1>6 DEF Crash
<1>7. CASE Tick
  BY <1>7 DEF Tick, AtomicNext, TimePasses
<1>8. QED
  BY <1>1, <1>2, <1>3, <1>4, <1>5, <1>6, <1>7 DEF Next, Step, Failure

\* No request ever acts on something that is no longer so, whatever the rows the
\* process finds when it starts ...
THEOREM InvariantHoldsInUse == AtRest /\ [][Next]_vars => []TransactionsInvariant
<1>1. QED
  BY RestHasInvariant, NextKeepsInvariant, PTL

\* ... and so from the empty database on.
THEOREM InvariantHolds == Spec => []TransactionsInvariant
<1>1. QED
  BY InitIsAtRest, InvariantHoldsInUse, PTL DEF Spec

\* StepsAreAtomic: whatever the process starts from, each COMMIT is one whole
\* operation of AtomicRecords, and no other step changes the tables.
THEOREM StepsStayAtomic == AtRest /\ [][Next]_vars => StepsAreAtomic
<1>1. QED
  BY NextIsAtomic, InvariantHoldsInUse, PTL DEF StepsAreAtomic

\* Types, in every reachable state.
THEOREM TypesHold == Spec => []TypeOK
<1>1. TransactionsInvariant => TypeOK
  BY DEF TransactionsInvariant
<1>2. QED
  BY <1>1, InvariantHolds, PTL

\* withTransaction, the unique keys and the conditional update together make
\* every service operation atomic, for any number of requests in progress.
THEOREM RefinesAtomicRecords == Spec => ImplementsAtomicRecords
<1>1. Init => EmptyRecords
  BY DEF Init
<1>2. QED
  BY <1>1, NextIsAtomic, InvariantHolds, PTL DEF Spec, ImplementsAtomicRecords, AtomicSpec

\* What the tables are like, whatever the requests, failures and crashes.
LEMMA TablesAreRight ==
    TransactionsInvariant =>
        /\ EveryPersonHasOneIdentity /\ SbiIsUnique /\ EveryOrganisationHasOwner
        /\ OneMembershipPerPerson /\ InvitersAreOwners /\ MembershipIsEarned
        /\ AcceptedInTime /\ OneAcceptancePerInvitation /\ AuditMatchesRecords
  BY DEF TransactionsInvariant, Consistent

\* One account is one person, though createPerson runs before the account's key
\* is claimed: a rollback takes both away.
THEOREM AccountsStayUnique == Spec => []EveryPersonHasOneIdentity
<1>1. QED
  BY TablesAreRight, InvariantHolds, PTL

\* An SBI is one business, however many transactions insert it at once.
THEOREM SbisStayUnique == Spec => []SbiIsUnique
<1>1. QED
  BY TablesAreRight, InvariantHolds, PTL

\* No business is ever seen without an owner, whichever statement fails.
THEOREM OwnersStay == Spec => []EveryOrganisationHasOwner
<1>1. QED
  BY TablesAreRight, InvariantHolds, PTL

\* A person is in a business once, whichever invitations to it are accepted at
\* once.
THEOREM MembershipsStayUnique == Spec => []OneMembershipPerPerson
<1>1. QED
  BY TablesAreRight, InvariantHolds, PTL

\* Whoever invited was an owner at the COMMIT, and still is, though the
\* pre-handler asked on another connection, before.
THEOREM OnlyOwnersInvite == Spec => []InvitersAreOwners
<1>1. QED
  BY TablesAreRight, InvariantHolds, PTL

\* Nobody is in a business who neither created it nor accepted an invitation to
\* it, addressed to them and of that permission.
THEOREM MembershipsStayEarned == Spec => []MembershipIsEarned
<1>1. QED
  BY TablesAreRight, InvariantHolds, PTL

\* An invitation that expires between the read and the claim is not accepted.
THEOREM AcceptancesAreInTime == Spec => []AcceptedInTime
<1>1. QED
  BY TablesAreRight, InvariantHolds, PTL

\* A link admits one person, however many claim it at once.
THEOREM LinksAdmitOnce == Spec => []OneAcceptancePerInvitation
<1>1. QED
  BY TablesAreRight, InvariantHolds, PTL

\* The audit trail has an event for every record and a record for every event,
\* whatever was rolled back, lost or retried.
THEOREM AuditTrailIsTrue == Spec => []AuditMatchesRecords
<1>1. QED
  BY TablesAreRight, InvariantHolds, PTL

-----------------------------------------------------------------------------
\* Waits end.  A request waits for the pool before it has written anything, and
\* for a row only while the holder of that row is further on than it is: a chain
\* of waits has at most three links.

LEMMA LateStatementsDoNotWait ==
    ASSUME NEW s \in Slots, pc[s] \in {"recordAuditEvent", "commit"}
    PROVE  WaitsFor(s) = {}
  BY DEF WaitsFor, NeedsClient, OnThePool, Reads, RowLockHolders

LEMMA HoldersAreFurtherOn ==
    ASSUME NEW s \in Slots, NEW t \in Slots, SlotInvariant(t), t \in RowLockHolders(s)
    PROVE  /\ pc[t] \in {"addMembership", "recordAuditEvent", "commit"}
           /\ pc[s] = "addMembership" => pc[t] # "addMembership"
  BY DEF SlotInvariant, WrittenInOrder, RowLockHolders, Writes

LEMMA InvariantExcludesDeadlock == TransactionsInvariant => NoDeadlock
<1> SUFFICES ASSUME TransactionsInvariant, NEW D \in (SUBSET Slots) \ {{}},
                    \A s \in D : WaitsFor(s) # {} /\ WaitsFor(s) \subseteq D
             PROVE  FALSE
  BY DEF NoDeadlock
<1>1. ASSUME NEW s \in D PROVE s \in Slots /\ SlotInvariant(s)
  BY DEF TransactionsInvariant
<1>2. PICK t \in D : WaitsFor(t) = RowLockHolders(t)
  <2>1. PICK s \in D : TRUE
    OBVIOUS
  <2>2. CASE NeedsClient(s) /\ ~PoolHasClient
    <3>1. PICK t \in D : t \in connected
      BY <2>2 DEF WaitsFor
    <3>2. pc[t] \in InTransaction
      BY <1>1, <3>1 DEF SlotInvariant, WrittenInOrder
    <3>3. ~NeedsClient(t)
      BY <3>2 DEF NeedsClient, OnThePool, Reads, InTransaction, Writes
    <3>4. QED
      BY <3>3 DEF WaitsFor
  <2>3. CASE ~(NeedsClient(s) /\ ~PoolHasClient)
    BY <2>3 DEF WaitsFor
  <2>4. QED
    BY <2>2, <2>3
<1>3. PICK u \in D : u \in RowLockHolders(t)
  BY <1>2
<1>4. pc[u] = "addMembership"
  BY <1>1, <1>3, HoldersAreFurtherOn, LateStatementsDoNotWait
<1>5. WaitsFor(u) = RowLockHolders(u)
  BY <1>4 DEF WaitsFor, NeedsClient, OnThePool, Reads
<1>6. PICK v \in D : v \in RowLockHolders(u)
  BY <1>5
<1>7. pc[v] \in {"recordAuditEvent", "commit"}
  BY <1>1, <1>4, <1>6, HoldersAreFurtherOn
<1>8. QED
  BY <1>1, <1>7, LateStatementsDoNotWait

\* Neither the pool nor the row locks can leave a set of requests waiting only
\* for each other, whatever the size of the pool.
THEOREM NoRequestsDeadlock == Spec => []NoDeadlock
<1>1. QED
  BY InvariantExcludesDeadlock, InvariantHolds, PTL

=============================================================================
