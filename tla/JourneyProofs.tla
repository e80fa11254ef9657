---------------------------- MODULE JourneyProofs ----------------------------
(***************************************************************************)
(* Sessions do not change hands, for any number of browsers, accounts and  *)
(* requests: each session id stands for one account, in Redis and in every *)
(* request that acts with it, because createSession takes a new id and     *)
(* updateSession writes a record of the id it has read.                    *)
(***************************************************************************)
EXTENDS Journey, TLAPS

\* A record's person, if it has one, is that of its account, and registered.
Owned(record) ==
    record.person # None => record.person = record.subject /\ people[record.subject] # None

\* Requests past the guard, with a session; callbacks before their session.
Acting(s) ==
    /\ pc[s] \in {"handle", "register", "getSession", "setSession"}
    /\ request[s].route \notin Unguarded

Pending(s) ==
    /\ pc[s] \in {"load", "handle", "findPerson", "createSession"}
    /\ request[s].newSid # None

\* What a request carries fits how far it is.
CarriesItsOwn(s) ==
    LET r == request[s] IN
    /\ r \in Request
    /\ r.sid # None => r.sid \in generated
    /\ r.newSid # None => r.newSid \in generated /\ r.route = "callback"
    /\ r.route = "start" => r.flow # None
    /\ pc[s] \in {"respond", "deliver"} /\ r.outcome = "started" => r.flow # None
    /\ pc[s] \in {"authenticate", "register", "getSession", "setSession"} => r.route \notin Unguarded
    /\ pc[s] \in {"findPerson", "createSession"} => r.route = "callback"
    /\ r.route = "callback" /\ pc[s] \in {"load", "handle", "findPerson", "createSession"} =>
           r.account # None /\ r.newSid # None
    /\ pc[s] = "createSession" => r.session \in Record /\ Owned(r.session)
    /\ pc[s] = "register" => r.store.name # None /\ r.store.contact # None
    /\ pc[s] \in {"getSession", "setSession"} =>
           r.account = r.session.subject /\ people[r.account] # None
    /\ Acting(s) => r.sid # None /\ r.session # None /\ Owned(r.session)
    /\ pc[s] = "handle" /\ r.route \in Business => r.session.person # None

\* ... and what Redis and the browsers have: one account for each session id,
\* none yet for an id that is only generated.
FitsRedis(s) ==
    LET r == request[s] IN
    /\ Acting(s) /\ cache[r.sid] # None => cache[r.sid].subject = r.session.subject
    /\ Pending(s) => /\ cache[r.newSid] = None
                     /\ r.sid # r.newSid
                     /\ \A b \in Browsers : sid[b] # r.newSid

RequestInvariant(s) == pc[s] # "idle" => CarriesItsOwn(s) /\ FitsRedis(s)

\* ... and what other requests carry.
Apart(s, t) ==
    pc[s] # "idle" /\ pc[t] # "idle" =>
    /\ request[s].newSid # None => request[s].newSid # request[t].newSid
    /\ Pending(s) => request[t].sid # request[s].newSid
    /\ Acting(s) /\ Acting(t) /\ request[s].sid = request[t].sid =>
           request[s].session.subject = request[t].session.subject

SessionsOwned == \A k \in SessionIds : cache[k] # None => k \in generated /\ Owned(cache[k])

CookiesKnown == \A b \in Browsers : sid[b] # None => sid[b] \in generated

JourneyInvariant ==
    /\ TypeOK
    /\ SessionsOwned
    /\ CookiesKnown
    /\ \A s \in Slots : RequestInvariant(s)
    /\ \A s \in Slots : \A t \in Slots \ {s} : Apart(s, t)

\* TypeOK without what a slot does.
SharedTypesOK ==
    /\ cache \in [SessionIds -> Record \cup {None}]
    /\ yar \in [Browsers -> Store]
    /\ people \in [Subjects -> Answers \cup {None}]
    /\ sid \in [Browsers -> SessionIds \cup {None}]
    /\ bell \in [Browsers -> Flows \cup {None}]
    /\ generated \subseteq Flows \cup SessionIds
    /\ asked \in [Browsers -> SUBSET Flows]
    /\ failures \in 0 .. MaxFailures
    /\ dropped \subseteq SessionIds
    /\ followed \in [Browsers -> Links \cup {None}]

\* Nobody is registered again or forgotten, no id is generated again.
Grows ==
    /\ \A a \in Subjects : people[a] # None => people'[a] = people[a]
    /\ generated \subseteq generated'

-----------------------------------------------------------------------------
\* A step of one slot, which leaves the others what they rely on.
LEMMA OneSlotStep ==
    ASSUME JourneyInvariant, NEW s \in Slots,
           NEW w \in Request \cup {None}, NEW label \in Control,
           pc' = [pc EXCEPT ![s] = label], request' = [request EXCEPT ![s] = w],
           SharedTypesOK', Grows, SessionsOwned', CookiesKnown',
           RequestInvariant(s)',
           \A t \in Slots \ {s} : pc[t] # "idle" =>
               /\ Acting(t) /\ cache'[request[t].sid] # None =>
                      cache'[request[t].sid].subject = request[t].session.subject
               /\ Pending(t) => /\ cache'[request[t].newSid] = None
                                /\ \A b \in Browsers : sid'[b] # request[t].newSid,
           \A t \in Slots \ {s} : Apart(s, t)' /\ Apart(t, s)'
    PROVE  JourneyInvariant'
<1>1. /\ pc \in [Slots -> Control] /\ request \in [Slots -> Request \cup {None}]
      /\ people \in [Subjects -> Answers \cup {None}]
  BY DEF JourneyInvariant, TypeOK
<1>2. /\ pc' \in [Slots -> Control] /\ request' \in [Slots -> Request \cup {None}]
      /\ \A t \in Slots \ {s} : pc'[t] = pc[t] /\ request'[t] = request[t]
  BY <1>1
<1>3. TypeOK'
  BY <1>2 DEF TypeOK, SharedTypesOK
<1>4. ASSUME NEW t \in Slots \ {s} PROVE RequestInvariant(t)'
  <2> SUFFICES ASSUME pc[t] # "idle" PROVE CarriesItsOwn(t)' /\ FitsRedis(t)'
    BY <1>2 DEF RequestInvariant
  <2>1. CarriesItsOwn(t) /\ FitsRedis(t)
    BY DEF JourneyInvariant, RequestInvariant
  <2>2. (Acting(t)' <=> Acting(t)) /\ (Pending(t)' <=> Pending(t))
    BY <1>2 DEF Acting, Pending
  <2>3. FitsRedis(t)'
    BY <1>2, <2>1, <2>2 DEF FitsRedis
  <2>4. \A record \in Record : Owned(record) => Owned(record)'
    BY DEF Owned, Grows, Record
  <2>5. request[t] \in Request
    BY <2>1 DEF CarriesItsOwn
  <2>6. request[t].session # None => request[t].session \in Record
    BY <2>5 DEF Request
  <2>7. request[t].account # None => request[t].account \in Subjects
    BY <2>5 DEF Request
  <2>8. Acting(t) => Owned(request[t].session)'
    BY <2>1, <2>4, <2>6 DEF CarriesItsOwn
  <2>9. pc[t] = "createSession" => Owned(request[t].session)'
    BY <2>1, <2>4 DEF CarriesItsOwn
  <2>10. pc[t] \in {"getSession", "setSession"} => people'[request[t].account] # None
    <3>1. SUFFICES ASSUME pc[t] \in {"getSession", "setSession"}
                   PROVE  people'[request[t].account] # None
      OBVIOUS
    <3>2. Acting(t)
      BY <2>1, <3>1 DEF CarriesItsOwn, Acting
    <3>3. request[t].account \in Subjects
      BY <2>1, <2>6, <3>1, <3>2 DEF CarriesItsOwn, Record
    <3>4. QED
      BY <2>1, <3>1, <3>3 DEF CarriesItsOwn, Grows
  <2>11. CarriesItsOwn(t)'
    BY <1>2, <2>1, <2>2, <2>8, <2>9, <2>10 DEF CarriesItsOwn, Grows, Owned
  <2>12. QED
    BY <2>3, <2>11
<1>5. ASSUME NEW t \in Slots, NEW u \in Slots \ {t}, t # s, u # s PROVE Apart(t, u)'
  BY <1>2, <1>5 DEF JourneyInvariant, Apart, Acting, Pending
<1>6. QED
  BY <1>3, <1>4, <1>5 DEF JourneyInvariant

\* A step of a request that stays the same session's: it neither becomes one
\* that acts nor waits for a session of its own by it.
LEMMA SameSessionStep ==
    ASSUME JourneyInvariant, NEW s \in Slots, pc[s] # "idle",
           NEW w \in Request, NEW label \in Control \ {"idle"},
           pc' = [pc EXCEPT ![s] = label], request' = [request EXCEPT ![s] = w],
           w.sid = request[s].sid, w.newSid = request[s].newSid,
           UNCHANGED <<sid, generated>>,
           \A k \in SessionIds : cache'[k] \in {cache[k], None},
           SharedTypesOK', Grows,
           CarriesItsOwn(s)',
           Acting(s)' => Acting(s) /\ w.session.subject = request[s].session.subject,
           Pending(s)' => Pending(s)
    PROVE  JourneyInvariant'
<1>1. /\ request \in [Slots -> Request \cup {None}] /\ pc \in [Slots -> Control]
      /\ cache \in [SessionIds -> Record \cup {None}]
      /\ \A t \in Slots : pc[t] # "idle" => request[t] \in Request
  BY DEF JourneyInvariant, TypeOK, RequestInvariant, CarriesItsOwn
<1>2. /\ request'[s] = w /\ pc'[s] = label
      /\ \A t \in Slots \ {s} : pc'[t] = pc[t] /\ request'[t] = request[t]
  BY <1>1
<1>3. \A t \in Slots \ {s} : (Acting(t)' <=> Acting(t)) /\ (Pending(t)' <=> Pending(t))
  BY <1>2 DEF Acting, Pending
<1>4. \A t \in Slots : pc[t] # "idle" => FitsRedis(t) /\ CarriesItsOwn(t)
  BY DEF JourneyInvariant, RequestInvariant
<1>5. \A t \in Slots : pc[t] # "idle" /\ Acting(t) => request[t].sid \in SessionIds
  BY <1>1, <1>4 DEF CarriesItsOwn, Request
<1>6. \A t \in Slots : pc[t] # "idle" /\ Pending(t) => request[t].newSid \in SessionIds
  BY <1>1 DEF Pending, Request
<1>7. FitsRedis(s)'
  BY <1>2, <1>4, <1>5, <1>6 DEF FitsRedis
<1>8. ASSUME NEW t \in Slots \ {s} PROVE Apart(s, t)' /\ Apart(t, s)'
  BY <1>2, <1>3 DEF JourneyInvariant, Apart
<1>9. SessionsOwned'
  BY <1>1 DEF JourneyInvariant, SessionsOwned, Owned, Grows, Record
<1>10. CookiesKnown'
  BY DEF JourneyInvariant, CookiesKnown
<1>11. RequestInvariant(s)'
  BY <1>7 DEF RequestInvariant
<1>12. ASSUME NEW t \in Slots \ {s}, pc[t] # "idle"
       PROVE  /\ Acting(t) /\ cache'[request[t].sid] # None =>
                     cache'[request[t].sid].subject = request[t].session.subject
              /\ Pending(t) => /\ cache'[request[t].newSid] = None
                               /\ \A b \in Browsers : sid'[b] # request[t].newSid
  BY <1>4, <1>5, <1>6, <1>12 DEF FitsRedis
<1>13. QED
  BY <1>8, <1>9, <1>10, <1>11, <1>12, OneSlotStep

\* The handler is done; Redis may have lost records and the database gained one.
LEMMA FinishKeepsInvariant ==
    ASSUME JourneyInvariant, NEW s \in Slots, pc[s] # "idle",
           NEW store \in Store, NEW touched \in BOOLEAN, NEW outcome \in Outcomes,
           Finish(s, store, touched, outcome),
           outcome = "started" => request[s].flow # None,
           UNCHANGED <<sid, generated>>,
           \A k \in SessionIds : cache'[k] \in {cache[k], None},
           SharedTypesOK', Grows
    PROVE  JourneyInvariant'
<1> DEFINE r == request[s]
           w == [r EXCEPT !.store = store, !.touched = touched, !.outcome = outcome]
<1>1. /\ r \in Request /\ CarriesItsOwn(s)
      /\ request \in [Slots -> Request \cup {None}] /\ pc \in [Slots -> Control]
  BY DEF JourneyInvariant, TypeOK, RequestInvariant, CarriesItsOwn
<1>2. w \in Request
  BY <1>1 DEF Request
<1>3. request' = [request EXCEPT ![s] = w] /\ pc' = [pc EXCEPT ![s] = "respond"]
  BY <1>1 DEF Finish, Goto
<1>4. /\ w.sid = r.sid /\ w.newSid = r.newSid /\ w.route = r.route /\ w.flow = r.flow
      /\ w.outcome = outcome /\ w.session = r.session /\ w.account = r.account
  BY <1>1 DEF Request
<1> HIDE DEF w
<1>5. request'[s] = w /\ pc'[s] = "respond"
  BY <1>1, <1>3
<1>6. ~Acting(s)' /\ ~Pending(s)'
  BY <1>5 DEF Acting, Pending
<1>7. CarriesItsOwn(s)'
  BY <1>1, <1>2, <1>4, <1>5, <1>6 DEF CarriesItsOwn
<1>8. "respond" \in Control \ {"idle"}
  BY DEF Control
<1>9. QED
  BY <1>2, <1>3, <1>4, <1>6, <1>7, <1>8, SameSessionStep

\* The shared state of a step that leaves Redis and the database alone.
LEMMA LeavesSharedState ==
    ASSUME JourneyInvariant,
           UNCHANGED <<cache, people, sid, generated, yar, bell, asked>>,
           failures' \in 0 .. MaxFailures, dropped' \subseteq SessionIds,
           followed' \in [Browsers -> Links \cup {None}]
    PROVE  SharedTypesOK' /\ Grows /\ \A k \in SessionIds : cache'[k] \in {cache[k], None}
  BY DEF JourneyInvariant, TypeOK, SharedTypesOK, Grows

\* What the types say of a request in progress.
LEMMA RequestIsTyped ==
    ASSUME JourneyInvariant, NEW s \in Slots, pc[s] # "idle"
    PROVE  /\ request[s] \in Request /\ CarriesItsOwn(s) /\ FitsRedis(s)
           /\ request[s].browser \in Browsers /\ request[s].route \in AllRoutes
           /\ request[s].path \in Paths /\ request[s].flow \in Flows \cup {None}
           /\ request[s].sid \in SessionIds \cup {None}
           /\ request[s].newSid \in SessionIds \cup {None}
           /\ request[s].account \in Subjects \cup {None}
           /\ request[s].session \in Record \cup {None}
           /\ request[s].store \in Store /\ request[s].touched \in BOOLEAN
           /\ request[s].outcome \in Outcomes
<1>1. request[s] \in Request /\ CarriesItsOwn(s) /\ FitsRedis(s)
  BY DEF JourneyInvariant, RequestInvariant, CarriesItsOwn
<1>2. QED
  BY <1>1 DEF Request

\* A handler that replies, the shared state staying as it is.
LEMMA ReplyKeepsInvariant ==
    ASSUME JourneyInvariant, NEW s \in Slots, pc[s] # "idle", Reply(s),
           UNCHANGED <<cache, people, sid, generated, yar, bell, asked>>,
           failures' \in 0 .. MaxFailures, dropped' \subseteq SessionIds,
           followed' \in [Browsers -> Links \cup {None}]
    PROVE  JourneyInvariant'
<1>1. "reply" \in Outcomes /\ "reply" # "started"
  BY DEF Outcomes
<1>2. QED
  BY <1>1, RequestIsTyped, LeavesSharedState, FinishKeepsInvariant DEF Reply

LEMMA HistoryIsTyped ==
    ASSUME JourneyInvariant
    PROVE  /\ failures \in 0 .. MaxFailures /\ dropped \subseteq SessionIds
           /\ followed \in [Browsers -> Links \cup {None}]
  BY DEF JourneyInvariant, TypeOK

LEMMA TurnAwayKeepsInvariant ==
    ASSUME JourneyInvariant, NEW s \in Slots,
           \/ TurnAwayUnauthenticated(s) \/ TurnAwayUnregistered(s) \/ TurnAwayRegistered(s)
    PROVE  JourneyInvariant'
<1> DEFINE r == request[s]
<1>1. pc[s] # "idle" /\ UNCHANGED <<cache, people, sid, generated, yar, bell, asked, failures, dropped>>
  BY DEF TurnAwayUnauthenticated, TurnAwayUnregistered, TurnAwayRegistered,
         redisVars, browserVars, historyVars
<1>2. failures' \in 0 .. MaxFailures /\ dropped' \subseteq SessionIds
  BY <1>1, HistoryIsTyped
<1>3. CASE Reply(s) /\ UNCHANGED followed
  BY <1>1, <1>2, <1>3, HistoryIsTyped, ReplyKeepsInvariant
<1>4. CASE /\ Finish(s, [r.store EXCEPT !.redirectTo = r.path], TRUE, "reply")
           /\ followed' = [followed EXCEPT ![r.browser] = IF r.path \in Links THEN r.path ELSE @]
  <2>1. [r.store EXCEPT !.redirectTo = r.path] \in Store
    BY <1>1, RequestIsTyped DEF Store
  <2>2. followed' \in [Browsers -> Links \cup {None}]
    BY <1>1, <1>4, HistoryIsTyped, RequestIsTyped
  <2>3. "reply" \in Outcomes /\ "reply" # "started" /\ TRUE \in BOOLEAN
    BY DEF Outcomes
  <2>4. QED
    BY <1>1, <1>2, <1>4, <2>1, <2>2, <2>3, LeavesSharedState, FinishKeepsInvariant
<1>5. QED
  BY <1>3, <1>4 DEF TurnAwayUnauthenticated, TurnAwayUnregistered, TurnAwayRegistered,
                    historyVars

\* Handlers that change the store only: sign-in, bell's first leg, the forms,
\* the confirmation, /signed-out.
LEMMA StoreHandlersKeepInvariant ==
    ASSUME JourneyInvariant, NEW s \in Slots,
           \/ SignIn(s) \/ Start(s) \/ Unauthorised(s) \/ YourName(s) \/ ContactDetails(s)
           \/ RefuseAnswers(s) \/ Confirmation(s) \/ Serve(s) \/ SignedOut(s)
    PROVE  JourneyInvariant'
<1> DEFINE r == request[s]
<1>1. pc[s] = "handle" /\ UNCHANGED <<cache, people, sid, generated, yar, bell, asked, failures, dropped>>
  BY DEF SignIn, Start, Unauthorised, YourName, ContactDetails, SetAnswers, RefuseAnswers,
         Confirmation, Serve, SignedOut, At, redisVars, browserVars, historyVars
<1>2. failures' \in 0 .. MaxFailures /\ dropped' \subseteq SessionIds
  BY <1>1, HistoryIsTyped
<1>3. /\ r.store \in Store /\ r.touched \in BOOLEAN /\ r.browser \in Browsers
      /\ r.path \in Paths /\ r.flow \in Flows \cup {None} /\ CarriesItsOwn(s)
  BY <1>1, RequestIsTyped
<1>4. followed' \in [Browsers -> Links \cup {None}]
  BY <1>3, HistoryIsTyped
  DEF SignIn, Start, Unauthorised, YourName, ContactDetails, SetAnswers, RefuseAnswers,
      Confirmation, Serve, SignedOut, historyVars
<1>5. CASE Reply(s)
  BY <1>1, <1>2, <1>4, <1>5, ReplyKeepsInvariant
<1>6. ASSUME NEW store \in Store, NEW outcome \in {"reply", "started"},
             Finish(s, store, TRUE, outcome), outcome = "started" => r.flow # None
      PROVE  JourneyInvariant'
  <2>1. outcome \in Outcomes /\ TRUE \in BOOLEAN
    BY DEF Outcomes
  <2>2. QED
    BY <1>1, <1>2, <1>4, <1>6, <2>1, LeavesSharedState, FinishKeepsInvariant
<1>7. /\ [r.store EXCEPT !.redirectTo = r.path] \in Store
      /\ [r.store EXCEPT !.redirectTo = None] \in Store
      /\ [r.store EXCEPT !.nonce = r.flow] \in Store
      /\ [r.store EXCEPT !.nonce = None] \in Store
      /\ Blank \in Store
  BY <1>3 DEF Store, Blank
<1>8. CASE SignIn(s)
  BY <1>6, <1>7, <1>8 DEF SignIn
<1>9. CASE Start(s)
  <2>1. r.flow # None
    BY <1>3, <1>9 DEF Start, At, CarriesItsOwn
  <2>2. QED
    BY <1>6, <1>7, <1>9, <2>1 DEF Start
<1>10. CASE Unauthorised(s)
  BY <1>6, <1>7, <1>10 DEF Unauthorised
<1>11. CASE YourName(s) \/ ContactDetails(s)
  <2>1. r.session.subject \in Subjects
    <3>1. Acting(s)
      BY <1>1, <1>11 DEF YourName, ContactDetails, At, Acting, Unguarded
    <3>2. QED
      BY <1>1, <1>3, <3>1, RequestIsTyped DEF CarriesItsOwn, Record
  <2>2. \A field \in {"name", "contact"} : [r.store EXCEPT ![field] = r.session.subject] \in Store
    <3>1. /\ [r.store EXCEPT !["name"] = r.session.subject] \in Store
          /\ [r.store EXCEPT !["contact"] = r.session.subject] \in Store
      BY <1>3, <2>1 DEF Store
    <3>2. QED
      BY <3>1
  <2>3. QED
    BY <1>6, <1>11, <2>2 DEF YourName, ContactDetails, SetAnswers
<1>12. CASE Confirmation(s) \/ SignedOut(s)
  BY <1>6, <1>7, <1>12 DEF Confirmation, SignedOut
<1>13. QED
  BY <1>5, <1>8, <1>9, <1>10, <1>11, <1>12 DEF RefuseAnswers, Serve

\* One step of a request past its arrival which only changes what it carries.
LEMMA QuietStep ==
    ASSUME JourneyInvariant, NEW s \in Slots, pc[s] # "idle",
           NEW w \in Request, NEW label \in Control \ {"idle"},
           Goto(s, label), request' = [request EXCEPT ![s] = w],
           w.sid = request[s].sid, w.newSid = request[s].newSid,
           UNCHANGED <<redisVars, people, browserVars, generated, failures, historyVars>>,
           CarriesItsOwn(s)',
           Acting(s)' => Acting(s) /\ w.session.subject = request[s].session.subject,
           Pending(s)' => Pending(s)
    PROVE  JourneyInvariant'
<1>1. UNCHANGED <<cache, people, sid, generated, yar, bell, asked, failures, dropped, followed>>
  BY DEF redisVars, browserVars, historyVars
<1>2. SharedTypesOK' /\ Grows /\ \A k \in SessionIds : cache'[k] \in {cache[k], None}
  BY <1>1, HistoryIsTyped, LeavesSharedState
<1>3. pc' = [pc EXCEPT ![s] = label]
  BY DEF Goto
<1>4. QED
  BY <1>1, <1>2, <1>3, SameSessionStep

LEMMA LoadKeepsInvariant ==
    ASSUME JourneyInvariant, NEW s \in Slots, Load(s)
    PROVE  JourneyInvariant'
<1> DEFINE r == request[s]
           w == [r EXCEPT !.store = yar[r.browser]]
           label == IF r.route \in Unguarded THEN "handle" ELSE "authenticate"
<1>1. /\ pc[s] = "load" /\ request' = [request EXCEPT ![s] = w] /\ Goto(s, label)
      /\ UNCHANGED <<redisVars, people, browserVars, generated, failures, historyVars>>
  <2>1. request \in [Slots -> Request \cup {None}] /\ r \in Request
    BY RequestIsTyped DEF JourneyInvariant, TypeOK, Load
  <2>2. QED
    BY <2>1 DEF Load, Request
<1>2. r \in Request /\ CarriesItsOwn(s) /\ yar[r.browser] \in Store
  BY <1>1, RequestIsTyped DEF JourneyInvariant, TypeOK
<1>3. w \in Request
  BY <1>2 DEF Request
<1>4. /\ w.sid = r.sid /\ w.newSid = r.newSid /\ w.route = r.route /\ w.flow = r.flow
      /\ w.outcome = r.outcome /\ w.session = r.session /\ w.account = r.account
  BY <1>2 DEF Request
<1> HIDE DEF w
<1>5. request'[s] = w /\ pc'[s] = label
  BY <1>1 DEF JourneyInvariant, TypeOK, Goto
<1>6. ~Acting(s)' /\ (Pending(s)' => Pending(s))
  BY <1>1, <1>4, <1>5 DEF Acting, Pending
<1>7. CarriesItsOwn(s)'
  BY <1>1, <1>2, <1>3, <1>4, <1>5, <1>6 DEF CarriesItsOwn, Unguarded, Business
<1>8. label \in Control \ {"idle"}
  BY DEF Control
<1> HIDE DEF label
<1>9. QED
  BY <1>1, <1>3, <1>4, <1>6, <1>7, <1>8, QuietStep

LEMMA VerifyIdTokenKeepsInvariant ==
    ASSUME JourneyInvariant, NEW s \in Slots, VerifyIdToken(s)
    PROVE  JourneyInvariant'
<1> DEFINE r == request[s]
           w == [r EXCEPT !.store = [r.store EXCEPT !.nonce = None], !.touched = TRUE]
<1>1. /\ pc[s] = "handle" /\ r.route = "callback" /\ Goto(s, "findPerson")
      /\ UNCHANGED <<redisVars, people, browserVars, generated, failures, historyVars>>
  BY DEF VerifyIdToken, At
<1>2. /\ r \in Request /\ CarriesItsOwn(s) /\ r.store \in Store
      /\ request \in [Slots -> Request \cup {None}]
  BY <1>1, RequestIsTyped DEF JourneyInvariant, TypeOK
<1>3. request' = [request EXCEPT ![s] = w]
  BY <1>2 DEF VerifyIdToken, Request
<1>4. w \in Request
  <2>1. [r.store EXCEPT !.nonce = None] \in Store
    BY <1>2 DEF Store
  <2>2. QED
    BY <1>2, <2>1 DEF Request
<1>5. /\ w.sid = r.sid /\ w.newSid = r.newSid /\ w.route = r.route /\ w.flow = r.flow
      /\ w.outcome = r.outcome /\ w.session = r.session /\ w.account = r.account
  BY <1>2 DEF Request
<1> HIDE DEF w
<1>6. request'[s] = w /\ pc'[s] = "findPerson"
  BY <1>1, <1>2, <1>3 DEF JourneyInvariant, TypeOK, Goto
<1>7. ~Acting(s)' /\ (Pending(s)' => Pending(s))
  BY <1>1, <1>5, <1>6 DEF Acting, Pending
<1>8. CarriesItsOwn(s)'
  BY <1>1, <1>2, <1>4, <1>5, <1>6, <1>7 DEF CarriesItsOwn
<1>9. "findPerson" \in Control \ {"idle"}
  BY DEF Control
<1>10. QED
  BY <1>1, <1>3, <1>4, <1>5, <1>7, <1>8, <1>9, QuietStep

LEMMA FindRegisteredPersonKeepsInvariant ==
    ASSUME JourneyInvariant, NEW s \in Slots, FindRegisteredPerson(s)
    PROVE  JourneyInvariant'
<1> DEFINE r == request[s]
           session == [subject |-> r.account,
                       person |-> IF people[r.account] = None THEN None ELSE r.account]
           w == [r EXCEPT !.session = session]
<1>1. /\ pc[s] = "findPerson" /\ Goto(s, "createSession") /\ request' = [request EXCEPT ![s].session = session]
      /\ UNCHANGED <<redisVars, people, browserVars, generated, failures, historyVars>>
  BY DEF FindRegisteredPerson
<1>2. /\ r \in Request /\ CarriesItsOwn(s) /\ request \in [Slots -> Request \cup {None}]
      /\ r.account \in Subjects
  BY <1>1, RequestIsTyped DEF JourneyInvariant, TypeOK, CarriesItsOwn
<1>3. session \in Record /\ Owned(session)
  BY <1>2 DEF Record, Owned
<1>4. request' = [request EXCEPT ![s] = w]
  BY <1>1, <1>2 DEF Request
<1> HIDE DEF session
<1>5. w \in Request
  BY <1>2, <1>3 DEF Request
<1>6. /\ w.sid = r.sid /\ w.newSid = r.newSid /\ w.route = r.route /\ w.flow = r.flow
      /\ w.outcome = r.outcome /\ w.session = session /\ w.account = r.account
  BY <1>2 DEF Request
<1> HIDE DEF w
<1>7. request'[s] = w /\ pc'[s] = "createSession"
  BY <1>1, <1>2, <1>4 DEF JourneyInvariant, TypeOK, Goto
<1>8. ~Acting(s)' /\ (Pending(s)' => Pending(s))
  BY <1>1, <1>6, <1>7 DEF Acting, Pending
<1>9. CarriesItsOwn(s)'
  BY <1>1, <1>2, <1>3, <1>5, <1>6, <1>7, <1>8 DEF CarriesItsOwn, Owned
<1>10. "createSession" \in Control \ {"idle"}
  BY DEF Control
<1>11. QED
  BY <1>1, <1>4, <1>5, <1>6, <1>8, <1>9, <1>10, QuietStep

LEMMA AdmitKeepsInvariant ==
    ASSUME JourneyInvariant, NEW s \in Slots, Admit(s)
    PROVE  JourneyInvariant'
<1> DEFINE r == request[s]
           w == [r EXCEPT !.session = cache[r.sid]]
<1>1. /\ pc[s] = "authenticate" /\ Goto(s, "handle")
      /\ SessionOf(s) # None /\ request' = [request EXCEPT ![s].session = SessionOf(s)]
      /\ UNCHANGED <<redisVars, people, browserVars, generated, failures, historyVars>>
      /\ SessionOf(s).person = None => r.route \in AllowedBeforeRegistration
  BY DEF Admit
<1>2. /\ r \in Request /\ CarriesItsOwn(s) /\ request \in [Slots -> Request \cup {None}]
      /\ pc \in [Slots -> Control] /\ cache \in [SessionIds -> Record \cup {None}]
  BY <1>1, RequestIsTyped DEF JourneyInvariant, TypeOK
<1>3. r.sid \in SessionIds /\ SessionOf(s) = cache[r.sid] /\ cache[r.sid] \in Record
  BY <1>1, <1>2, RequestIsTyped DEF SessionOf
<1>4. request' = [request EXCEPT ![s] = w]
  BY <1>1, <1>2, <1>3 DEF Request
<1>5. w \in Request
  BY <1>2, <1>3 DEF Request
<1>6. /\ w.sid = r.sid /\ w.newSid = r.newSid /\ w.route = r.route /\ w.flow = r.flow
      /\ w.outcome = r.outcome /\ w.session = cache[r.sid] /\ w.account = r.account
  BY <1>2 DEF Request
<1> HIDE DEF w
<1>7. /\ request'[s] = w /\ pc'[s] = "handle"
      /\ \A t \in Slots \ {s} : pc'[t] = pc[t] /\ request'[t] = request[t]
  BY <1>1, <1>2, <1>4 DEF Goto
<1>8. UNCHANGED <<cache, people, sid, generated, yar, bell, asked, failures, dropped, followed>>
  BY <1>1 DEF redisVars, browserVars, historyVars
<1>9. SharedTypesOK' /\ Grows
  BY <1>8, HistoryIsTyped, LeavesSharedState
<1>10. Owned(cache[r.sid]) /\ SessionsOwned' /\ CookiesKnown'
  BY <1>1, <1>3, <1>8 DEF JourneyInvariant, SessionsOwned, CookiesKnown, Owned
<1>11. ~Pending(s)' /\ r.route \notin Unguarded
  <2>1. r.route \notin Unguarded
    BY <1>1, <1>2 DEF CarriesItsOwn
  <2>2. QED
    BY <1>2, <1>6, <1>7, <2>1 DEF Pending, CarriesItsOwn, Unguarded
<1>12. CarriesItsOwn(s)'
  <2>1. w.session # None /\ Owned(request[s].session)'
    BY <1>1, <1>3, <1>6, <1>7, <1>8, <1>10 DEF Owned
  <2>2. w.route \in Business => w.session.person # None
    BY <1>1, <1>3, <1>6 DEF Business, AllowedBeforeRegistration, Forms
  <2>3. QED
    BY <1>2, <1>3, <1>5, <1>6, <1>7, <1>8, <1>11, <2>1, <2>2, NoneAssumption
    DEF CarriesItsOwn, Unguarded
<1>13. RequestInvariant(s)'
  BY <1>6, <1>7, <1>8, <1>11, <1>12 DEF RequestInvariant, FitsRedis
<1>14. ASSUME NEW t \in Slots \ {s}, pc[t] # "idle" PROVE FitsRedis(t)
  BY <1>14, RequestIsTyped
<1>15. ASSUME NEW t \in Slots \ {s}, pc[t] # "idle"
       PROVE  /\ Acting(t) /\ cache'[request[t].sid] # None =>
                     cache'[request[t].sid].subject = request[t].session.subject
              /\ Pending(t) => /\ cache'[request[t].newSid] = None
                               /\ \A b \in Browsers : sid'[b] # request[t].newSid
  BY <1>8, <1>14, <1>15 DEF FitsRedis
<1>16. ASSUME NEW t \in Slots \ {s} PROVE Apart(s, t)' /\ Apart(t, s)'
  <2>1. (Acting(t)' <=> Acting(t)) /\ (Pending(t)' <=> Pending(t))
    BY <1>7 DEF Acting, Pending
  <2>2. Apart(s, t) /\ Apart(t, s)
    BY DEF JourneyInvariant
  <2>3. pc[t] # "idle" /\ Acting(t) /\ request[t].sid = r.sid =>
            request[t].session.subject = w.session.subject
    BY <1>1, <1>3, <1>6, <1>14 DEF FitsRedis
  <2>4. QED
    BY <1>1, <1>6, <1>7, <1>11, <2>1, <2>2, <2>3 DEF Apart
<1>17. "handle" \in Control /\ pc' = [pc EXCEPT ![s] = "handle"]
  BY <1>1 DEF Control, Goto
<1>18. QED
  BY <1>4, <1>5, <1>9, <1>10, <1>13, <1>15, <1>16, <1>17, OneSlotStep

\* The new id was generated for this request, so that nobody acts with it.
LEMMA CreateSessionKeepsInvariant ==
    ASSUME JourneyInvariant, NEW s \in Slots, CreateSession(s)
    PROVE  JourneyInvariant'
<1> DEFINE r == request[s]
           k == r.newSid
           store == [r.store EXCEPT !.redirectTo = IF r.session.person # None THEN None ELSE @]
           w == [r EXCEPT !.sid = k, !.outcome = "signedIn", !.store = store]
<1>1. /\ pc[s] = "createSession" /\ Goto(s, "respond")
      /\ cache' = [cache EXCEPT ![k] = r.session]
      /\ UNCHANGED <<yar, people, browserVars, generated, failures, historyVars>>
  BY DEF CreateSession, SessionCreated
<1>2. /\ r \in Request /\ CarriesItsOwn(s) /\ FitsRedis(s) /\ r.store \in Store
      /\ request \in [Slots -> Request \cup {None}]
      /\ pc \in [Slots -> Control] /\ cache \in [SessionIds -> Record \cup {None}]
  BY <1>1, RequestIsTyped DEF JourneyInvariant, TypeOK
<1>3. /\ k \in SessionIds /\ k \in generated /\ Pending(s)
      /\ r.session \in Record /\ Owned(r.session) /\ r.route = "callback"
  BY <1>1, <1>2, RequestIsTyped DEF CarriesItsOwn, Pending
<1>4. request' = [request EXCEPT ![s] = w]
  BY <1>2 DEF CreateSession, SessionCreated, Request
<1>5. store \in Store
  BY <1>2 DEF Store
<1> HIDE DEF store
<1>6. w \in Request
  BY <1>2, <1>3, <1>5 DEF Request, Outcomes
<1>7. /\ w.sid = k /\ w.newSid = k /\ w.route = r.route /\ w.outcome = "signedIn"
      /\ w.session = r.session /\ w.account = r.account
  BY <1>2 DEF Request
<1> HIDE DEF w
<1>8. /\ request'[s] = w /\ pc'[s] = "respond"
      /\ \A t \in Slots \ {s} : pc'[t] = pc[t] /\ request'[t] = request[t]
  BY <1>1, <1>2, <1>4 DEF Goto
<1>9. UNCHANGED <<people, sid, generated, yar, bell, asked, failures, dropped, followed>>
  BY <1>1 DEF browserVars, historyVars
<1>10. SharedTypesOK' /\ Grows
  BY <1>1, <1>2, <1>3, <1>9 DEF JourneyInvariant, TypeOK, SharedTypesOK, Grows
<1>11. SessionsOwned' /\ CookiesKnown'
  <2>1. \A i \in SessionIds : cache'[i] = IF i = k THEN r.session ELSE cache[i]
    BY <1>1, <1>2
  <2>2. QED
    BY <1>3, <1>9, <2>1 DEF JourneyInvariant, SessionsOwned, CookiesKnown, Owned
<1>12. ~Acting(s)' /\ ~Pending(s)'
  BY <1>8 DEF Acting, Pending
<1>13. CarriesItsOwn(s)'
  BY <1>3, <1>6, <1>7, <1>8, <1>9, <1>12 DEF CarriesItsOwn
<1>14. RequestInvariant(s)'
  BY <1>12, <1>13 DEF RequestInvariant, FitsRedis
<1>15. ASSUME NEW t \in Slots \ {s}, pc[t] # "idle"
       PROVE  /\ Acting(t) /\ cache'[request[t].sid] # None =>
                     cache'[request[t].sid].subject = request[t].session.subject
              /\ Pending(t) => /\ cache'[request[t].newSid] = None
                               /\ \A b \in Browsers : sid'[b] # request[t].newSid
  <2>1. FitsRedis(t) /\ CarriesItsOwn(t) /\ Apart(s, t)
    BY <1>15, RequestIsTyped DEF JourneyInvariant
  <2>2. request[t].sid # k /\ request[t].newSid # k
    BY <1>1, <1>3, <1>15, <2>1, NoneAssumption DEF Apart
  <2>3. Acting(t) => request[t].sid \in SessionIds
    BY <1>15, <2>1, RequestIsTyped DEF CarriesItsOwn
  <2>4. Pending(t) => request[t].newSid \in SessionIds
    BY <1>15, RequestIsTyped DEF Pending
  <2>5. QED
    BY <1>1, <1>2, <1>9, <2>1, <2>2, <2>3, <2>4 DEF FitsRedis
<1>16. ASSUME NEW t \in Slots \ {s} PROVE Apart(s, t)' /\ Apart(t, s)'
  <2>1. (Acting(t)' <=> Acting(t)) /\ (Pending(t)' <=> Pending(t))
    BY <1>8 DEF Acting, Pending
  <2>2. Apart(s, t) /\ Apart(t, s)
    BY DEF JourneyInvariant
  <2>3. QED
    BY <1>1, <1>7, <1>8, <1>12, <2>1, <2>2 DEF Apart, Pending
<1>17. "respond" \in Control /\ pc' = [pc EXCEPT ![s] = "respond"]
  BY <1>1 DEF Control, Goto
<1>18. QED
  BY <1>4, <1>6, <1>10, <1>11, <1>14, <1>15, <1>16, <1>17, OneSlotStep

LEMMA CheckAnswersKeepsInvariant ==
    ASSUME JourneyInvariant, NEW s \in Slots, CheckAnswers(s)
    PROVE  JourneyInvariant'
<1> DEFINE r == request[s]
<1>1. /\ pc[s] = "handle" /\ r.route = "checkAnswers"
      /\ UNCHANGED <<redisVars, people, browserVars, generated, failures, historyVars>>
  BY DEF CheckAnswers, At
<1>2. UNCHANGED <<cache, people, sid, generated, yar, bell, asked, failures, dropped, followed>>
  BY <1>1 DEF redisVars, browserVars, historyVars
<1>3. CASE Reply(s)
  BY <1>1, <1>2, <1>3, HistoryIsTyped, ReplyKeepsInvariant
<1>4. CASE /\ Goto(s, "register") /\ UNCHANGED request
           /\ r.store.name # None /\ r.store.contact # None
  <2>1. /\ r \in Request /\ CarriesItsOwn(s) /\ request \in [Slots -> Request \cup {None}]
        /\ pc \in [Slots -> Control] /\ Acting(s)
    BY <1>1, RequestIsTyped DEF JourneyInvariant, TypeOK, Acting, Unguarded
  <2>2. request' = [request EXCEPT ![s] = r] /\ request'[s] = r /\ pc'[s] = "register"
    BY <1>4, <2>1 DEF Goto
  <2>3. ~Pending(s)'
    BY <2>2 DEF Pending
  <2>4. CarriesItsOwn(s)'
    BY <1>1, <1>2, <1>4, <2>1, <2>2 DEF CarriesItsOwn, Owned, Unguarded
  <2>5. "register" \in Control \ {"idle"}
    BY DEF Control
  <2>6. QED
    BY <1>1, <1>4, <2>1, <2>2, <2>3, <2>4, <2>5, QuietStep
<1>5. QED
  BY <1>3, <1>4 DEF CheckAnswers

\* Either outcome of registerPerson; a COMMIT whose reply is lost registers too.
LEMMA RegistrationIsTyped ==
    ASSUME JourneyInvariant, NEW s \in Slots, pc[s] = "register",
           people[request[s].session.subject] = None,
           people' = [people EXCEPT ![request[s].session.subject] = AnswersIn(request[s].store)],
           UNCHANGED <<redisVars, browserVars, generated, historyVars>>,
           failures' \in 0 .. MaxFailures
    PROVE  /\ Acting(s) /\ request[s].session \in Record
           /\ request[s].session.subject \in Subjects
           /\ people'[request[s].session.subject] = AnswersIn(request[s].store)
           /\ SharedTypesOK' /\ Grows
           /\ UNCHANGED <<cache, sid, generated>>
<1> DEFINE r == request[s]
<1>1. /\ CarriesItsOwn(s) /\ Acting(s) /\ r.session \in Record /\ r.store \in Store
      /\ r.session.subject \in Subjects
  BY RequestIsTyped DEF CarriesItsOwn, Acting, Record
<1>2. AnswersIn(r.store) \in Answers
  BY <1>1 DEF CarriesItsOwn, AnswersIn, Answers, Store
<1>3. UNCHANGED <<cache, sid, generated, yar, bell, asked, dropped, followed>>
  BY DEF redisVars, browserVars, historyVars
<1>4. people \in [Subjects -> Answers \cup {None}]
  BY DEF JourneyInvariant, TypeOK
<1>5. SharedTypesOK' /\ Grows
  BY <1>1, <1>2, <1>3, <1>4 DEF JourneyInvariant, TypeOK, SharedTypesOK, Grows
<1>6. QED
  BY <1>1, <1>3, <1>4, <1>5

LEMMA RegisterPersonKeepsInvariant ==
    ASSUME JourneyInvariant, NEW s \in Slots, RegisterPerson(s)
    PROVE  JourneyInvariant'
<1> DEFINE r == request[s]
           account == r.session.subject
           w == [r EXCEPT !.account = account]
<1>1. pc[s] = "register" /\ UNCHANGED <<redisVars, browserVars, generated, failures, historyVars>>
  BY DEF RegisterPerson
<1>2. UNCHANGED <<cache, sid, generated, yar, bell, asked, failures, dropped, followed>>
  BY <1>1 DEF redisVars, browserVars, historyVars
<1>3. CASE Reply(s) /\ UNCHANGED people
  BY <1>1, <1>2, <1>3, HistoryIsTyped, ReplyKeepsInvariant
<1>4. CASE /\ people[account] = None
           /\ people' = [people EXCEPT ![account] = AnswersIn(r.store)]
           /\ Registered(s)
  <2>1. /\ Acting(s) /\ r.session \in Record /\ account \in Subjects
        /\ people'[account] = AnswersIn(r.store) /\ SharedTypesOK' /\ Grows
    BY <1>1, <1>2, <1>4, HistoryIsTyped, RegistrationIsTyped
  <2>2. /\ r \in Request /\ CarriesItsOwn(s) /\ request \in [Slots -> Request \cup {None}]
        /\ pc \in [Slots -> Control] /\ people \in [Subjects -> Answers \cup {None}]
    BY <1>1, RequestIsTyped DEF JourneyInvariant, TypeOK
  <2>3. request' = [request EXCEPT ![s] = w] /\ pc' = [pc EXCEPT ![s] = "getSession"]
    BY <1>4, <2>2 DEF Registered, Goto, Request
  <2>4. w \in Request
    BY <2>1, <2>2 DEF Request
  <2>5. /\ w.sid = r.sid /\ w.newSid = r.newSid /\ w.route = r.route /\ w.flow = r.flow
        /\ w.outcome = r.outcome /\ w.session = r.session /\ w.account = account
    BY <2>2 DEF Request
  <2> HIDE DEF w
  <2>6. request'[s] = w /\ pc'[s] = "getSession"
    BY <2>2, <2>3
  <2>7. people'[account] # None
    BY <1>1, <2>1, <2>2, RequestIsTyped, NoneAssumption DEF AnswersIn, Answers, CarriesItsOwn, Store
  <2>8. ~Pending(s)'
    BY <2>6 DEF Pending
  <2>9. Owned(request[s].session)'
    BY <1>1, <2>1, <2>2, <2>5, <2>6, <2>7 DEF CarriesItsOwn, Owned
  <2>10. CarriesItsOwn(s)'
    BY <1>1, <1>2, <2>1, <2>2, <2>4, <2>5, <2>6, <2>7, <2>9 DEF CarriesItsOwn, Business, Acting
  <2>11. "getSession" \in Control \ {"idle"}
    BY DEF Control
  <2>12. QED
    BY <1>1, <1>2, <2>1, <2>3, <2>4, <2>5, <2>8, <2>10, <2>11, SameSessionStep
<1>5. QED
  BY <1>3, <1>4 DEF RegisterPerson

\* The record of the id this request has acted with is of the same account.
LEMMA GetSessionKeepsInvariant ==
    ASSUME JourneyInvariant, NEW s \in Slots, GetSession(s)
    PROVE  JourneyInvariant'
<1> DEFINE r == request[s]
           store == [r.store EXCEPT !.name = None, !.contact = None]
           w == [r EXCEPT !.session = cache[r.sid]]
<1>1. /\ pc[s] = "getSession"
      /\ UNCHANGED <<redisVars, people, browserVars, generated, failures, historyVars>>
  BY DEF GetSession
<1>2. UNCHANGED <<cache, people, sid, generated, yar, bell, asked, failures, dropped, followed>>
  BY <1>1 DEF redisVars, browserVars, historyVars
<1>3. /\ r \in Request /\ CarriesItsOwn(s) /\ FitsRedis(s) /\ r.store \in Store
      /\ Acting(s) /\ r.sid \in SessionIds
      /\ request \in [Slots -> Request \cup {None}] /\ pc \in [Slots -> Control]
      /\ cache \in [SessionIds -> Record \cup {None}]
  BY <1>1, RequestIsTyped DEF JourneyInvariant, TypeOK, Acting, CarriesItsOwn
<1>4. CASE Finish(s, store, TRUE, "reply")
  <2>1. store \in Store
    BY <1>3 DEF Store
  <2>2. "reply" \in Outcomes /\ "reply" # "started" /\ TRUE \in BOOLEAN
    BY DEF Outcomes
  <2> HIDE DEF store
  <2>3. QED
    BY <1>1, <1>2, <1>4, <2>1, <2>2, HistoryIsTyped, LeavesSharedState, FinishKeepsInvariant
<1>5. CASE /\ SessionOf(s) # None /\ Goto(s, "setSession")
           /\ request' = [request EXCEPT ![s].session = SessionOf(s)]
  <2>1. SessionOf(s) = cache[r.sid] /\ cache[r.sid] \in Record
    BY <1>3, <1>5 DEF SessionOf
  <2>2. request' = [request EXCEPT ![s] = w] /\ w \in Request
    BY <1>3, <1>5, <2>1 DEF Request
  <2>3. /\ w.sid = r.sid /\ w.newSid = r.newSid /\ w.route = r.route /\ w.flow = r.flow
        /\ w.outcome = r.outcome /\ w.session = cache[r.sid] /\ w.account = r.account
    BY <1>3 DEF Request
  <2> HIDE DEF w
  <2>4. request'[s] = w /\ pc'[s] = "setSession"
    BY <1>3, <1>5, <2>2 DEF Goto
  <2>5. w.session.subject = r.session.subject /\ Owned(cache[r.sid])
    BY <1>3, <1>5, <2>1, <2>3 DEF FitsRedis, JourneyInvariant, SessionsOwned
  <2>6. ~Pending(s)'
    BY <2>4 DEF Pending
  <2>7. Owned(request[s].session)'
    BY <1>2, <2>3, <2>4, <2>5 DEF Owned
  <2>8. CarriesItsOwn(s)'
    BY <1>1, <1>2, <1>3, <1>5, <2>1, <2>2, <2>3, <2>4, <2>5, <2>7
    DEF CarriesItsOwn, Business, Acting
  <2>9. "setSession" \in Control \ {"idle"}
    BY DEF Control
  <2>10. QED
    BY <1>1, <1>3, <1>5, <2>2, <2>3, <2>5, <2>6, <2>8, <2>9, QuietStep
<1>6. QED
  BY <1>4, <1>5 DEF GetSession

\* What is written is the record read, of the account this request acts for,
\* which is that of every other request with this id.
LEMMA SetSessionKeepsInvariant ==
    ASSUME JourneyInvariant, NEW s \in Slots, SetSession(s)
    PROVE  JourneyInvariant'
<1> DEFINE r == request[s]
           record == [r.session EXCEPT !.person = r.account]
           store == [r.store EXCEPT !.name = None, !.contact = None]
           w == [r EXCEPT !.store = store, !.touched = TRUE, !.outcome = "reply"]
<1>1. /\ pc[s] = "setSession" /\ Goto(s, "respond")
      /\ cache' = [cache EXCEPT ![r.sid] = record]
      /\ UNCHANGED <<yar, people, browserVars, generated, failures, historyVars>>
  BY DEF SetSession, Finish
<1>2. /\ r \in Request /\ CarriesItsOwn(s) /\ r.store \in Store /\ Acting(s)
      /\ r.sid \in SessionIds /\ r.sid \in generated /\ r.session \in Record
      /\ request \in [Slots -> Request \cup {None}]
      /\ pc \in [Slots -> Control] /\ cache \in [SessionIds -> Record \cup {None}]
  BY <1>1, RequestIsTyped DEF JourneyInvariant, TypeOK, CarriesItsOwn, Acting
<1>3. /\ record \in Record /\ record.subject = r.session.subject /\ Owned(record)
  BY <1>1, <1>2 DEF CarriesItsOwn, Record, Owned
<1>4. request' = [request EXCEPT ![s] = w]
  BY <1>2 DEF SetSession, Finish, Request
<1>5. store \in Store
  BY <1>2 DEF Store
<1> HIDE DEF store
<1>6. w \in Request
  BY <1>2, <1>5 DEF Request, Outcomes
<1>7. /\ w.sid = r.sid /\ w.newSid = r.newSid /\ w.route = r.route /\ w.outcome = "reply"
      /\ w.session = r.session /\ w.account = r.account
  BY <1>2 DEF Request
<1> HIDE DEF w, record
<1>8. /\ request'[s] = w /\ pc'[s] = "respond"
      /\ \A t \in Slots \ {s} : pc'[t] = pc[t] /\ request'[t] = request[t]
  BY <1>1, <1>2, <1>4 DEF Goto
<1>9. UNCHANGED <<people, sid, generated, yar, bell, asked, failures, dropped, followed>>
  BY <1>1 DEF browserVars, historyVars
<1>10. \A i \in SessionIds : cache'[i] = IF i = r.sid THEN record ELSE cache[i]
  BY <1>1, <1>2
<1>11. SharedTypesOK' /\ Grows
  BY <1>1, <1>2, <1>3, <1>9 DEF JourneyInvariant, TypeOK, SharedTypesOK, Grows
<1>12. SessionsOwned' /\ CookiesKnown'
  BY <1>2, <1>3, <1>9, <1>10 DEF JourneyInvariant, SessionsOwned, CookiesKnown, Owned
<1>13. ~Acting(s)' /\ ~Pending(s)'
  BY <1>8 DEF Acting, Pending
<1>14. CarriesItsOwn(s)'
  BY <1>1, <1>2, <1>6, <1>7, <1>8, <1>9, <1>13 DEF CarriesItsOwn, Acting, Unguarded
<1>15. RequestInvariant(s)'
  BY <1>13, <1>14 DEF RequestInvariant, FitsRedis
<1>16. ASSUME NEW t \in Slots \ {s}, pc[t] # "idle"
       PROVE  /\ Acting(t) /\ cache'[request[t].sid] # None =>
                     cache'[request[t].sid].subject = request[t].session.subject
              /\ Pending(t) => /\ cache'[request[t].newSid] = None
                               /\ \A b \in Browsers : sid'[b] # request[t].newSid
  <2>1. FitsRedis(t) /\ CarriesItsOwn(t) /\ Apart(s, t) /\ Apart(t, s)
    BY <1>16, RequestIsTyped DEF JourneyInvariant
  <2>2. Acting(t) /\ request[t].sid = r.sid => request[t].session.subject = record.subject
    BY <1>1, <1>2, <1>3, <1>16, <2>1 DEF Apart
  <2>3. Pending(t) => request[t].newSid # r.sid
    BY <1>1, <1>16, <2>1 DEF Apart
  <2>4. Acting(t) => request[t].sid \in SessionIds
    BY <1>16, <2>1, RequestIsTyped DEF CarriesItsOwn
  <2>5. Pending(t) => request[t].newSid \in SessionIds
    BY <1>16, RequestIsTyped DEF Pending
  <2>6. QED
    BY <1>9, <1>10, <2>1, <2>2, <2>3, <2>4, <2>5 DEF FitsRedis
<1>17. ASSUME NEW t \in Slots \ {s} PROVE Apart(s, t)' /\ Apart(t, s)'
  <2>1. (Acting(t)' <=> Acting(t)) /\ (Pending(t)' <=> Pending(t))
    BY <1>8 DEF Acting, Pending
  <2>2. Apart(s, t) /\ Apart(t, s)
    BY DEF JourneyInvariant
  <2>3. QED
    BY <1>1, <1>7, <1>8, <1>13, <2>1, <2>2 DEF Apart
<1>18. "respond" \in Control /\ pc' = [pc EXCEPT ![s] = "respond"]
  BY <1>1 DEF Control, Goto
<1>19. QED
  BY <1>4, <1>6, <1>11, <1>12, <1>15, <1>16, <1>17, <1>18, OneSlotStep

LEMMA SignOutKeepsInvariant ==
    ASSUME JourneyInvariant, NEW s \in Slots, SignOut(s)
    PROVE  JourneyInvariant'
<1> DEFINE r == request[s]
<1>1. /\ pc[s] = "handle" /\ Acting(s)
      /\ cache' = [cache EXCEPT ![r.sid] = None] /\ dropped' = dropped \cup {r.sid}
      /\ Finish(s, r.store, TRUE, "signedOut")
      /\ UNCHANGED <<yar, people, browserVars, generated, failures, followed>>
  BY DEF SignOut, At, Acting, Unguarded
<1>2. r.sid \in SessionIds /\ r.store \in Store
  BY <1>1, RequestIsTyped DEF CarriesItsOwn
<1>3. UNCHANGED <<people, sid, generated, yar, bell, asked, failures, followed>>
  BY <1>1 DEF browserVars
<1>4. SharedTypesOK' /\ Grows /\ \A k \in SessionIds : cache'[k] \in {cache[k], None}
  BY <1>1, <1>2, <1>3 DEF JourneyInvariant, TypeOK, SharedTypesOK, Grows
<1>5. "signedOut" \in Outcomes /\ "signedOut" # "started" /\ TRUE \in BOOLEAN
  BY DEF Outcomes
<1>6. QED
  BY <1>1, <1>2, <1>3, <1>4, <1>5, FinishKeepsInvariant

\* The response, whether or not the store is written with it.
LEMMA ReadyKeepsInvariant ==
    ASSUME JourneyInvariant, NEW s \in Slots, Respond(s) \/ StoreLost(s)
    PROVE  JourneyInvariant'
<1> DEFINE r == request[s]
           w == [r EXCEPT !.store = Blank, !.touched = FALSE, !.session = None]
<1>1. /\ pc[s] = "respond" /\ Goto(s, "deliver") /\ Ready(s)
      /\ UNCHANGED <<cache, people, browserVars, generated, historyVars>>
      /\ \/ UNCHANGED <<yar, failures>>
         \/ UNCHANGED failures /\ yar' = [yar EXCEPT ![r.browser] = r.store]
         \/ UNCHANGED yar /\ Failing
  BY DEF Respond, StoreLost, Ready, redisVars
<1>2. /\ r \in Request /\ CarriesItsOwn(s) /\ r.store \in Store /\ r.browser \in Browsers
      /\ request \in [Slots -> Request \cup {None}] /\ pc \in [Slots -> Control]
      /\ yar \in [Browsers -> Store] /\ failures \in 0 .. MaxFailures
  BY <1>1, RequestIsTyped DEF JourneyInvariant, TypeOK
<1>3. request' = [request EXCEPT ![s] = w] /\ w \in Request
  BY <1>1, <1>2 DEF Ready, Request, Store, Blank
<1>4. /\ w.sid = r.sid /\ w.newSid = r.newSid /\ w.route = r.route /\ w.flow = r.flow
      /\ w.outcome = r.outcome /\ w.account = r.account
  BY <1>2 DEF Request
<1> HIDE DEF w
<1>5. request'[s] = w /\ pc'[s] = "deliver" /\ pc' = [pc EXCEPT ![s] = "deliver"]
  BY <1>1, <1>2, <1>3 DEF Goto
<1>6. UNCHANGED <<cache, people, sid, generated, bell, asked, dropped, followed>>
  BY <1>1 DEF browserVars, historyVars
<1>7. yar' \in [Browsers -> Store] /\ failures' \in 0 .. MaxFailures
  BY <1>1, <1>2, FailuresAssumption DEF Failing
<1>8. SharedTypesOK' /\ Grows /\ \A k \in SessionIds : cache'[k] \in {cache[k], None}
  BY <1>6, <1>7 DEF JourneyInvariant, TypeOK, SharedTypesOK, Grows
<1>9. ~Acting(s)' /\ ~Pending(s)'
  BY <1>5 DEF Acting, Pending
<1>10. CarriesItsOwn(s)'
  BY <1>1, <1>2, <1>3, <1>4, <1>5, <1>6, <1>9 DEF CarriesItsOwn
<1>11. "deliver" \in Control \ {"idle"}
  BY DEF Control
<1>12. QED
  BY <1>1, <1>3, <1>4, <1>5, <1>6, <1>8, <1>9, <1>10, <1>11, SameSessionStep

\* The end of a request: a session id that reaches a browser is nobody's next.
LEMMA CloseKeepsInvariant ==
    ASSUME JourneyInvariant, NEW s \in Slots, Deliver(s) \/ ResponseLost(s)
    PROVE  JourneyInvariant'
<1> DEFINE r == request[s]
<1>1. /\ pc[s] = "deliver" /\ Close(s)
      /\ UNCHANGED <<cache, yar, people, generated, dropped, followed>>
      /\ UNCHANGED failures \/ Failing
  BY DEF Deliver, ResponseLost, redisVars, historyVars
<1>2. /\ r.browser \in Browsers /\ r.sid \in SessionIds \cup {None}
      /\ r.flow \in Flows \cup {None} /\ CarriesItsOwn(s)
      /\ request \in [Slots -> Request \cup {None}] /\ pc \in [Slots -> Control]
  BY <1>1, RequestIsTyped DEF JourneyInvariant, TypeOK
<1>3. /\ sid \in [Browsers -> SessionIds \cup {None}] /\ bell \in [Browsers -> Flows \cup {None}]
      /\ asked \in [Browsers -> SUBSET Flows] /\ failures \in 0 .. MaxFailures
  BY DEF JourneyInvariant, TypeOK
<1>4. /\ sid' \in [Browsers -> SessionIds \cup {None}]
      /\ \A b \in Browsers : sid'[b] \in {sid[b], r.sid, None}
  <2>1. CASE UNCHANGED sid
    BY <1>3, <2>1
  <2>2. CASE sid' = [sid EXCEPT ![r.browser] = r.sid] \/ sid' = [sid EXCEPT ![r.browser] = None]
    BY <1>2, <1>3, <2>2
  <2>3. QED
    BY <2>1, <2>2 DEF Deliver, ResponseLost, browserVars
<1>5. bell' \in [Browsers -> Flows \cup {None}] /\ asked' \in [Browsers -> SUBSET Flows]
  <2>1. bell' \in [Browsers -> Flows \cup {None}]
    <3>1. CASE UNCHANGED bell
      BY <1>3, <3>1
    <3>2. CASE bell' = [bell EXCEPT ![r.browser] = r.flow] \/ bell' = [bell EXCEPT ![r.browser] = None]
      BY <1>2, <1>3, <3>2
    <3>3. QED
      BY <3>1, <3>2 DEF Deliver, ResponseLost, browserVars
  <2>2. asked' \in [Browsers -> SUBSET Flows]
    <3>1. CASE UNCHANGED asked
      BY <1>3, <3>1
    <3>2. CASE r.outcome = "started" /\ asked' = [asked EXCEPT ![r.browser] = @ \cup {r.flow}]
      <4>1. r.flow \in Flows
        BY <1>1, <1>2, <3>2 DEF CarriesItsOwn
      <4>2. QED
        BY <1>2, <1>3, <3>2, <4>1
    <3>3. QED
      BY <3>1, <3>2 DEF Deliver, ResponseLost, browserVars
  <2>3. QED
    BY <2>1, <2>2
<1>6. SharedTypesOK' /\ Grows
  <2>1. failures' \in 0 .. MaxFailures
    BY <1>1, <1>3, FailuresAssumption DEF Failing
  <2>2. QED
    BY <1>1, <1>4, <1>5, <2>1 DEF JourneyInvariant, TypeOK, SharedTypesOK, Grows
<1>7. SessionsOwned' /\ CookiesKnown'
  BY <1>1, <1>2, <1>4 DEF JourneyInvariant, SessionsOwned, CookiesKnown, Owned, CarriesItsOwn
<1>8. /\ request' = [request EXCEPT ![s] = None] /\ pc' = [pc EXCEPT ![s] = "idle"]
      /\ pc'[s] = "idle" /\ "idle" \in Control
  BY <1>1, <1>2 DEF Close, Goto, Control
<1>9. ASSUME NEW t \in Slots \ {s}, pc[t] # "idle"
      PROVE  /\ Acting(t) /\ cache'[request[t].sid] # None =>
                    cache'[request[t].sid].subject = request[t].session.subject
             /\ Pending(t) => /\ cache'[request[t].newSid] = None
                              /\ \A b \in Browsers : sid'[b] # request[t].newSid
  <2>1. FitsRedis(t) /\ Apart(t, s)
    BY <1>9, RequestIsTyped DEF JourneyInvariant
  <2>2. Pending(t) => r.sid # request[t].newSid /\ request[t].newSid # None
    BY <1>1, <1>9, <2>1 DEF Apart, Pending
  <2>3. QED
    BY <1>1, <1>4, <2>1, <2>2 DEF FitsRedis
<1>10. RequestInvariant(s)' /\ \A t \in Slots \ {s} : Apart(s, t)' /\ Apart(t, s)'
  BY <1>8 DEF RequestInvariant, Apart
<1>11. QED
  BY <1>6, <1>7, <1>8, <1>9, <1>10, OneSlotStep

\* A call that throws, or a COMMIT whose reply is lost.
LEMMA FailuresKeepInvariant ==
    ASSUME JourneyInvariant, NEW s \in Slots, Fails(s) \/ RegistrationLost(s)
    PROVE  JourneyInvariant'
<1> DEFINE r == request[s]
<1>1. /\ pc[s] # "idle" /\ Reply(s) /\ failures' \in 0 .. MaxFailures
      /\ UNCHANGED <<cache, yar, sid, bell, asked, generated, dropped, followed>>
  BY HistoryIsTyped, FailuresAssumption
  DEF Fails, RegistrationLost, Failing, At, redisVars, browserVars, historyVars
<1>2. CASE Fails(s)
  BY <1>1, <1>2, HistoryIsTyped, ReplyKeepsInvariant DEF Fails
<1>3. CASE RegistrationLost(s)
  <2>1. SharedTypesOK' /\ Grows
    BY <1>1, <1>3, RegistrationIsTyped DEF RegistrationLost
  <2>2. r.store \in Store /\ r.touched \in BOOLEAN
    BY <1>1, RequestIsTyped
  <2>3. "reply" \in Outcomes /\ "reply" # "started"
    BY DEF Outcomes
  <2>4. QED
    BY <1>1, <2>1, <2>2, <2>3, FinishKeepsInvariant DEF Reply
<1>4. QED
  BY <1>2, <1>3

\* A new request, with an id that nobody has.
LEMMA SendKeepsInvariant ==
    ASSUME JourneyInvariant, NEW s \in Slots, Send(s)
    PROVE  JourneyInvariant'
<1>1. PICK b \in Browsers, route \in Routes, path \in Paths, flow \in Flows \cup {None},
           account \in Subjects \cup {None}, newSid \in SessionIds \cup {None} :
        /\ pc[s] = "idle"
        /\ path # Home => route \in {"page", "signIn"}
        /\ CASE route = "start" -> flow \in Flows \ generated
             [] route = "callback" -> flow \in asked[b]
             [] OTHER -> flow = None
        /\ IF route = "callback"
           THEN account \in Subjects /\ newSid \in SessionIds \ generated
           ELSE account = None /\ newSid = None
        /\ request' = [request EXCEPT ![s] =
               [browser |-> b, route |-> route, path |-> path, sid |-> sid[b],
                state |-> bell[b], flow |-> flow, account |-> account, newSid |-> newSid,
                store |-> Blank, touched |-> FALSE, session |-> None, outcome |-> None]]
        /\ generated' = generated \cup ({flow, newSid} \ {None})
        /\ Goto(s, "load")
        /\ UNCHANGED <<redisVars, people, browserVars, failures, historyVars>>
  BY DEF Send
<1> DEFINE w == [browser |-> b, route |-> route, path |-> path, sid |-> sid[b],
                 state |-> bell[b], flow |-> flow, account |-> account, newSid |-> newSid,
                 store |-> Blank, touched |-> FALSE, session |-> None, outcome |-> None]
<1>2. UNCHANGED <<cache, people, sid, yar, bell, asked, failures, dropped, followed>>
  BY <1>1 DEF redisVars, browserVars, historyVars
<1>3. /\ request \in [Slots -> Request \cup {None}] /\ pc \in [Slots -> Control]
      /\ sid[b] \in SessionIds \cup {None} /\ bell[b] \in Flows \cup {None}
      /\ generated \subseteq Flows \cup SessionIds
  BY DEF JourneyInvariant, TypeOK
<1>4. w \in Request
  BY <1>3, RoutesAssumption DEF Request, Store, Blank, Outcomes
<1>5. /\ w.sid = sid[b] /\ w.newSid = newSid /\ w.route = route /\ w.flow = flow
      /\ w.outcome = None /\ w.account = account
  OBVIOUS
<1>6. request' = [request EXCEPT ![s] = w] /\ pc' = [pc EXCEPT ![s] = "load"]
  BY <1>1 DEF Goto
<1> HIDE DEF w
<1>7. /\ request'[s] = w /\ pc'[s] = "load" /\ "load" \in Control
      /\ \A t \in Slots \ {s} : pc'[t] = pc[t] /\ request'[t] = request[t]
  BY <1>3, <1>6 DEF Control
<1>8. SharedTypesOK' /\ Grows
  BY <1>1, <1>2, <1>3 DEF JourneyInvariant, TypeOK, SharedTypesOK, Grows
<1>9. SessionsOwned' /\ CookiesKnown'
  BY <1>2, <1>8 DEF JourneyInvariant, SessionsOwned, CookiesKnown, Owned, Grows
<1>10. newSid # None => /\ cache[newSid] = None /\ newSid \notin generated
                        /\ \A c \in Browsers : sid[c] # newSid
  BY <1>1, NoneAssumption DEF JourneyInvariant, SessionsOwned, CookiesKnown
<1>11. ~Acting(s)' /\ (Pending(s)' => newSid # None)
  BY <1>5, <1>7 DEF Acting, Pending
<1>12. CarriesItsOwn(s)'
  <2>1. sid[b] # None => sid[b] \in generated'
    BY <1>1 DEF JourneyInvariant, CookiesKnown
  <2>2. newSid # None => newSid \in generated' /\ route = "callback"
    BY <1>1
  <2>3. route = "start" => flow # None
    BY <1>1, NoneAssumption
  <2>4. route = "callback" => account # None /\ newSid # None
    BY <1>1, NoneAssumption
  <2>5. QED
    BY <1>4, <1>5, <1>7, <1>11, <2>1, <2>2, <2>3, <2>4 DEF CarriesItsOwn
<1>13. RequestInvariant(s)'
  BY <1>2, <1>3, <1>5, <1>7, <1>10, <1>11, <1>12 DEF RequestInvariant, FitsRedis
<1>14. ASSUME NEW t \in Slots \ {s}, pc[t] # "idle"
       PROVE  /\ Acting(t) /\ cache'[request[t].sid] # None =>
                     cache'[request[t].sid].subject = request[t].session.subject
              /\ Pending(t) => /\ cache'[request[t].newSid] = None
                               /\ \A c \in Browsers : sid'[c] # request[t].newSid
  BY <1>2, <1>14, RequestIsTyped DEF FitsRedis
<1>15. ASSUME NEW t \in Slots \ {s} PROVE Apart(s, t)' /\ Apart(t, s)'
  <2>1. (Acting(t)' <=> Acting(t)) /\ (Pending(t)' <=> Pending(t))
    BY <1>7 DEF Acting, Pending
  <2>2. pc[t] # "idle" => CarriesItsOwn(t) /\ FitsRedis(t)
    BY RequestIsTyped
  <2>3. pc[t] # "idle" /\ newSid # None => request[t].newSid # newSid /\ request[t].sid # newSid
    BY <1>10, <2>2 DEF CarriesItsOwn
  <2>4. pc[t] # "idle" /\ Pending(t) => sid[b] # request[t].newSid
    BY <2>2 DEF FitsRedis
  <2>5. QED
    BY <1>5, <1>7, <1>11, <2>1, <2>3, <2>4 DEF Apart
<1>16. QED
  BY <1>4, <1>6, <1>7, <1>8, <1>9, <1>13, <1>14, <1>15, OneSlotStep

\* The process stops.
LEMMA CrashKeepsInvariant ==
    ASSUME JourneyInvariant, Crash
    PROVE  JourneyInvariant'
<1>1. /\ UNCHANGED <<cache, people, sid, generated, yar, bell, asked, dropped, followed>>
      /\ pc' = [s \in Slots |-> "idle"] /\ request' = [s \in Slots |-> None]
      /\ failures' \in 0 .. MaxFailures
  BY HistoryIsTyped, FailuresAssumption DEF Crash, Failing, redisVars, browserVars, historyVars
<1>2. TypeOK'
  BY <1>1 DEF JourneyInvariant, TypeOK, Control
<1>3. SessionsOwned' /\ CookiesKnown'
  BY <1>1 DEF JourneyInvariant, SessionsOwned, CookiesKnown, Owned
<1>4. \A s \in Slots : pc'[s] = "idle"
  BY <1>1
<1>5. QED
  BY <1>2, <1>3, <1>4 DEF JourneyInvariant, RequestInvariant, Apart

\* A session record or a store is gone.
LEMMA ExpiryKeepsInvariant ==
    ASSUME JourneyInvariant, SessionExpires \/ StoreExpires
    PROVE  JourneyInvariant'
<1>1. /\ UNCHANGED <<people, sid, generated, pc, request, bell, asked, failures, dropped>>
      /\ cache' \in [SessionIds -> Record \cup {None}]
      /\ \A k \in SessionIds : cache'[k] \in {cache[k], None}
      /\ yar' \in [Browsers -> Store] /\ followed' \in [Browsers -> Links \cup {None}]
  <2>1. CASE SessionExpires
    BY <2>1 DEF SessionExpires, browserVars, historyVars, JourneyInvariant, TypeOK
  <2>2. CASE StoreExpires
    BY <2>2 DEF StoreExpires, browserVars, JourneyInvariant, TypeOK, Blank, Store
  <2>3. QED
    BY <2>1, <2>2
<1>2. TypeOK'
  BY <1>1 DEF JourneyInvariant, TypeOK
<1>3. SessionsOwned' /\ CookiesKnown'
  BY <1>1 DEF JourneyInvariant, SessionsOwned, CookiesKnown, Owned
<1>4. ASSUME NEW s \in Slots PROVE RequestInvariant(s)'
  <2> SUFFICES ASSUME pc[s] # "idle" PROVE CarriesItsOwn(s)' /\ FitsRedis(s)'
    BY <1>1 DEF RequestInvariant
  <2>1. CarriesItsOwn(s) /\ FitsRedis(s)
    BY RequestIsTyped
  <2>2. (Acting(s)' <=> Acting(s)) /\ (Pending(s)' <=> Pending(s))
    BY <1>1 DEF Acting, Pending
  <2>3. CarriesItsOwn(s)'
    BY <1>1, <2>1, <2>2 DEF CarriesItsOwn, Owned
  <2>4. Acting(s) => request[s].sid \in SessionIds
    BY <2>1, RequestIsTyped DEF CarriesItsOwn
  <2>5. Pending(s) => request[s].newSid \in SessionIds
    BY RequestIsTyped DEF Pending
  <2>6. FitsRedis(s)'
    BY <1>1, <2>1, <2>2, <2>4, <2>5 DEF FitsRedis
  <2>7. QED
    BY <2>3, <2>6
<1>5. ASSUME NEW s \in Slots, NEW t \in Slots \ {s} PROVE Apart(s, t)'
  BY <1>1 DEF JourneyInvariant, Apart, Acting, Pending
<1>6. QED
  BY <1>2, <1>3, <1>4, <1>5 DEF JourneyInvariant

-----------------------------------------------------------------------------
LEMMA InitHasInvariant ==
    ASSUME Init PROVE JourneyInvariant
<1>1. TypeOK
  BY FailuresAssumption DEF Init, TypeOK, Blank, Store, Control
<1>2. SessionsOwned /\ CookiesKnown
  BY DEF Init, SessionsOwned, CookiesKnown
<1>3. \A s \in Slots : pc[s] = "idle"
  BY DEF Init
<1>4. QED
  BY <1>1, <1>2, <1>3 DEF JourneyInvariant, RequestInvariant, Apart

LEMMA NextKeepsInvariant ==
    ASSUME JourneyInvariant, [Next]_journeyVars
    PROVE  JourneyInvariant'
<1>1. CASE UNCHANGED journeyVars
  BY <1>1 DEF journeyVars, JourneyInvariant, TypeOK, SessionsOwned, CookiesKnown, Owned,
              RequestInvariant, CarriesItsOwn, FitsRedis, Apart, Acting, Pending
<1>2. ASSUME NEW s \in Slots, Send(s) \/ Load(s) PROVE JourneyInvariant'
  BY <1>2, SendKeepsInvariant, LoadKeepsInvariant
<1>3. ASSUME NEW s \in Slots, Guard(s) PROVE JourneyInvariant'
  BY <1>3, TurnAwayKeepsInvariant, AdmitKeepsInvariant DEF Guard
<1>4. ASSUME NEW s \in Slots, Handle(s) PROVE JourneyInvariant'
  BY <1>4, StoreHandlersKeepInvariant, VerifyIdTokenKeepsInvariant,
     FindRegisteredPersonKeepsInvariant, CreateSessionKeepsInvariant,
     CheckAnswersKeepsInvariant, RegisterPersonKeepsInvariant, GetSessionKeepsInvariant,
     SetSessionKeepsInvariant, SignOutKeepsInvariant DEF Handle
<1>5. ASSUME NEW s \in Slots, Respond(s) \/ Deliver(s) \/ Failure(s) PROVE JourneyInvariant'
  BY <1>5, ReadyKeepsInvariant, CloseKeepsInvariant, FailuresKeepInvariant DEF Failure
<1>6. CASE Crash \/ SessionExpires \/ StoreExpires
  BY <1>6, CrashKeepsInvariant, ExpiryKeepsInvariant
<1>7. QED
  BY <1>1, <1>2, <1>3, <1>4, <1>5, <1>6 DEF Next

\* In every state, a session id stands for one account: in Redis and in every
\* request that acts with it, while ids only generated are nobody's yet.
THEOREM JourneyInvariantHolds == Spec => []JourneyInvariant
<1>1. Init => JourneyInvariant
  BY InitHasInvariant
<1>2. JourneyInvariant /\ [Next]_journeyVars => JourneyInvariant'
  BY NextKeepsInvariant
<1>3. QED
  BY <1>1, <1>2, PTL DEF Spec

\* The stores, the sessions and what requests carry keep to their types.
THEOREM JourneyTypesHold == Spec => []TypeOK
<1>1. JourneyInvariant => TypeOK
  BY DEF JourneyInvariant
<1>2. QED
  BY <1>1, JourneyInvariantHolds, PTL

\* PersonIsOwn: no interleaving of tabs, sign-ins and registrations makes a
\* session act as another account's person, or as one the database lacks.
THEOREM PersonsAreOwn == Spec => []PersonIsOwn
<1>1. JourneyInvariant => PersonIsOwn
  BY DEF JourneyInvariant, SessionsOwned, Owned, PersonIsOwn
<1>2. QED
  BY <1>1, JourneyInvariantHolds, PTL

LEMMA TheServedAreRegistered == JourneyInvariant => OnlyRegisteredAreServed
<1> SUFFICES ASSUME JourneyInvariant,
                    NEW s \in Slots, pc[s] = "handle", request[s].route \in Business
             PROVE  /\ request[s].session # None
                    /\ people[request[s].session.subject] # None
  BY DEF OnlyRegisteredAreServed
<1>1. CarriesItsOwn(s) /\ Acting(s)
  BY RequestIsTyped DEF Acting, Business, Unguarded
<1>2. QED
  BY <1>1 DEF CarriesItsOwn, Owned

\* OnlyRegisteredAreServed: the guard's answer is still true when the handler
\* runs, though the session may have gone meanwhile.
THEOREM OnlyTheRegisteredAreServed == Spec => []OnlyRegisteredAreServed
<1>1. QED
  BY TheServedAreRegistered, JourneyInvariantHolds, PTL

-----------------------------------------------------------------------------
\* Which steps change what Redis has of the sessions.
LEMMA RecordSteps ==
    ASSUME [Next]_journeyVars
    PROVE  \/ UNCHANGED cache
           \/ SessionExpires
           \/ \E s \in Slots : CreateSession(s) \/ SetSession(s) \/ SignOut(s)
<1>1. ASSUME NEW s \in Slots, Send(s) PROVE UNCHANGED cache
  BY <1>1 DEF Send, redisVars
<1>2. ASSUME NEW s \in Slots, Load(s) \/ Guard(s) \/ Respond(s) \/ Deliver(s) \/ Failure(s)
      PROVE  UNCHANGED cache
  BY <1>2 DEF Load, Guard, TurnAwayUnauthenticated, TurnAwayUnregistered,
              TurnAwayRegistered, Admit, Respond, Deliver, Failure, Fails,
              RegistrationLost, StoreLost, ResponseLost, redisVars
<1>3. ASSUME NEW s \in Slots, Handle(s), ~CreateSession(s), ~SetSession(s), ~SignOut(s)
      PROVE  UNCHANGED cache
  BY <1>3 DEF Handle, SignIn, Start, VerifyIdToken, Unauthorised, FindRegisteredPerson,
              YourName, ContactDetails, SetAnswers, RefuseAnswers, CheckAnswers,
              RegisterPerson, GetSession, Confirmation, Serve, SignedOut, redisVars
<1>4. Crash \/ StoreExpires \/ UNCHANGED journeyVars => UNCHANGED cache
  BY DEF Crash, StoreExpires, redisVars, journeyVars
<1>5. QED
  BY <1>1, <1>2, <1>3, <1>4 DEF Next

\* Which steps change a session record, and how.
LEMMA SessionSteps ==
    ASSUME JourneyInvariant, [Next]_journeyVars, NEW k \in SessionIds,
           cache[k] # None, cache'[k] # None, cache'[k] # cache[k]
    PROVE  \E s \in Slots : SetSession(s) /\ request[s].sid = k
<1>1. cache \in [SessionIds -> Record \cup {None}]
  BY DEF JourneyInvariant, TypeOK
<1>2. ~SessionExpires
  BY <1>1 DEF SessionExpires
<1>3. PICK s \in Slots : CreateSession(s) \/ SetSession(s) \/ SignOut(s)
  BY <1>2, RecordSteps
<1>4. ~SignOut(s)
  BY <1>1 DEF SignOut
<1>5. ~CreateSession(s)
  <2> SUFFICES ASSUME CreateSession(s) PROVE FALSE
    OBVIOUS
  <2>1. pc[s] = "createSession" /\ cache' = [cache EXCEPT ![request[s].newSid] = request[s].session]
    BY DEF CreateSession, SessionCreated
  <2>2. cache[request[s].newSid] = None
    BY <2>1, RequestIsTyped DEF FitsRedis, CarriesItsOwn, Pending
  <2>3. QED
    BY <1>1, <2>1, <2>2
<1>6. SetSession(s) /\ request[s].sid = k
  BY <1>1, <1>3, <1>4, <1>5 DEF SetSession
<1>7. QED
  BY <1>6

\* updateSession writes back what was read earlier, but of the same account, and
\* the person only where there was none or the same.
LEMMA SessionStaysTheAccounts ==
    ASSUME JourneyInvariant, [Next]_journeyVars, NEW k \in SessionIds,
           cache[k] # None, cache'[k] # None
    PROVE  /\ cache'[k].subject = cache[k].subject
           /\ cache[k].person # None => cache'[k].person = cache[k].person
<1> SUFFICES ASSUME cache'[k] # cache[k]
             PROVE  /\ cache'[k].subject = cache[k].subject
                    /\ cache[k].person # None => cache'[k].person = cache[k].person
  OBVIOUS
<1>1. PICK s \in Slots : SetSession(s) /\ request[s].sid = k
  BY SessionSteps
<1>2. /\ pc[s] = "setSession"
      /\ cache' = [cache EXCEPT ![k] = [request[s].session EXCEPT !.person = request[s].account]]
  BY <1>1 DEF SetSession
<1>3. CarriesItsOwn(s) /\ FitsRedis(s) /\ Acting(s) /\ request[s].session \in Record
  BY <1>2, RequestIsTyped DEF CarriesItsOwn, Acting
<1>4. cache[k].subject = request[s].session.subject /\ request[s].account = cache[k].subject
  BY <1>1, <1>2, <1>3 DEF FitsRedis, CarriesItsOwn
<1>5. cache'[k].subject = cache[k].subject /\ cache'[k].person = cache[k].subject
  BY <1>2, <1>3, <1>4 DEF JourneyInvariant, TypeOK, Record
<1>6. cache[k].person # None => cache[k].person = cache[k].subject
  BY DEF JourneyInvariant, SessionsOwned, Owned
<1>7. QED
  BY <1>5, <1>6

\* SessionIsStable: as long as a session lives it is the same account's, and it
\* keeps its person, though updateSession writes back what was read earlier.
THEOREM SessionsStayStable == Spec => SessionIsStable
<1>1. JourneyInvariant /\ [Next]_journeyVars =>
          [\A k \in SessionIds : cache[k] # None /\ cache'[k] # None =>
              /\ cache'[k].subject = cache[k].subject
              /\ cache[k].person # None => cache'[k].person = cache[k].person]_journeyVars
  BY SessionStaysTheAccounts
<1>2. QED
  BY <1>1, JourneyInvariantHolds, PTL DEF Spec, SessionIsStable

-----------------------------------------------------------------------------
\* A step that writes the database registers an account for the first time.
LEMMA RegistrationSteps ==
    ASSUME JourneyInvariant, [Next]_journeyVars
    PROVE  \/ UNCHANGED people
           \/ \E a \in Subjects, answers \in Answers :
                  people[a] = None /\ people' = [people EXCEPT ![a] = answers]
<1>1. CASE UNCHANGED journeyVars
  BY <1>1 DEF journeyVars
<1>2. ASSUME NEW s \in Slots, Send(s) PROVE UNCHANGED people
  BY <1>2 DEF Send
<1>3. ASSUME NEW s \in Slots, Load(s) \/ Guard(s) \/ Respond(s) \/ Deliver(s)
      PROVE  UNCHANGED people
  BY <1>3 DEF Load, Guard, TurnAwayUnauthenticated, TurnAwayUnregistered,
              TurnAwayRegistered, Admit, Respond, Deliver
<1>4. ASSUME NEW s \in Slots, Handle(s) \/ Failure(s), ~RegisterPerson(s), ~RegistrationLost(s)
      PROVE  UNCHANGED people
  BY <1>4 DEF Handle, SignIn, Start, VerifyIdToken, Unauthorised, FindRegisteredPerson,
              CreateSession, SessionCreated, YourName, ContactDetails, SetAnswers,
              RefuseAnswers, CheckAnswers, GetSession, SetSession, Confirmation, Serve,
              SignOut, SignedOut, Failure, Fails, StoreLost, ResponseLost
<1>5. ASSUME NEW s \in Slots, pc[s] = "register",
             people[request[s].session.subject] = None,
             people' = [people EXCEPT ![request[s].session.subject] = AnswersIn(request[s].store)]
      PROVE  \E a \in Subjects, answers \in Answers :
                 people[a] = None /\ people' = [people EXCEPT ![a] = answers]
  <2>1. /\ CarriesItsOwn(s) /\ request[s].session.subject \in Subjects
        /\ request[s].store \in Store
    BY <1>5, RequestIsTyped DEF CarriesItsOwn, Acting, Record
  <2>2. AnswersIn(request[s].store) \in Answers
    BY <1>5, <2>1 DEF CarriesItsOwn, AnswersIn, Answers, Store
  <2>3. QED
    BY <1>5, <2>1, <2>2
<1>6. ASSUME NEW s \in Slots, RegisterPerson(s) \/ RegistrationLost(s), ~UNCHANGED people
      PROVE  \E a \in Subjects, answers \in Answers :
                 people[a] = None /\ people' = [people EXCEPT ![a] = answers]
  BY <1>5, <1>6 DEF RegisterPerson, RegistrationLost
<1>7. Crash \/ SessionExpires \/ StoreExpires => UNCHANGED people
  BY DEF Crash, SessionExpires, StoreExpires
<1>8. QED
  BY <1>1, <1>3, <1>4, <1>6, <1>7, <1>2 DEF Next, Handle, Failure

\* ImplementsRegistrations: for any number of accounts, browsers and requests,
\* what the database is told is a behaviour of AtomicRecords' registerPerson.
THEOREM RegistrationsAreAtomic == Spec => ImplementsRegistrations
<1>1. Init => DB!EmptyRecords
  BY DEF Init, DB!EmptyRecords, RegisteredAccounts
<1>2. ASSUME JourneyInvariant, [Next]_journeyVars PROVE [DB!AtomicNext]_(DB!recordVars)
  <2>1. CASE UNCHANGED people
    <3>1. RegisteredAccounts' = RegisteredAccounts
      BY <2>1 DEF RegisteredAccounts
    <3>2. QED
      BY <2>1, <3>1 DEF DB!recordVars
  <2>2. ASSUME NEW a \in Subjects, NEW answers \in Answers, people[a] = None,
               people' = [people EXCEPT ![a] = answers]
        PROVE  DB!RegisterPerson(a, a, answers.contact)
    <3>1. people \in [Subjects -> Answers \cup {None}]
      BY <1>2 DEF JourneyInvariant, TypeOK
    <3>2. answers # None
      BY NoneAssumption
    <3>3. /\ a \notin RegisteredAccounts
          /\ RegisteredAccounts' = RegisteredAccounts \cup {a}
          /\ people'[a] = answers
          /\ \A b \in RegisteredAccounts : people'[b] = people[b]
      BY <2>2, <3>1, <3>2 DEF RegisteredAccounts
    <3>4. {[id |-> b, email |-> people'[b].contact] : b \in RegisteredAccounts'} =
              {[id |-> b, email |-> people[b].contact] : b \in RegisteredAccounts}
              \cup {[id |-> a, email |-> answers.contact]}
      BY <3>3
    <3>5. {[subject |-> b, person |-> b] : b \in RegisteredAccounts'} =
              {[subject |-> b, person |-> b] : b \in RegisteredAccounts}
              \cup {[subject |-> a, person |-> a]}
      BY <3>3
    <3>6. {[eventType |-> "person.registered", person |-> b,
            organisation |-> None, invitation |-> None] : b \in RegisteredAccounts'} =
              {[eventType |-> "person.registered", person |-> b,
                organisation |-> None, invitation |-> None] : b \in RegisteredAccounts}
              \cup {[eventType |-> "person.registered", person |-> a,
                     organisation |-> None, invitation |-> None]}
      BY <3>3
    <3>7. QED
      BY <3>3, <3>4, <3>5, <3>6 DEF DB!RegisterPerson, DB!Registered
  <2>3. ASSUME NEW a \in Subjects, NEW answers \in Answers, people[a] = None,
               people' = [people EXCEPT ![a] = answers]
        PROVE  DB!AtomicNext
    <3>1. answers.contact \in Subjects
      BY DEF Answers
    <3>2. QED
      BY <2>2, <2>3, <3>1 DEF DB!AtomicNext
  <2>4. QED
    BY <1>2, <2>1, <2>3, RegistrationSteps
<1>3. QED
  BY <1>1, <1>2, JourneyInvariantHolds, PTL
  DEF Spec, ImplementsRegistrations, DB!AtomicSpec

-----------------------------------------------------------------------------
\* What a step makes of a request, as far as its session id and the id of its
\* new session are concerned.
LEMMA RequestSteps ==
    ASSUME JourneyInvariant, [Next]_journeyVars, NEW s \in Slots
    PROVE  \/ pc'[s] = pc[s] /\ request'[s] = request[s]
           \/ pc'[s] \notin {"load", "handle", "findPerson", "createSession", "setSession"}
           \/ Send(s)
           \/ GetSession(s) /\ cache[request[s].sid] # None
           \/ /\ pc[s] \in {"load", "authenticate", "handle", "findPerson"}
              /\ pc'[s] # "setSession"
              /\ request'[s].newSid = request[s].newSid
<1> DEFINE Said(t) ==
               \/ pc'[t] = pc[t] /\ request'[t] = request[t]
               \/ pc'[t] \notin {"load", "handle", "findPerson", "createSession", "setSession"}
               \/ Send(t)
               \/ GetSession(t) /\ cache[request[t].sid] # None
               \/ /\ pc[t] \in {"load", "authenticate", "handle", "findPerson"}
                  /\ pc'[t] # "setSession"
                  /\ request'[t].newSid = request[t].newSid
<1>1. pc \in [Slots -> Control] /\ request \in [Slots -> Request \cup {None}]
  BY DEF JourneyInvariant, TypeOK
<1>2. \A t \in Slots : pc[t] # "idle" => request[t] \in Request
  BY RequestIsTyped
<1>3. ASSUME NEW t \in Slots, Reply(t) PROVE pc'[t] = "respond"
  BY <1>1, <1>3 DEF Reply, Finish, Goto
<1>4. ASSUME NEW t \in Slots, Load(t) \/ Guard(t) PROVE Said(t)
  <2>1. CASE Load(t) \/ Admit(t)
    BY <1>1, <1>2, <2>1 DEF Load, Admit, Goto, Request
  <2>2. CASE TurnAwayUnauthenticated(t) \/ TurnAwayUnregistered(t) \/ TurnAwayRegistered(t)
    BY <1>1, <2>2 DEF TurnAwayUnauthenticated, TurnAwayUnregistered, TurnAwayRegistered,
                      Reply, Finish, Goto
  <2>3. QED
    BY <1>4, <2>1, <2>2 DEF Guard
<1>5. ASSUME NEW t \in Slots, Handle(t) PROVE Said(t)
  <2>1. CASE VerifyIdToken(t) \/ FindRegisteredPerson(t)
    BY <1>1, <1>2, <2>1 DEF VerifyIdToken, FindRegisteredPerson, At, Goto, Request
  <2>2. CASE CreateSession(t) \/ CheckAnswers(t) \/ RegisterPerson(t)
    BY <1>1, <2>2 DEF CreateSession, SessionCreated, CheckAnswers, RegisterPerson,
                      Registered, Reply, Finish, Goto
  <2>3. CASE GetSession(t)
    BY <1>1, <2>3 DEF GetSession, SessionOf, Finish, Goto
  <2>4. CASE SignIn(t) \/ Start(t) \/ Unauthorised(t) \/ YourName(t) \/ ContactDetails(t)
             \/ RefuseAnswers(t) \/ SetSession(t) \/ Confirmation(t) \/ Serve(t)
             \/ SignOut(t) \/ SignedOut(t)
    BY <1>1, <2>4 DEF SignIn, Start, Unauthorised, YourName, ContactDetails, SetAnswers,
                      RefuseAnswers, SetSession, Confirmation, Serve, SignOut, SignedOut,
                      Reply, Finish, Goto
  <2>5. QED
    BY <1>5, <2>1, <2>2, <2>3, <2>4 DEF Handle
<1>6. ASSUME NEW t \in Slots, Respond(t) \/ Deliver(t) \/ Failure(t) PROVE Said(t)
  BY <1>1, <1>6 DEF Respond, Deliver, Failure, Fails, RegistrationLost, StoreLost,
                    ResponseLost, Ready, Close, Reply, Finish, Goto
<1>7. ASSUME NEW t \in Slots, t # s, Send(t) \/ Load(t) \/ Guard(t) \/ Handle(t)
                                     \/ Respond(t) \/ Deliver(t) \/ Failure(t)
      PROVE  pc'[s] = pc[s] /\ request'[s] = request[s]
  <2>1. CASE Send(t) \/ Load(t) \/ Guard(t)
    BY <1>1, <1>7, <2>1 DEF Send, Load, Guard, TurnAwayUnauthenticated, TurnAwayUnregistered,
        TurnAwayRegistered, Admit, Reply, Finish, Goto
  <2>2. CASE VerifyIdToken(t) \/ FindRegisteredPerson(t) \/ CreateSession(t)
    BY <1>1, <1>7, <2>2 DEF VerifyIdToken, FindRegisteredPerson, CreateSession,
        SessionCreated, Goto
  <2>3. CASE CheckAnswers(t) \/ RegisterPerson(t) \/ GetSession(t)
    BY <1>1, <1>7, <2>3 DEF CheckAnswers, RegisterPerson, Registered, GetSession, Reply,
        Finish, Goto
  <2>4. CASE SignIn(t) \/ Start(t) \/ Unauthorised(t) \/ YourName(t) \/ ContactDetails(t)
             \/ RefuseAnswers(t) \/ SetSession(t) \/ Confirmation(t) \/ Serve(t)
             \/ SignOut(t) \/ SignedOut(t)
    BY <1>1, <1>7, <2>4 DEF SignIn, Start, Unauthorised, YourName, ContactDetails, SetAnswers,
        RefuseAnswers, SetSession, Confirmation, Serve, SignOut, SignedOut, Reply, Finish, Goto
  <2>5. CASE Respond(t) \/ Deliver(t) \/ Failure(t)
    BY <1>1, <1>7, <2>5 DEF Respond, Deliver, Failure, Fails, RegistrationLost, StoreLost,
        ResponseLost, Ready, Close, Reply, Finish, Goto
  <2>6. QED
    BY <1>7, <2>1, <2>2, <2>3, <2>4, <2>5 DEF Handle
<1>8. CASE Crash
  BY <1>1, <1>8 DEF Crash
<1>9. CASE SessionExpires \/ StoreExpires \/ UNCHANGED journeyVars
  BY <1>9 DEF SessionExpires, StoreExpires, journeyVars
<1>10. QED
  BY <1>4, <1>5, <1>6, <1>7, <1>8, <1>9 DEF Next

\* Session ids that were signed out are known, and no sign-in still waits for
\* one of them.
SignedOutAreKnown ==
    /\ dropped \subseteq generated
    /\ \A s \in Slots : Pending(s) => request[s].newSid \notin dropped

SignOutInvariant == JourneyInvariant /\ SignedOutAreKnown

LEMMA DroppedSteps ==
    ASSUME [Next]_journeyVars
    PROVE  \/ UNCHANGED dropped
           \/ \E s \in Slots : SignOut(s)
<1>1. ASSUME NEW t \in Slots, Send(t) PROVE UNCHANGED dropped
  BY <1>1 DEF Send, historyVars
<1>2. ASSUME NEW t \in Slots, Load(t) \/ Guard(t) PROVE UNCHANGED dropped
  BY <1>2 DEF Load, Guard, TurnAwayUnauthenticated, TurnAwayUnregistered,
      TurnAwayRegistered, Admit, historyVars
<1>3. ASSUME NEW t \in Slots, Handle(t), ~SignOut(t) PROVE UNCHANGED dropped
  BY <1>3 DEF Handle, SignIn, Start, VerifyIdToken, Unauthorised, FindRegisteredPerson,
      CreateSession, SessionCreated, YourName, ContactDetails, SetAnswers, RefuseAnswers,
      CheckAnswers, RegisterPerson, GetSession, SetSession, Confirmation, Serve, SignedOut,
      historyVars
<1>4. ASSUME NEW t \in Slots, Respond(t) \/ Deliver(t) \/ Failure(t) PROVE UNCHANGED dropped
  BY <1>4 DEF Respond, Deliver, Failure, Fails, RegistrationLost, StoreLost, ResponseLost,
      historyVars
<1>5. Crash \/ SessionExpires \/ StoreExpires \/ UNCHANGED journeyVars => UNCHANGED dropped
  BY DEF Crash, SessionExpires, StoreExpires, journeyVars, historyVars
<1>6. QED
  BY <1>1, <1>2, <1>3, <1>4, <1>5 DEF Next

LEMMA NextKeepsSignedOut ==
    ASSUME SignOutInvariant, [Next]_journeyVars
    PROVE  SignOutInvariant'
<1>1. JourneyInvariant /\ SignedOutAreKnown /\ JourneyInvariant'
  BY NextKeepsInvariant DEF SignOutInvariant
<1>2. \A s \in Slots : SignOut(s) =>
          /\ pc[s] = "handle" /\ pc'[s] = "respond" /\ request[s].sid \in generated
          /\ dropped' = dropped \cup {request[s].sid} /\ UNCHANGED generated
          /\ \A t \in Slots \ {s} : pc'[t] = pc[t] /\ request'[t] = request[t]
  <2>1. SUFFICES ASSUME NEW s \in Slots, SignOut(s)
                 PROVE  /\ pc[s] = "handle" /\ pc'[s] = "respond" /\ request[s].sid \in generated
                        /\ dropped' = dropped \cup {request[s].sid} /\ UNCHANGED generated
                        /\ \A t \in Slots \ {s} : pc'[t] = pc[t] /\ request'[t] = request[t]
    OBVIOUS
  <2>2. Acting(s) /\ pc[s] = "handle"
    BY <2>1 DEF SignOut, At, Acting, Unguarded
  <2>3. request[s].sid \in generated
    BY <1>1, <2>2, RequestIsTyped DEF CarriesItsOwn
  <2>4. QED
    BY <1>1, <2>1, <2>2, <2>3 DEF SignOut, Finish, Goto, JourneyInvariant, TypeOK
<1>3. generated \subseteq generated'
  <2>1. ASSUME NEW s \in Slots, Send(s) PROVE generated \subseteq generated'
    BY <2>1 DEF Send
  <2>2. ASSUME NEW s \in Slots, Load(s) \/ Guard(s) \/ Respond(s) \/ Deliver(s) \/ Failure(s)
        PROVE  UNCHANGED generated
    BY <2>2 DEF Load, Guard, TurnAwayUnauthenticated, TurnAwayUnregistered, TurnAwayRegistered,
        Admit, Respond, Deliver, Failure, Fails, RegistrationLost, StoreLost, ResponseLost
  <2>3. ASSUME NEW s \in Slots, Handle(s) PROVE UNCHANGED generated
    BY <2>3 DEF Handle, SignIn, Start, VerifyIdToken, Unauthorised, FindRegisteredPerson,
        CreateSession, SessionCreated, YourName, ContactDetails, SetAnswers, RefuseAnswers,
        CheckAnswers, RegisterPerson, GetSession, SetSession, Confirmation, Serve, SignOut,
        SignedOut
  <2>4. Crash \/ SessionExpires \/ StoreExpires \/ UNCHANGED journeyVars => UNCHANGED generated
    BY DEF Crash, SessionExpires, StoreExpires, journeyVars
  <2>5. QED
    BY <2>1, <2>2, <2>3, <2>4 DEF Next
<1>4. dropped' \subseteq generated'
  BY <1>1, <1>2, <1>3, DroppedSteps DEF SignedOutAreKnown
<1>5. ASSUME NEW s \in Slots, Pending(s)' PROVE request'[s].newSid \notin dropped'
  <2>1. CASE Send(s)
    <3>1. request'[s].newSid \notin generated /\ UNCHANGED dropped
      BY <1>1, <1>5, <2>1 DEF Send, Pending, historyVars, JourneyInvariant, TypeOK
    <3>2. QED
      BY <1>1, <3>1 DEF SignedOutAreKnown
  <2>2. CASE ~Send(s)
    <3>1. Pending(s) /\ request'[s].newSid = request[s].newSid
      <4>1. pc'[s] \in {"load", "handle", "findPerson", "createSession"}
        BY <1>5 DEF Pending
      <4>2. CASE pc'[s] = pc[s] /\ request'[s] = request[s]
        BY <1>5, <4>2 DEF Pending
      <4>3. CASE pc[s] \in {"load", "authenticate", "handle", "findPerson"}
                 /\ request'[s].newSid = request[s].newSid
        <5>1. pc[s] # "authenticate"
          BY <1>1, <1>5, <4>3, RequestIsTyped DEF Pending, CarriesItsOwn, Unguarded
        <5>2. QED
          BY <1>5, <4>3, <5>1 DEF Pending
      <4>4. ~GetSession(s) \/ cache[request[s].sid] = None
        <5>1. GetSession(s) /\ cache[request[s].sid] # None => pc'[s] = "setSession"
          <6> SUFFICES ASSUME GetSession(s), cache[request[s].sid] # None
                       PROVE  pc'[s] = "setSession"
            OBVIOUS
          <6>1. pc[s] = "getSession"
            BY DEF GetSession
          <6>2. request[s].sid # None
            BY <1>1, <6>1, RequestIsTyped DEF CarriesItsOwn, Acting
          <6>3. Goto(s, "setSession") /\ pc \in [Slots -> Control]
            BY <1>1, <6>2 DEF GetSession, SessionOf, JourneyInvariant, TypeOK
          <6>4. QED
            BY <6>3 DEF Goto
        <5>2. QED
          BY <4>1, <5>1
      <4>5. QED
        BY <1>1, <2>2, <4>1, <4>2, <4>3, <4>4, RequestSteps
    <3>2. ASSUME NEW t \in Slots, SignOut(t) PROVE request[t].sid # request[s].newSid
      BY <1>1, <3>1, <3>2, <1>2, RequestIsTyped
      DEF JourneyInvariant, Apart, FitsRedis, Pending
    <3>3. QED
      BY <1>1, <1>2, <3>1, <3>2, DroppedSteps DEF SignedOutAreKnown
  <2>3. QED
    BY <2>1, <2>2
<1>6. QED
  BY <1>1, <1>4, <1>5 DEF SignOutInvariant, SignedOutAreKnown

\* Ids of sessions that were signed out are taken by no sign-in.
THEOREM SignOutInvariantHolds == Spec => []SignOutInvariant
<1>1. Init => SignOutInvariant
  BY InitHasInvariant DEF Init, SignOutInvariant, SignedOutAreKnown, Pending
<1>2. SignOutInvariant /\ [Next]_journeyVars => SignOutInvariant'
  BY NextKeepsSignedOut
<1>3. QED
  BY <1>1, <1>2, PTL DEF Spec

\* GoneForGood is undone neither by a sign-in, which takes a new id, nor by
\* updateSession, which does nothing when it finds no record.
LEMMA NobodyBringsItBack ==
    ASSUME SignOutInvariant, [Next]_journeyVars, NEW k \in SessionIds, GoneForGood(k)
    PROVE  GoneForGood(k)'
<1>1. /\ JourneyInvariant /\ SignedOutAreKnown
      /\ k \in dropped /\ cache[k] = None
      /\ \A s \in Slots : ~(pc[s] = "setSession" /\ request[s].sid = k)
  BY DEF SignOutInvariant, GoneForGood
<1>2. k \in dropped'
  BY <1>1, DroppedSteps DEF SignOut
<1>3. cache'[k] = None
  <2>1. cache \in [SessionIds -> Record \cup {None}]
    BY <1>1 DEF JourneyInvariant, TypeOK
  <2>2. ASSUME NEW s \in Slots, CreateSession(s) PROVE cache'[k] = None
    <3>1. /\ pc[s] = "createSession"
          /\ cache' = [cache EXCEPT ![request[s].newSid] = request[s].session]
      BY <2>2 DEF CreateSession, SessionCreated
    <3>2. Pending(s)
      BY <1>1, <3>1, RequestIsTyped DEF Pending, CarriesItsOwn
    <3>3. request[s].newSid # k
      BY <1>1, <3>2 DEF SignedOutAreKnown
    <3>4. QED
      BY <1>1, <2>1, <3>1, <3>3
  <2>3. ASSUME NEW s \in Slots, SetSession(s) PROVE cache'[k] = None
    BY <1>1, <2>1, <2>3 DEF SetSession
  <2>4. (\E s \in Slots : SignOut(s)) \/ SessionExpires => cache'[k] = None
    BY <1>1, <2>1 DEF SignOut, SessionExpires
  <2>5. QED
    BY <1>1, <2>2, <2>3, <2>4, RecordSteps
<1>4. ASSUME NEW s \in Slots PROVE ~(pc'[s] = "setSession" /\ request'[s].sid = k)
  <2> SUFFICES ASSUME pc'[s] = "setSession", request'[s].sid = k PROVE FALSE
    OBVIOUS
  <2>1. ~Send(s)
    BY <1>1 DEF Send, Goto, JourneyInvariant, TypeOK
  <2>2. GetSession(s) /\ cache[request[s].sid] # None
    BY <1>1, <2>1, RequestSteps
  <2>3. request'[s].sid = request[s].sid
    <3>1. pc[s] = "getSession" /\ request[s] \in Request
      BY <1>1, <2>2, RequestIsTyped DEF GetSession
    <3>2. \/ request' = [request EXCEPT ![s].session = SessionOf(s)]
          \/ Goto(s, "respond")
      BY <2>2 DEF GetSession, Finish
    <3>3. QED
      BY <1>1, <3>1, <3>2 DEF Goto, Request, JourneyInvariant, TypeOK
  <2>4. QED
    BY <1>1, <2>2, <2>3
<1>5. QED
  BY <1>2, <1>3, <1>4 DEF GoneForGood

\* SignedOutForGood: with any number of tabs and browsers, a session that was
\* signed out comes back only by a registration that had read it before.
THEOREM SignedOutAreGoneForGood == Spec => SignedOutForGood
<1>1. SignOutInvariant /\ [Next]_journeyVars =>
          [\A k \in SessionIds : GoneForGood(k) => GoneForGood(k)']_journeyVars
  BY NobodyBringsItBack
<1>2. QED
  BY <1>1, SignOutInvariantHolds, PTL DEF Spec, SignedOutForGood

\* SignedOutStaysOut, where one request is handled at a time: nobody is about to
\* write back what the request that signs out drops.
THEOREM SignedOutStayOut ==
    ASSUME \A s, t \in Slots : s = t
    PROVE  Spec => []SignedOutStaysOut
<1> DEFINE Inv == SignOutInvariant /\ \A k \in dropped : GoneForGood(k)
<1>1. Init => Inv
  BY InitHasInvariant DEF Init, SignOutInvariant, SignedOutAreKnown, Pending
<1>2. ASSUME Inv, [Next]_journeyVars PROVE Inv'
  <2>1. SignOutInvariant' /\ JourneyInvariant
    BY <1>2, NextKeepsSignedOut DEF SignOutInvariant
  <2>2. ASSUME NEW k \in dropped' PROVE GoneForGood(k)'
    <3>1. k \in SessionIds
      BY <2>1 DEF SignOutInvariant, JourneyInvariant, TypeOK
    <3>2. CASE k \in dropped
      BY <1>2, <3>1, <3>2, NobodyBringsItBack
    <3>3. CASE k \notin dropped
      <4>1. PICK s \in Slots : SignOut(s)
        BY <1>2, <3>3, DroppedSteps
      <4>2. /\ dropped' = dropped \cup {request[s].sid}
            /\ cache' = [cache EXCEPT ![request[s].sid] = None]
            /\ pc' = [pc EXCEPT ![s] = "respond"]
        BY <4>1 DEF SignOut, Finish, Goto
      <4>3. k = request[s].sid /\ cache'[k] = None /\ pc'[s] = "respond"
        BY <2>1, <3>1, <3>3, <4>2 DEF JourneyInvariant, TypeOK
      <4>4. \A t \in Slots : pc'[t] = "respond"
        BY <4>3
      <4>5. QED
        BY <4>3, <4>4 DEF GoneForGood
    <3>4. QED
      BY <3>2, <3>3
  <2>3. QED
    BY <2>1, <2>2
<1>3. Inv => SignedOutStaysOut
  BY DEF GoneForGood, SignedOutStaysOut
<1>4. QED
  BY <1>1, <1>2, <1>3, PTL DEF Spec

-----------------------------------------------------------------------------
\* A process that has just started, with whatever sessions Redis has and whatever
\* cookies browsers hold: the first start of all, and every later one.
Restarted ==
    /\ TypeOK
    /\ SessionsOwned
    /\ CookiesKnown
    /\ dropped \subseteq generated
    /\ \A s \in Slots : pc[s] = "idle"

\* Sessions in use survive a restart: PersonIsOwn, OnlyRegisteredAreServed,
\* SessionIsStable and SignedOutForGood hold from whatever a process finds when
\* it starts.
THEOREM SessionsInUse ==
    Restarted /\ [][Next]_journeyVars =>
        /\ [](PersonIsOwn /\ OnlyRegisteredAreServed)
        /\ SessionIsStable
        /\ SignedOutForGood
<1>1. Restarted => SignOutInvariant
  BY DEF Restarted, SignOutInvariant, SignedOutAreKnown, Pending, JourneyInvariant,
         RequestInvariant, Apart
<1>2. SignOutInvariant /\ [Next]_journeyVars => SignOutInvariant'
  BY NextKeepsSignedOut
<1>3. SignOutInvariant => PersonIsOwn /\ OnlyRegisteredAreServed
  BY TheServedAreRegistered DEF SignOutInvariant, JourneyInvariant, SessionsOwned, Owned, PersonIsOwn
<1>4. SignOutInvariant /\ [Next]_journeyVars =>
          [\A k \in SessionIds : cache[k] # None /\ cache'[k] # None =>
              /\ cache'[k].subject = cache[k].subject
              /\ cache[k].person # None => cache'[k].person = cache[k].person]_journeyVars
  BY SessionStaysTheAccounts DEF SignOutInvariant
<1>5. SignOutInvariant /\ [Next]_journeyVars =>
          [\A k \in SessionIds : GoneForGood(k) => GoneForGood(k)']_journeyVars
  BY NobodyBringsItBack
<1>6. QED
  BY <1>1, <1>2, <1>3, <1>4, <1>5, PTL DEF SessionIsStable, SignedOutForGood

=============================================================================
