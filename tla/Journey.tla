------------------------------ MODULE Journey ------------------------------
(***************************************************************************)
(* Signing in, registering and signing out, as browsers see it.  A slot is *)
(* a request being handled; several may be in progress, of one browser or  *)
(* of many.  Each await of the code is a step: the load of the browser's   *)
(* yar store when the request arrives, the session record, One Login, the  *)
(* database, and the write of the whole store when the response is ready.  *)
(*                                                                         *)
(* registerPerson is one step here: that it may be taken for one is what   *)
(* Transactions is about.                                                  *)
(***************************************************************************)
EXTENDS Naturals

CONSTANTS
    Browsers,
    Slots,          \* requests that may be in progress at once
    Subjects,       \* One Login accounts
    SessionIds,     \* values of randomUUID in createSession
    Flows,          \* sign-ins: the nonce of each, and bell's state with it
    Links,          \* paths of invitations
    Routes,         \* bound: the routes that browsers ask for
    MaxFailures,    \* bound: failures and crashes in one behaviour
    None            \* null or undefined

ASSUME FailuresAssumption == MaxFailures \in Nat

VARIABLES
    cache,          \* Redis, segment session: the record of each session id
    yar,            \* Redis, segment session-temp: each browser's store
    people,         \* the answers each account was registered with
    sid,            \* the cookie of that name in each browser
    bell,           \* bell's temporary cookie in each browser: a flow's state
    generated,      \* nonces and session ids, counted from the arrival of the
                    \* request that generates them
    asked,          \* flows each browser was sent to One Login with
    pc,             \* what each slot awaits
    request,        \* the request each slot handles
    failures,       \* how many there were
    dropped,        \* history: sessions that were signed out
    followed        \* history: the invitation each browser was turned away from

journeyVars == <<cache, yar, people, sid, bell, generated, asked, pc, request,
                 failures, dropped, followed>>

-----------------------------------------------------------------------------
\* Routes, by how they are guarded.

Home == "/"

\* registrationPaths, and those of them under /register that the guard closes
\* to the registered.  "forms" are the GETs of the three steps.
Forms == {"forms", "yourName", "contactDetails", "checkAnswers"}
AllowedBeforeRegistration == Forms \cup {"confirmation", "signOut"}

\* Everything else that needs a session: a GET of some path, a POST.
Business == {"page", "action"}

\* auth: false, and the callback, which bell authenticates: "start" is its GET
\* without a code, which sends the browser to One Login.
Unguarded == {"signIn", "start", "callback", "signedOut"}

AllRoutes == AllowedBeforeRegistration \cup Business \cup Unguarded

ASSUME RoutesAssumption == Routes \subseteq AllRoutes

Paths == Links \cup {Home}

\* A session record: the account, and personId named by the account it is of.
Record == [subject : Subjects, person : Subjects \cup {None}]

\* A yar store.  An answer is named by the account whose session gave it:
\* `name` is givenName and familyName, `contact` is email and telephone.
Store == [name : Subjects \cup {None}, contact : Subjects \cup {None},
          redirectTo : Paths \cup {None}, nonce : Flows \cup {None}]

Blank == [name |-> None, contact |-> None, redirectTo |-> None, nonce |-> None]

Answers == [name : Subjects, contact : Subjects]

ASSUME NoneAssumption == None \notin Subjects \cup SessionIds \cup Flows \cup Links \cup Answers

\* What a response does to the browser's cookies.
Outcomes == {None, "reply", "started", "signedIn", "signedOut"}

\* `account` is whom One Login authenticated, `state` what bell's cookie held
\* when the request was sent, `touched` whether the handler changed the store.
Request == [browser : Browsers, route : AllRoutes, path : Paths,
            sid : SessionIds \cup {None}, state : Flows \cup {None},
            flow : Flows \cup {None}, account : Subjects \cup {None},
            newSid : SessionIds \cup {None}, store : Store, touched : BOOLEAN, session : Record \cup {None},
            outcome : Outcomes]

Control == {"idle", "load", "authenticate", "handle", "findPerson", "createSession",
            "register", "getSession", "setSession", "respond", "deliver"}

\* The pieces of state keep to their types: the store of a browser, what a
\* request carries, and what is kept of both between the steps.
TypeOK ==
    /\ cache \in [SessionIds -> Record \cup {None}]
    /\ yar \in [Browsers -> Store]
    /\ people \in [Subjects -> Answers \cup {None}]
    /\ sid \in [Browsers -> SessionIds \cup {None}]
    /\ bell \in [Browsers -> Flows \cup {None}]
    /\ generated \subseteq Flows \cup SessionIds
    /\ asked \in [Browsers -> SUBSET Flows]
    /\ pc \in [Slots -> Control]
    /\ request \in [Slots -> Request \cup {None}]
    /\ failures \in 0 .. MaxFailures
    /\ dropped \subseteq SessionIds
    /\ followed \in [Browsers -> Links \cup {None}]

Init ==
    /\ cache = [k \in SessionIds |-> None]
    /\ yar = [b \in Browsers |-> Blank]
    /\ people = [a \in Subjects |-> None]
    /\ sid = [b \in Browsers |-> None]
    /\ bell = [b \in Browsers |-> None]
    /\ generated = {}
    /\ asked = [b \in Browsers |-> {}]
    /\ pc = [s \in Slots |-> "idle"]
    /\ request = [s \in Slots |-> None]
    /\ failures = 0
    /\ dropped = {}
    /\ followed = [b \in Browsers |-> None]

-----------------------------------------------------------------------------
redisVars == <<cache, yar>>
browserVars == <<sid, bell, asked>>
historyVars == <<dropped, followed>>

Goto(s, label) == pc' = [pc EXCEPT ![s] = label]

\* The handler is done: it leaves the store as `store` and answers `outcome`.
Finish(s, store, touched, outcome) ==
    /\ request' = [request EXCEPT ![s].store = store, ![s].touched = touched,
                                  ![s].outcome = outcome]
    /\ Goto(s, "respond")

\* ... without a change to the store.
Reply(s) == Finish(s, request[s].store, request[s].touched, "reply")

At(s, route) == pc[s] = "handle" /\ request[s].route = route

-----------------------------------------------------------------------------
\* A browser sends a request, with the cookies it holds.  A callback comes from
\* One Login, for a flow this browser was sent there with, as any account.
Send(s) ==
    \E b \in Browsers, route \in Routes, path \in Paths,
       flow \in Flows \cup {None}, account \in Subjects \cup {None},
       newSid \in SessionIds \cup {None} :
        /\ pc[s] = "idle"
        /\ path # Home => route \in {"page", "signIn"}
        /\ CASE route = "start" -> flow \in Flows \ generated
             [] route = "callback" -> flow \in asked[b]
             [] OTHER -> flow = None
        /\ IF route = "callback"
           THEN account \in Subjects /\ newSid \in SessionIds \ generated
           ELSE account = None /\ newSid = None
        /\ request' = [request EXCEPT ![s] =
               [browser |-> b, route |-> route, path |-> path, sid |-> sid[b],
                state |-> bell[b], flow |-> flow, account |-> account, newSid |-> newSid,
                store |-> Blank, touched |-> FALSE, session |-> None, outcome |-> None]]
        /\ generated' = generated \cup ({flow, newSid} \ {None})
        /\ Goto(s, "load")
        /\ UNCHANGED <<redisVars, people, browserVars, failures, historyVars>>

\* yar, in onPreAuth: the request works on a copy of the store.
Load(s) ==
    /\ pc[s] = "load"
    /\ request' = [request EXCEPT ![s].store = yar[request[s].browser]]
    /\ Goto(s, IF request[s].route \in Unguarded THEN "handle" ELSE "authenticate")
    /\ UNCHANGED <<redisVars, people, browserVars, generated, failures, historyVars>>

SessionOf(s) == IF request[s].sid = None THEN None ELSE cache[request[s].sid]

\* No session: the strategy answers with a redirect to /auth/sign-in, the home
\* page, whose mode is `try`, with itself.
TurnAwayUnauthenticated(s) ==
    /\ pc[s] = "authenticate"
    /\ SessionOf(s) = None
    /\ Reply(s)
    /\ UNCHANGED <<redisVars, people, browserVars, generated, failures, historyVars>>

\* The guard, in onPostAuth: registration first.  A GET is remembered.
TurnAwayUnregistered(s) ==
    LET r == request[s] IN
    /\ pc[s] = "authenticate"
    /\ SessionOf(s) # None
    /\ SessionOf(s).person = None
    /\ r.route \notin AllowedBeforeRegistration
    /\ IF r.route = "page"
       THEN /\ Finish(s, [r.store EXCEPT !.redirectTo = r.path], TRUE, "reply")
            /\ followed' = [followed EXCEPT ![r.browser] = IF r.path \in Links THEN r.path ELSE @]
       ELSE Reply(s) /\ UNCHANGED followed
    /\ UNCHANGED <<redisVars, people, browserVars, generated, failures, dropped>>

\* The guard: whoever is registered is sent to /organisations.
TurnAwayRegistered(s) ==
    /\ pc[s] = "authenticate"
    /\ SessionOf(s) # None
    /\ SessionOf(s).person # None
    /\ request[s].route \in Forms
    /\ Reply(s)
    /\ UNCHANGED <<redisVars, people, browserVars, generated, failures, historyVars>>

\* Mutant: the guard looks only at GETs, as what it remembers does.
AdmitForms(s) ==
    /\ pc[s] = "authenticate"
    /\ SessionOf(s) # None
    /\ IF SessionOf(s).person = None
       THEN request[s].route \in AllowedBeforeRegistration \cup {"action"}
       ELSE request[s].route \notin Forms
    /\ request' = [request EXCEPT ![s].session = SessionOf(s)]
    /\ Goto(s, "handle")
    /\ UNCHANGED <<redisVars, people, browserVars, generated, failures, historyVars>>

\* Past the guard: the handler runs with the session as its credentials.
Admit(s) ==
    /\ pc[s] = "authenticate"
    /\ SessionOf(s) # None
    /\ IF SessionOf(s).person = None
       THEN request[s].route \in AllowedBeforeRegistration
       ELSE request[s].route \notin Forms
    /\ request' = [request EXCEPT ![s].session = SessionOf(s)]
    /\ Goto(s, "handle")
    /\ UNCHANGED <<redisVars, people, browserVars, generated, failures, historyVars>>

-----------------------------------------------------------------------------
\* Signing in.

\* GET /auth/sign-in: remembers where to go, forgetting where the guard was.
SignIn(s) ==
    LET r == request[s] IN
    /\ At(s, "signIn")
    /\ Finish(s, [r.store EXCEPT !.redirectTo = r.path], TRUE, "reply")
    /\ followed' = [followed EXCEPT ![r.browser] = None]
    /\ UNCHANGED <<redisVars, people, browserVars, generated, failures, dropped>>

\* GET /auth/callback without a code: providerParams stores a new nonce, and
\* bell's response sets its cookie and sends the browser to One Login.
Start(s) ==
    LET r == request[s] IN
    /\ At(s, "start")
    /\ Finish(s, [r.store EXCEPT !.nonce = r.flow], TRUE, "started")
    /\ UNCHANGED <<redisVars, people, browserVars, generated, failures, historyVars>>

\* Back from One Login: bell has compared the state with its cookie and
\* exchanged the code, the ID token has the nonce of its flow.  The nonce in
\* the store is used up either way.
VerifyIdToken(s) ==
    LET r == request[s] IN
    /\ At(s, "callback")
    /\ r.state = r.flow
    /\ r.store.nonce = r.flow
    /\ request' = [request EXCEPT ![s].store.nonce = None, ![s].touched = TRUE]
    /\ Goto(s, "findPerson")
    /\ UNCHANGED <<redisVars, people, browserVars, generated, failures, historyVars>>

\* One Login refuses, or the state or nonce is another flow's: 401.
Unauthorised(s) ==
    /\ At(s, "callback")
    /\ Finish(s, [request[s].store EXCEPT !.nonce = None], TRUE, "reply")
    /\ UNCHANGED <<redisVars, people, browserVars, generated, failures, historyVars>>

FindRegisteredPerson(s) ==
    LET account == request[s].account IN
    /\ pc[s] = "findPerson"
    /\ request' = [request EXCEPT ![s].session =
           [subject |-> account, person |-> IF people[account] = None THEN None ELSE account]]
    /\ Goto(s, "createSession")
    /\ UNCHANGED <<redisVars, people, browserVars, generated, failures, historyVars>>

\* Whoever is registered goes where they asked to; whoever is not goes to
\* /register/your-name and what they asked for is kept.
SessionCreated(s, k) ==
    LET r == request[s]
        registered == r.session.person # None
    IN /\ pc[s] = "createSession"
       /\ cache' = [cache EXCEPT ![k] = r.session]
       /\ request' = [request EXCEPT ![s].sid = k, ![s].outcome = "signedIn",
              ![s].store.redirectTo = IF registered THEN None ELSE @]
       /\ Goto(s, "respond")
       /\ UNCHANGED <<yar, people, browserVars, generated, failures, historyVars>>

\* Mutant: the session id of the browser is kept from one sign-in to the next.
CreateSessionInPlace(s) ==
    SessionCreated(s, IF request[s].sid # None THEN request[s].sid ELSE request[s].newSid)

CreateSession(s) == SessionCreated(s, request[s].newSid)

-----------------------------------------------------------------------------
\* Registering.

\* POST /register/your-name and /register/contact-details, with valid answers.
SetAnswers(s, field) ==
    LET r == request[s] IN
    /\ Finish(s, [r.store EXCEPT ![field] = r.session.subject], TRUE, "reply")
    /\ UNCHANGED <<redisVars, people, browserVars, generated, failures, historyVars>>

YourName(s) == At(s, "yourName") /\ SetAnswers(s, "name")

ContactDetails(s) == At(s, "contactDetails") /\ SetAnswers(s, "contact")

\* ... and with others: the form again, with what is wrong.
RefuseAnswers(s) ==
    /\ At(s, "yourName") \/ At(s, "contactDetails")
    /\ Reply(s)
    /\ UNCHANGED <<redisVars, people, browserVars, generated, failures, historyVars>>

\* Mutant: the answers are not looked at.
CheckNothing(s) ==
    /\ At(s, "checkAnswers")
    /\ Goto(s, "register")
    /\ UNCHANGED <<redisVars, people, browserVars, generated, request, failures, historyVars>>

\* POST /register/check-answers.
CheckAnswers(s) ==
    LET store == request[s].store IN
    /\ At(s, "checkAnswers")
    /\ IF store.name = None \/ store.contact = None
       THEN Reply(s)
       ELSE Goto(s, "register") /\ UNCHANGED request
    /\ UNCHANGED <<redisVars, people, browserVars, generated, failures, historyVars>>

AnswersIn(store) == [name |-> store.name, contact |-> store.contact]

\* The handler goes on to updateSession with the id of the new person.
Registered(s) ==
    /\ request' = [request EXCEPT ![s].account = request[s].session.subject]
    /\ Goto(s, "getSession")

\* Mutant: a second registration of an account updates the first.
RegisterPersonAgain(s) ==
    LET r == request[s] IN
    /\ pc[s] = "register"
    /\ people' = [people EXCEPT ![r.session.subject] = AnswersIn(r.store)]
    /\ Registered(s)
    /\ UNCHANGED <<redisVars, browserVars, generated, failures, historyVars>>

\* registerPerson, and the catch of AlreadyRegisteredError, which leaves the
\* session as it is and redirects to /organisations.
RegisterPerson(s) ==
    LET r == request[s] IN
    /\ pc[s] = "register"
    /\ IF people[r.session.subject] = None
       THEN /\ people' = [people EXCEPT ![r.session.subject] = AnswersIn(r.store)]
            /\ Registered(s)
       ELSE Reply(s) /\ UNCHANGED people
    /\ UNCHANGED <<redisVars, browserVars, generated, failures, historyVars>>

\* Mutant: updateSession takes the credentials for what is in the record.
GetCredentials(s) ==
    /\ pc[s] = "getSession"
    /\ Goto(s, "setSession")
    /\ UNCHANGED <<redisVars, people, browserVars, generated, request, failures, historyVars>>

\* updateSession reads the record, which may be gone ...
GetSession(s) ==
    LET r == request[s] IN
    /\ pc[s] = "getSession"
    /\ IF SessionOf(s) = None
       THEN Finish(s, [r.store EXCEPT !.name = None, !.contact = None], TRUE, "reply")
       ELSE /\ request' = [request EXCEPT ![s].session = SessionOf(s)]
            /\ Goto(s, "setSession")
    /\ UNCHANGED <<redisVars, people, browserVars, generated, failures, historyVars>>

\* ... and writes what it read back, with the person in it.
SetSession(s) ==
    LET r == request[s] IN
    /\ pc[s] = "setSession"
    /\ cache' = [cache EXCEPT ![r.sid] = [r.session EXCEPT !.person = r.account]]
    /\ Finish(s, [r.store EXCEPT !.name = None, !.contact = None], TRUE, "reply")
    /\ UNCHANGED <<yar, people, browserVars, generated, failures, historyVars>>

\* GET /register/confirmation offers the remembered path, or /organisations.
Confirmation(s) ==
    LET r == request[s] IN
    /\ At(s, "confirmation")
    /\ Finish(s, [r.store EXCEPT !.redirectTo = None], TRUE, "reply")
    /\ followed' = [followed EXCEPT ![r.browser] = IF r.session.person = None THEN @ ELSE None]
    /\ UNCHANGED <<redisVars, people, browserVars, generated, failures, dropped>>

\* The other pages and forms change no state that is modelled here.
Serve(s) ==
    /\ \E route \in Business \cup {"forms"} : At(s, route)
    /\ Reply(s)
    /\ UNCHANGED <<redisVars, people, browserVars, generated, failures, historyVars>>

-----------------------------------------------------------------------------
\* Signing out.

\* Mutant: only the cookie goes.
SignOutOfBrowser(s) ==
    LET r == request[s] IN
    /\ At(s, "signOut")
    /\ dropped' = dropped \cup {r.sid}
    /\ Finish(s, r.store, TRUE, "signedOut")
    /\ UNCHANGED <<redisVars, people, browserVars, generated, failures, followed>>

\* POST /sign-out: the session goes first.  The state for One Login is put in
\* the store, so that the store is written back.
SignOut(s) ==
    LET r == request[s] IN
    /\ At(s, "signOut")
    /\ cache' = [cache EXCEPT ![r.sid] = None]
    /\ dropped' = dropped \cup {r.sid}
    /\ Finish(s, r.store, TRUE, "signedOut")
    /\ UNCHANGED <<yar, people, browserVars, generated, failures, followed>>

\* GET /signed-out, where One Login sends the browser: yar.reset.
SignedOut(s) ==
    LET r == request[s] IN
    /\ At(s, "signedOut")
    /\ Finish(s, Blank, TRUE, "reply")
    /\ followed' = [followed EXCEPT ![r.browser] = None]
    /\ UNCHANGED <<redisVars, people, browserVars, generated, failures, dropped>>

-----------------------------------------------------------------------------
\* Responses.

\* The handler's copies of the store and the session are done with.
Ready(s) ==
    /\ request' = [request EXCEPT ![s].store = Blank, ![s].touched = FALSE, ![s].session = None]
    /\ Goto(s, "deliver")

\* yar, in onPreResponse: a store the handler changed is written whole.
Respond(s) ==
    LET r == request[s] IN
    /\ pc[s] = "respond"
    /\ yar' = IF r.touched THEN [yar EXCEPT ![r.browser] = r.store] ELSE yar
    /\ Ready(s)
    /\ UNCHANGED <<cache, people, browserVars, generated, failures, historyVars>>

Close(s) ==
    /\ request' = [request EXCEPT ![s] = None]
    /\ Goto(s, "idle")

\* The browser takes the cookies of the response.  Bell's is cleared by every
\* callback.
Deliver(s) ==
    LET r == request[s] IN
    /\ pc[s] = "deliver"
    /\ sid' = CASE r.outcome = "signedIn" -> [sid EXCEPT ![r.browser] = r.sid]
                 [] r.outcome = "signedOut" -> [sid EXCEPT ![r.browser] = None]
                 [] OTHER -> sid
    /\ bell' = CASE r.outcome = "started" -> [bell EXCEPT ![r.browser] = r.flow]
                  [] r.route = "callback" -> [bell EXCEPT ![r.browser] = None]
                  [] OTHER -> bell
    /\ asked' = IF r.outcome = "started"
                THEN [asked EXCEPT ![r.browser] = @ \cup {r.flow}] ELSE asked
    /\ Close(s)
    /\ UNCHANGED <<redisVars, people, generated, failures, historyVars>>

-----------------------------------------------------------------------------
\* Failures.

Failing == failures < MaxFailures /\ failures' = failures + 1

\* A call to Redis or PostgreSQL throws, without effect, and the error page is
\* the answer; a callback catches the error and answers 401.
Fails(s) ==
    /\ Failing
    /\ \/ pc[s] \in {"load", "authenticate", "findPerson", "createSession", "register",
                     "getSession", "setSession"}
       \/ At(s, "signOut")
    /\ Reply(s)
    /\ UNCHANGED <<redisVars, people, browserVars, generated, historyVars>>

\* COMMIT happened and its reply was lost.
RegistrationLost(s) ==
    LET r == request[s] IN
    /\ Failing
    /\ pc[s] = "register"
    /\ people[r.session.subject] = None
    /\ people' = [people EXCEPT ![r.session.subject] = AnswersIn(r.store)]
    /\ Reply(s)
    /\ UNCHANGED <<redisVars, browserVars, generated, historyVars>>

\* The store is not written, though the cookies are sent.
StoreLost(s) ==
    /\ Failing
    /\ pc[s] = "respond"
    /\ Ready(s)
    /\ UNCHANGED <<redisVars, people, browserVars, generated, historyVars>>

\* The response never arrives.
ResponseLost(s) ==
    /\ Failing
    /\ pc[s] = "deliver"
    /\ Close(s)
    /\ UNCHANGED <<redisVars, people, browserVars, generated, historyVars>>

\* The process stops; Redis, PostgreSQL and the browsers go on.
Crash ==
    /\ Failing
    /\ \E s \in Slots : pc[s] # "idle"
    /\ pc' = [s \in Slots |-> "idle"]
    /\ request' = [s \in Slots |-> None]
    /\ UNCHANGED <<redisVars, people, browserVars, generated, historyVars>>

\* cache.ttl: a session record or a store is gone.
SessionExpires ==
    \E k \in SessionIds :
        /\ cache[k] # None
        /\ cache' = [cache EXCEPT ![k] = None]
        /\ UNCHANGED <<yar, people, browserVars, generated, pc, request, failures, historyVars>>

StoreExpires ==
    \E b \in Browsers :
        /\ yar[b] # Blank
        /\ yar' = [yar EXCEPT ![b] = Blank]
        /\ followed' = [followed EXCEPT ![b] = None]
        /\ UNCHANGED <<cache, people, browserVars, generated, pc, request, failures, dropped>>

-----------------------------------------------------------------------------
Guard(s) ==
    \/ TurnAwayUnauthenticated(s)
    \/ TurnAwayUnregistered(s)
    \/ TurnAwayRegistered(s)
    \/ Admit(s)

Handle(s) ==
    \/ SignIn(s) \/ Start(s) \/ VerifyIdToken(s) \/ Unauthorised(s)
    \/ FindRegisteredPerson(s) \/ CreateSession(s)
    \/ YourName(s) \/ ContactDetails(s) \/ RefuseAnswers(s) \/ CheckAnswers(s)
    \/ RegisterPerson(s) \/ GetSession(s) \/ SetSession(s)
    \/ Confirmation(s) \/ Serve(s) \/ SignOut(s) \/ SignedOut(s)

Failure(s) == Fails(s) \/ RegistrationLost(s) \/ StoreLost(s) \/ ResponseLost(s)

Next ==
    \/ \E s \in Slots : \/ Send(s) \/ Load(s) \/ Guard(s) \/ Handle(s)
                       \/ Respond(s) \/ Deliver(s) \/ Failure(s)
    \/ Crash
    \/ SessionExpires
    \/ StoreExpires

Spec == Init /\ [][Next]_journeyVars

-----------------------------------------------------------------------------
\* What the database is told, in the terms of AtomicRecords: accounts stand for
\* the persons they register, answers for the address in them.
RegisteredAccounts == {a \in Subjects : people[a] # None}

DB == INSTANCE AtomicRecords WITH
    People <- Subjects, Organisations <- {}, Invitations <- {}, Emails <- Subjects,
    Lower <- [e \in Subjects |-> e], Sbis <- {}, Lifetime <- 1, MaxClock <- 0, clock <- 0,
    people <- {[id |-> a, email |-> people[a].contact] : a \in RegisteredAccounts},
    identities <- {[subject |-> a, person |-> a] : a \in RegisteredAccounts},
    organisations <- {}, memberships <- {}, invitations <- {},
    auditEvents <- {[eventType |-> "person.registered", person |-> a,
                     organisation |-> None, invitation |-> None] : a \in RegisteredAccounts}

\* However tabs, sessions and failures interleave, the journey registers every
\* account at most once and never changes what it was registered with: seen
\* from the database, it is the registrations of AtomicRecords.
ImplementsRegistrations == DB!AtomicSpec

\* A session id stands for one account as long as its record lives, and once it
\* knows its person it keeps it: neither updateSession, which writes back a
\* record it read earlier, nor another sign-in makes it somebody else's.
SessionIsStable ==
    [][\A k \in SessionIds : cache[k] # None /\ cache'[k] # None =>
          /\ cache'[k].subject = cache[k].subject
          /\ cache[k].person # None => cache'[k].person = cache[k].person]_journeyVars

\* The person a session acts as is that of its own account, and is registered.
PersonIsOwn ==
    \A k \in SessionIds : cache[k] # None /\ cache[k].person # None =>
        cache[k].person = cache[k].subject /\ people[cache[k].person] # None

\* The pages and forms of the service run for the registered only, whatever
\* became of the session after it was read.
OnlyRegisteredAreServed ==
    \A s \in Slots : pc[s] = "handle" /\ request[s].route \in Business =>
        request[s].session # None /\ people[request[s].session.subject] # None

\* Signed out, with no request that is about to write back what it has read.
GoneForGood(k) ==
    /\ k \in dropped
    /\ cache[k] = None
    /\ ~\E s \in Slots : pc[s] = "setSession" /\ request[s].sid = k

\* The one way back for a session that was signed out is a registration that had
\* read its record before.  With none in progress it never comes back: no sign-in
\* takes its id again, and updateSession does not restore what it finds gone.
SignedOutForGood ==
    [][\A k \in SessionIds : GoneForGood(k) => GoneForGood(k)']_journeyVars

-----------------------------------------------------------------------------
\* What the documentation says and the code does not do.

\* README.md:62 of /register: "Only reachable once per One Login account".  The
\* forms are not shown, nor taken, once the account is registered.
RegistrationReachableOnce ==
    \A s \in Slots :
        (\E route \in Forms : At(s, route)) => people[request[s].session.subject] = None

\* README.md:143 of the tokens in Redis: they "can be revoked instantly".  The
\* session that was signed out is gone for good.
SignedOutStaysOut == \A k \in dropped : cache[k] = None

\* plugins/auth.ts:117, of redirectTo: "Remembered so an invitation link still
\* works after registering".  Whoever has registered is offered the invitation
\* they were turned away from.
InvitationIsRemembered ==
    \A s \in Slots :
        LET r == request[s] IN
        /\ At(s, "confirmation")
        /\ r.session.person # None
        /\ followed[r.browser] # None
        => r.store.redirectTo = followed[r.browser]

\* README.md:68, of /account: "The signed in person's own details".
DetailsAreOwn ==
    \A a \in RegisteredAccounts : people[a].name = a /\ people[a].contact = a

=============================================================================
