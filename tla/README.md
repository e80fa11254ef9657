# Verification of the One Login example service

TLA+ models of the service in `src/`, the TLC runs that check them on small
instances and TLAPS proofs of the theorems that hold for every instance.
Line references are to files under `src/`.

The service lets a person sign in with GOV.UK One Login, register, create
businesses (organisations), invite other people to them by a link, and accept
such invitations. One Node.js process (Hapi) handles requests concurrently;
PostgreSQL keeps the records, Redis keeps the sessions.

## 1. Inventory

| Component | State it keeps | Operations | Talks to |
| --- | --- | --- | --- |
| Database schema (`changelog/`, `src/data/types.ts`) | six tables: person, external_identity, organisation, membership, invitation, audit_event | unique keys, foreign keys, CHECKs | everything below |
| Data access (`src/data/*.ts`) | none | one SQL statement per function, on the client it is given or on the pool | pool, PostgreSQL |
| Transactions and pool (`src/data/db.ts`) | the pool (at most `maxPoolSize` clients) | `withTransaction`: connect, BEGIN, work, COMMIT or ROLLBACK, release | PostgreSQL |
| Services (`src/services/*.ts`) | none | `registerPerson`, `createOrganisationWithOwner`, `inviteToOrganisation`, `acceptInvitation` | `withTransaction`, data access |
| Membership pre-handler (`src/auth/require-membership.ts`) | none | looks the membership up on the pool, answers 404 or 403 | data access |
| Business and invitation routes | none | GET and POST of create, invite, accept | services, session |
| Registration journey (`src/routes/register.ts`) | answers and `redirectTo`, in yar | three forms, check answers, register, confirmation | `registerPerson`, session store, yar |
| Sign in and out (`src/plugins/auth.ts`, `src/routes/auth.ts`) | bell's temporary cookie, the nonce in yar, the sid cookie | sign-in, callback, registration guard, sign-out, signed-out | One Login, session store, yar, discovery |
| Session stores (`src/auth/session-store.ts`, `src/plugins/session.ts`) | one record per sid and one store per browser, in Redis | create, get, update (get then set), delete; yar's load at request start and write at response | Redis |
| Discovery, JWKS, ID token (`src/auth/discovery.ts`, `jwks.ts`, `verify-id-token.ts`, `userinfo.ts`) | the cached document, the key set, and the document bell was given | cached reads with refresh, key set made or kept, keys loaded by jose | One Login |
| Client assertion (`src/auth/client-assertion.ts`) | the parsed key | signs for the token endpoint | configuration, bell |
| Server and configuration (`src/index.ts`, `server.ts`, `config/*.ts`, `plugins/index.ts`) | the configuration | validate, connect, register, listen | environment, PostgreSQL, Redis, One Login |
| View errors, error pages (`src/utils/view-errors.ts`, `src/plugins/errors.ts`) | none | what is wrong with a payload as a summary; 401, 403, 404, 500 as pages | routes |
| Redirect safety, headers, views, logging, assets | none | decorate responses, render | - |

What makes each of them correct:

* **Records.** A One Login account is one person, and every person has an
  account; an SBI is one business; every business has an owner; a person is in
  a business once. A membership was earned: by creating the business, or by
  accepting, before it expired, an invitation to one's own address with that
  permission. An invitation is accepted once, and was sent by an owner. The
  audit trail has exactly one event for each of these facts and none for what
  did not happen.
* **Transactions and pool.** Each operation happens entirely or not at all,
  whatever other requests do, whichever statement fails, whenever the process
  stops. Waits end: for a client of the pool, for a row another transaction
  has written.
* **Answers.** A page that announces success or a particular failure is true
  when it is sent.
* **Sign in, sign out, journey.** A session belongs to the account that signed
  in; a person registers once and then leaves the journey; a link followed
  before registering is not forgotten; a session that was signed out stays out.
* **Routes.** A stranger learns nothing of a business, not even that it exists,
  whichever of validation, pre-handler and handler answers. A page that is put
  together from two reads, or a decision that is made in two places, does not
  contradict itself. A redirect leads somewhere the caller may go.
* **Discovery.** The service starts with what it needs or not at all; an outage
  of One Login during a refresh is bridged by what was known before; once One
  Login has stopped changing, sign-ins are no longer refused.

Where the difficulty is (each entry, at its line, is in `PROJECT.json` under
`hazards`):

* every `await` is a point at which another request runs, and two of the
  services decide on rows they read before their transaction starts
  (`invitations.ts:58`, `require-membership.ts`);
* uniqueness is left to the database: an insert may wait for the key of a
  transaction that then commits or rolls back;
* `now()` is the start of the transaction and `Date.now()` the moment it is
  called (`invitation.ts:51-58`, `invitations.ts:30-37`);
* a statement, COMMIT or ROLLBACK may fail, COMMIT may succeed and its reply
  be lost, the process may stop anywhere;
* `recordAuditEvent` and the reads take the pool when they are given no
  client, which inside a transaction would mean holding one client while
  waiting for another;
* sessions are written by get-then-set, yar stores are written back whole, and
  both outlive the requests that race over them.

## 2. Modules

| Module | What it is |
| --- | --- |
| `Records` | the six tables as sets of rows, the clock, and what is true of them (the table invariants) |
| `AtomicRecords` | the abstract specification: the four operations, each one step |
| `AtomicRecordsProofs` | the table invariants are inductive over those four steps |
| `Transactions` | the code as it runs: requests as sequences of awaited statements, over the pool and the locks |
| `TransactionsProofs` | its inductive invariant, that it implements `AtomicRecords`, that it cannot deadlock |
| `AnswersProofs` | that what users are told is true, on top of it |
| `MCTransactions` | values, symmetries and the seeded state for TLC |
| `Journey` | browsers, sessions, the registration journey, sign-in and sign-out; instantiates `AtomicRecords` |
| `JourneyProofs` | sessions keep their account; what was signed out stays out; what is registered is what `AtomicRecords` allows |
| `MCJourney` | values, symmetries and the seeded state for TLC |
| `Gate` | a request's way through authentication, guard, validation, pre-handler and handler, over `AtomicRecords` |
| `GateProofs` | its invariant and what every kind of caller is answered |
| `ErrorSummaryProofs` | the error summary of a payload, by induction over the loop that makes it |
| `MCGate` | values and the inhabited state for TLC |
| `Discovery` | a process's start, its cached document and key set, One Login's changes and outages |
| `DiscoveryProofs` | a process that listens has its key and a document; once it has caught up with One Login it stays so |
| `MCDiscovery` | values for TLC |

### Records and AtomicRecords

The tables are `people`, `identities`, `organisations`, `memberships`,
`invitations` and `auditEvents`: sets of records with the columns that
decisions or keys depend on. Names, postal addresses, telephone numbers and
the raw token (an invitation is found by its id, as its hash is unique) are
left out. A primary or unique key is a condition under which a statement
throws, never part of the type. `audit_event` has a generated key, so the
same event twice would be two rows; `auditEvents` is a set of what the events
say, and that is enough because every event names a record that is created or
accepted once. "In time" is what the code means by it: `acceptedAt` is
PostgreSQL's `now()`, the start of the accepting transaction, so a claim written
after the expiry by a transaction that began before it is in time. `Lower` is
`toLowerCase()` on the addresses of the instance.

`AtomicRecords` says what a caller of the services is entitled to believe.
`RegisterPerson` adds a person, the link to the account and the audit event if
the account is not linked yet; `CreateOrganisationWithOwner` adds the
organisation, its owner and the event if the SBI is free;
`InviteToOrganisation` is allowed to an owner and stores the lower-cased
address; `AcceptInvitation` needs an invitation that is open, not expired and
addressed to the person, and a person who is not a member yet.

### Transactions

A *slot* is a request being handled. Every await of the code is one step:

| Code | Model |
| --- | --- |
| POST handlers reaching a service | `ArriveRegister`, `ArriveCreate`, `ArriveInvite`, `ArriveAccept` |
| `requireMembership(['owner'])`, then the expiry computed by `inviteToOrganisation` | `RequireMembership` |
| `getInvitationByToken` and the checks of `acceptInvitation` | `GetInvitationByToken` |
| `pool.connect()`, BEGIN | `BeginTransaction` |
| the data functions called in the transaction | `CreatePerson`, `LinkExternalIdentity`, `CreateOrganisation`, `AddMembership`, `CreateInvitation`, `MarkInvitationAccepted`, `RecordAuditEvent` |
| COMMIT, and a COMMIT whose reply is lost | `Commit`, `CommitLost` |
| catch and finally of `withTransaction`, the service's catch | `Throw`, `Rollback` |
| any statement, BEGIN, COMMIT or ROLLBACK that fails | `StatementFails` |
| the response | `Deliver` |
| the process stops | `Crash` |
| time | `Tick` |

The state of a slot is the statement it awaits (`pc`), its arguments and the
ids it will insert (`req`), the statements of its open transaction that have
run (`written`), whether it holds a client (`connected`) and the answer being
prepared (`answer`). Uncommitted rows are not in the tables: `Publish` adds
them at COMMIT. A statement that meets a key or row another open transaction
has written is not enabled until that transaction ends (`RowLockHolders`), and
is then evaluated on what is committed, as PostgreSQL does at READ COMMITTED.
A throw empties `written` at once, because PostgreSQL aborts the transaction,
but the client stays with the slot until ROLLBACK is done.

What is simplified, and why it loses nothing the properties need:

* There is one application process. A second one would be more slots and a
  second pool; a crash here ends every slot, the strongest case.
* One clock serves `Date.now()` and PostgreSQL's `now()`. With two clocks that
  disagree, an invitation could be accepted by one and not by the other; the
  claim in the UPDATE uses PostgreSQL's alone.
* Registration is attempted by any account at any time. The routes let a
  session through whose `personId` was missing when it was created, and there
  can be several such sessions: `Journey` has them.
* Ids are reserved when the request arrives and not when the INSERT runs.
  `gen_random_uuid` never repeats one either way.
* A failing statement or COMMIT, the ROLLBACK that follows and the release are
  one step (`StatementFails`, `CommitLost`). Between them the slot would hold a
  client, but no row and no uncommitted write, which is the state `Rollback`
  starts from after a key is found taken.
* Foreign-key locks are not modelled: no row is ever deleted and no key ever
  changes, so they never make a transaction wait for another.

### Journey

State: the two Redis segments (`cache`, session records by id; `yar`, one store
per browser), the accounts registered and with which answers (`people`), the
cookies of each browser (`sid`, `bell`), the flows it was sent to One Login with
(`asked`), and for each request in progress what it awaits and carries. A
request takes a copy of the store when it arrives (`Load`) and, if the handler
changed the copy, writes all of it back when the response is ready (`Respond`);
the cookies of the response reach the browser later still (`Deliver`).

| Code | Model |
| --- | --- |
| yar's onPreAuth and onPreResponse | `Load`, `Respond` |
| `validate`, then the guard in onPostAuth | `TurnAwayUnauthenticated`, `TurnAwayUnregistered`, `TurnAwayRegistered`, `Admit` |
| GET /auth/sign-in; bell's first leg with `providerParams` | `SignIn`, `Start` |
| the callback: nonce, ID token and userinfo; person; session | `VerifyIdToken` or `Unauthorised`, `FindRegisteredPerson`, `CreateSession` |
| the three registration POSTs | `YourName`, `ContactDetails`, `CheckAnswers` |
| `registerPerson`; `updateSession` read, and write | `RegisterPerson`; `GetSession`, `SetSession` |
| confirmation; POST /sign-out; /signed-out | `Confirmation`, `SignOut`, `SignedOut` |
| every other page or form | `Serve` |
| a call to Redis or PostgreSQL that throws; COMMIT with its reply lost; the store or the response lost; the process stops; TTLs | `Fails`, `RegistrationLost`, `StoreLost`, `ResponseLost`, `Crash`, `SessionExpires`, `StoreExpires` |

The browser may ask for any route at any time, in as many tabs as there are
slots; following a redirect is one such choice. An answer is named by the
account in whose session it was given, which is all that the properties tell
apart, and a person by the account that registered it, since
`EveryPersonHasOneIdentity` is proved. `getPersonById` is part of `validate`'s
step: persons are never deleted, so when it runs makes no difference.

`registerPerson` is one step because `RefinesAtomicRecords` is proved. In return
`ImplementsRegistrations` instantiates `AtomicRecords` over the journey's state
(accounts for persons, answers for addresses) and states that all the journey
does to the database is registrations of that specification.

What bell, yar and hapi do is taken from how the code uses them: bell refuses a
callback whose state is not its cookie's and clears the cookie; a yar store is
written only if `set`, `clear` or `reset` was called. `reset` gives the browser
a new store; the model has one store per browser, so that a late response of an
older request may write the old values back. `followed` and `dropped` are
history, read by properties alone.

### Gate

State: the tables of `Records`, for each slot the request it handles (`visit`),
and what callers were told of invitations and businesses (`told`, history). A
request goes through the stages of Hapi's lifecycle; each read of the database
between them is a step, and between any two steps other requests of the same or
another process may write: `Elsewhere` is any operation of `AtomicRecords`,
which is sound because `Transactions` is proved to implement it.

| Code | Model |
| --- | --- |
| any request, by anybody, with path and payload in order or not | `Arrive` |
| `auth: false`, mode `try`; 401 and its redirect; the registration guard | `ServeOpen`; `TurnAway`; `SendToRegistration` |
| validation of path, then of payload, and who handles its failure | `Validate` |
| `failAction` of POST invite, which runs before the pre-handler | `ShowErrors` |
| `requireMembership` | `RequireMembership` |
| pages without a decision; the two reads of the details; the page of an invitation | `ShowPage`; `ReadDetails`; `ShowInvitation` |
| create, invite, accept and their refusals | `Create`, `RefuseSbi`, `Invite`, `Accept`, `RefuseInvitation` |
| `buildViewErrors` | `BuildViewErrors`, the last of `ErrorsAfter`, which is the loop turn by turn (`ShowDetail`) |
| a read or write that throws, an id the database refuses: 500 | `Fails` |

A payload is what Joi has to say of it, a sequence of fields and messages
(`Refusals`); a path parameter is an id or `Malformed`. Writes take effect in
one step with the handler, where `Transactions` has the statements. Who the
caller is was read once, by the strategy, as `Journey` has it. A malformed id
in POST invite reaches `failAction`, as the form has one for both, and the
database refuses it, so the answer is the page of 500 and not of 404; and a
member who is not an owner is shown the invite form again by an invalid
payload, where a valid one would be forbidden. Neither tells a stranger
anything, which is what `StrangersSeeNothing` is about.

### Discovery

State: how far the process has come (`life`), its configuration, the cached
document, key set and the document bell was given, for each caller how far it
is in its awaits (`call`), and One Login's side: where its endpoints are
(`published`), the key it signs with, whether it answers.

| Code | Model |
| --- | --- |
| `config.validate`; the postgres plugin; `getOpenIdConfiguration` of the auth plugin; `server.start` | `Start`; `ConnectPostgres`; `Boot` with `RegisterStrategy`; `StartServer` |
| a fresh document; the fetch, its answer, its failure | `ServeCached`; `Ask`, `Respond`, `Receive`; `FetchFails` |
| what the reader of the document does next | `Proceed` |
| `getJwks`; jose's load, cooldown and expiry of keys | `GetJwks`; `VerificationWith`, `Reload` |
| bell's exchange of the code, with the client assertion; userinfo | `ExchangeCode`, `ClientAssertion`; `GetUserInfo` |
| One Login moves an endpoint, rotates its key, goes down, comes back | `Move`, `Rotate`, `GoDown`, `Recover` |
| the process stops; a dependency is missing at the start | `Crash` |

Nobody waits for another's refresh: `Ask` and `Receive` of several callers
interleave, and an older answer may replace a newer one, for its whole max-age.
A setting is unset, fit or unfit for its format. One Login's keys overlap: the
current and the one before are published together. jose's load of them is one
step, at the moment One Login answers it; whether a load is allowed yet is
decided at that moment too, slightly later than jose decides it. The issuer is
constant, as One Login's is; what jose checks beside the key (audience, times, algorithm) is
not modelled, and the nonce is in `Journey`.

## 3. Runs

The first table's are runs of `MCTransactions`, the second's of `MCJourney`,
the third's of `MCGate` and `MCDiscovery`.

| Run | Instance | What it shows |
| --- | --- | --- |
| `registry` | from the empty database; 2 requests at once, 2 accounts, people, businesses and SBIs, 1 invitation, 2 spellings of one address, clock 0..1 | types and the inductive invariant; one account is one person, an SBI one business, every business has an owner; the audit trail matches; what is told is true, that an account or an SBI is taken included; every COMMIT is one operation of `AtomicRecords` |
| `acceptance` | a business in use; 2 requests at once over 2 connections, 2 invitations (member and owner) to one address, which two people gave in different case, a third person who is an owner already, one more invitation to be sent; clock 0..1, invitations expire at 1 | a link admits one person, in time, nobody twice; invitations come from owners, though the check is made before the transaction; a membership comes from an invitation to that address with that permission; what each person is told is true; no deadlock; the rows the run starts from satisfy `TransactionsInvariant`, as the theorems about a business in use assume of any |
| `answered` | from the empty database; 3 requests over 2 connections, 2 people of one account | with the pool exhausted, no requests wait only for each other; with fairness, every request is answered, whatever fails |
| `wrong_account` | one request at a time | the README's promise about invited accounts, which the code does not keep (section 6) |

| Run | Instance | What it shows |
| --- | --- | --- |
| `one_by_one` | from nothing; 1 browser, 1 request at a time, every route, 2 accounts, 2 sessions, 2 flows, 1 failure or crash | types; a session signed out does not come back, as long as requests do not overlap; pages and forms run for the registered only; whatever fails or stops after a registration is committed, it stays the account's only one |
| `tabs` | 2 browsers, 2 requests at once, of one browser or of both; signed in, answers given, a tab of one back from One Login | sessions keep their account and person; one that was signed out comes back only by an `updateSession` that had begun before; the account is registered once, with the answers of one request, which stay |
| `reached_twice`, `signed_out`, `lost_invitation`, `others_answers` | the smallest instance that has the case | section 6 |

| Run | Instance | What it shows |
| --- | --- | --- |
| `gate` | a business with an owner and a second person; 1 request in progress and everything else by `Elsewhere`; 2 businesses, 1 invitation, 2 spellings of an address, clock 0..1, payloads refused in four ways | strangers are answered as if the business did not exist; the page of an invitation and its form agree; nobody is listed twice; an error summary has the first message of each field; a business one was redirected to opens |
| `discovery` | from a stopped process in every environment; 2 requests at once, 2 changes of One Login, 1 outage or crash | a process that serves has its key; a request never fails for want of a document; once caught up with One Login, the process is not taken back by anything in flight; refusals end |

Why these bounds. Every conflict in the code is between two requests over one
key: an account, an SBI, an invitation, a membership. Two slots with two values
of each give all of them, with a spare value so that requests may also miss
each other. The third slot in `answered` is there for the pool:
with two connections and three requests someone waits for a client while others
wait for rows; in `acceptance`, two requests over two connections are enough to
wait for rows. Two invitations to one business are needed for a person to be
admitted twice, and two people with the invited address for a link to be used
twice. A clock of two values puts an expiry before, at and after each of the
reads that compare it. Symmetry is over slots, accounts, ids and SBIs, which
the code only compares; it is not used in the liveness run. Bounds are
constants (`MaxClock`, `MaxFailures`, the sets, `Routes`); no action is cut
short by any other. Deadlock is checked in every run.

In `Journey`, two requests of one browser are what it takes for one to use what
the other has changed: a record between the two calls of `updateSession`, a
store between load and write. A second browser is needed for a second session
of one account. `Routes` restricts what the browsers of a run ask for: `tabs`
has the routes that write what its properties read, and
`one_by_one` has all of them. The seeded state is a
state that sign-ins and answers lead to, so those runs spend their depth on the
races after it.

In `Gate` one slot is enough for the races of one request, because what others
do is `Elsewhere`; what is told to two requests one after the other is in
`told`. One invitation and two businesses give an invitation to one's own and
to another business. The proofs cover any number of slots. In `Discovery`, two
callers are what it takes for an older answer to land after a newer one and for
a key set to be replaced while it is loaded; two changes give a document that
is one change behind and two. Times are one tick, but for the key set's maximal
age of two, so that it is in turn cooling down, usable and too old.
`MaxAges = {None}` makes every document last `discoveryCacheTtl`; a header that
says otherwise changes only how many ticks that is.

**Fairness.** `FairSpec` asks strong fairness of each slot's `Step`: a request
that could go on again and again goes on. It is strong because a step that
needs a client of the pool or a row can be enabled and disabled by others
before it is taken; pg-pool serves its waiters in order and PostgreSQL wakes
those who wait for a row, so that a wait that could end again and again does
end. Nothing is assumed of arrivals, failures, crashes or time.

In `Discovery`, `OwnFairness` is weak fairness of time and of each caller's own
next step: the event loop runs what is ready. `OneLoginFairness` says that an
outage ends and that One Login, or the network in its place, gives every
request an answer or an error. The code does not guarantee that by itself:
`Wreck.get` is called without a timeout (`discovery.ts:33`), so that a
connection which stays open and silent holds its request for as long as the
network lets it. `RefusalsEnd` needs no fairness of Start, One Login's changes,
crashes or new requests. It excepts sign-ins after the token endpoint has
moved: bell and the assertion keep the one they were given at the start
(`plugins/auth.ts:25-63`) until the process is restarted.

## 4. Proofs

The proofs are about every value of the constants: any number of requests,
accounts, businesses, invitations, browsers and sessions, any pool size, any
clock. The assumptions are those the modules name, and TLC evaluates them in
every run. In `Records`: `Lower` is idempotent on the addresses
(`LowerAssumption`), lifetime and clock are naturals (`ClockAssumption`). In
`Transactions`: the pool has a client (`PoolAssumption`), each account a login
address (`LoginEmailAssumption`). In `Journey`: the failures of a run are a
natural number (`FailuresAssumption`), the routes are the service's
(`RoutesAssumption`). In `Gate`: a refused payload has something wrong with it
(`RefusalsAssumption`). In `Discovery`: the bounds and lifetimes are naturals
(`BoundsAssumption`, `TimesAssumption`), the auth plugin is no request
(`CallersAssumption`), the private key is among the settings
(`SettingsAssumption`). In all of them `None` is none of the values it stands
beside (`NoneAssumption`, `NoneIsNoOperation`).

| Theorem | Statement |
| --- | --- |
| `AtomicRecordsAreConsistent` | `AtomicSpec => []Consistent`: all table invariants, over the atomic operations |
| `InvariantHolds` | `Spec => []TransactionsInvariant` |
| `InvariantHoldsInUse`, `StepsStayAtomic` | `AtRest /\ [][Next]_vars => []TransactionsInvariant`, `StepsAreAtomic`: the same from any database a process may find |
| `TypesHold` | `Spec => []TypeOK` |
| `RefinesAtomicRecords` | `Spec => ImplementsAtomicRecords` |
| `AccountsStayUnique`, `SbisStayUnique`, `OwnersStay`, `MembershipsStayUnique`, `OnlyOwnersInvite`, `MembershipsStayEarned`, `AcceptancesAreInTime`, `LinksAdmitOnce`, `AuditTrailIsTrue` | `Spec => []` each table invariant, over the statements |
| `NoRequestsDeadlock` | `Spec => []NoDeadlock` |
| `GateInvariantHolds`, `GateTypesHold` | of `Gate`, `Spec => []GateInvariant`, `[]TypeOK` |
| `StrangersNeverSee`, `PageAndFormAlwaysAgree`, `NobodyIsEverListedTwice` | `Spec => []` the invariants of those names |
| `RedirectedBusinessAlwaysOpens` | `Spec => RedirectedBusinessOpens`, an action property |
| `GateInUse` | `Quiet /\ [][Next]_vars =>` those invariants and that action property: the same from any consistent database |
| `FirstMessagesWin` | of `Gate`, `Spec => []FirstMessageWins` |
| `AnswersStayTrueInUse`, `AnswersStayTrue` | of `Transactions`, `[]AnswersAreTrue`, from `AtRest` and from the empty database |
| `JourneyInvariantHolds`, `JourneyTypesHold` | of `Journey`, `Spec => []JourneyInvariant`, `[]TypeOK` |
| `PersonsAreOwn`, `OnlyTheRegisteredAreServed` | `Spec => []PersonIsOwn`, `[]OnlyRegisteredAreServed` |
| `SessionsStayStable` | `Spec => SessionIsStable`, an action property |
| `SignOutInvariantHolds` | `Spec => []SignOutInvariant`: `JourneyInvariant` with what is known of signed-out sessions |
| `SignedOutAreGoneForGood` | `Spec => SignedOutForGood`, an action property |
| `SignedOutStayOut` | `Spec => []SignedOutStaysOut`, if there is one slot |
| `SessionsInUse` | `Restarted /\ [][Next]_journeyVars => [](PersonIsOwn /\ OnlyRegisteredAreServed) /\ SessionIsStable /\ SignedOutForGood` |
| `RegistrationsAreAtomic` | `Spec => ImplementsRegistrations`, a refinement |
| `ServiceInvariantHolds`, `DiscoveryTypesHold` | of `Discovery`, `Spec => []ServiceInvariant`, `[]TypeOK` |
| `KeysAreThere`, `DocumentsAreThere` | `Spec => []FailsFast`, `[]OutagesAreBridged` |
| `NobodyIsRefusedOnceCaughtUp` | `Spec => NoRefusalOnceCaughtUp`, an action property |

*Consistency.* `Consistent` is a conjunction of the table invariants and is
inductive as a whole: that a membership was earned, for instance, is kept by
`AcceptInvitation` only because the invitation's sender and address are
themselves invariant, and because ids are keys.

*The inductive invariant.* That the tables are consistent is not inductive over
statements: a COMMIT publishes rows whose conditions were checked several steps
earlier. `TransactionsInvariant` adds what carries those checks to the COMMIT:

* `RequestIsComplete`: the request has the fields its operation needs;
* `WrittenInOrder`: a slot holds a client exactly while its transaction is
  open, and has written exactly the statements that come before the one it
  awaits;
* `StillHolds`: what the slot read or wrote is still so in the committed
  tables: an owner is still an owner, the key it inserted is still free, the
  invitation it claimed is still open;
* `Exclusive`: no two slots generated one id or have one key written.

`StillHolds` of a slot survives the COMMIT of another because of `Exclusive`;
`Exclusive` survives a statement because of the row locks. At COMMIT the two
give the guard of the atomic operation, so the step is a step of
`AtomicRecords`; every other step leaves the tables alone. That gives the
refinement, and consistency follows from `AtomicRecordsProofs`. The refinement
mapping is the identity: both specifications are about the same tables, so
`Transactions` extends `AtomicRecords`, and `ImplementsAtomicRecords` is its
specification.

*From any database.* A process seldom starts on an empty database. `AtRest` is
what it finds: any rows that satisfy `Consistent`, and no request in progress.
The invariant holds there (`RestHasInvariant`), and nothing in its
preservation looks at where the run began, so the theorems follow for every
start, and those about `Spec` from them, the empty database being consistent.
`acceptance` starts from such rows and checks that they satisfy the invariant,
so that `StepsStayAtomic` and `AnswersStayTrueInUse` are about that run, too.
`Quiet` is the same for `Gate`, whose run starts with a business and its owner.

*No deadlock.* A request that waits for a client of the pool holds none and has
written nothing, so nobody waits for it; whoever it waits for holds a client.
A request that waits for a row waits for one that has written that row and is
therefore at a later statement. Among the statements that can wait, only
`addMembership` comes after another one (`createOrganisation` or
`markInvitationAccepted`), and a request that has written a membership has no
waiting statement left. A chain of waits thus has at most three links, and its
last request can go on.

*Gate.* The tables only grow (`Grows`): rows are added, an invitation keeps its
id and address when it is accepted, and only whoever it is addressed to, and is
no member yet, accepts it. So what a request has read stays true while it waits
(`VisitInvariant`): past the guard the caller is registered, past the
pre-handler a member with that permission, the people it listed are members and
none of them has an acceptance of an invitation it found open. And what a
caller was told stays true afterwards (`StillTrue`): a business opens, an
address matches or does not. `PageAndFormAgree` needs the latter together with
`Consistent`, by which an acceptance is always of one's own address.

*Error summary.* `BuildViewErrors` is a loop, and what it shows of a sequence of
any length needs induction on the number of turns. The library's induction
theorems take an operator, so `ErrorSummaryProofs` first states induction for a
set of naturals (`Induction`), from the least element that well-foundedness
gives (`WFMin`), and uses it twice: to show that the function that records the
turns exists (`TurnsExist`), and that after n turns the summary has the first of
each field's messages among the first n details, in their order, and `fields`
the same ones (`ErrorsShowFirst`, one turn being `OneTurn`).

*Answers.* An answer is decided by one statement and read some steps later, so
`AnswersInvariant` adds to `TransactionsInvariant` that the reason held since
(`AnswerHolds`, from the throw through ROLLBACK to the response), and that a
token that is followed is an invitation's or nobody's (`TokenKnown`). What
keeps it is `RowsStay`, which every atomic operation has and by the refinement
every step: rows are not taken away, an invitation keeps its id and address, and
one that is still open was not touched. So an invitation that was not valid
cannot become valid while its user is told so.

*Journey.* `PersonIsOwn` is about Redis, but is kept only because of what
requests in progress carry: `updateSession` writes a record it read earlier to
an id that may have been dropped or expired meanwhile. `JourneyInvariant` says
that a session id stands for one account, in Redis and in every request past the
guard that acts with it (`FitsRedis`, `Apart`), and that an id just generated is
nobody's: no record, no cookie and no other request has it. With it the write of
`updateSession` can only restore the account the id had, whatever was signed out
or lost in between, and `SetSession` is the only step that changes a record
that stays (`SessionSteps`). A record's person, if any, is registered (`Owned`),
and stays so as `people` only grows. Every step either registers an account
that was nobody's, or leaves accounts and answers alone (`RegistrationSteps`),
which is the refinement.

*Sign-out.* `SignedOutStaysOut`, that Redis never again has a session that was
signed out, is false where requests overlap (section 6), so what holds then is
stated exactly: a session is `GoneForGood` when it was dropped, Redis does not
have it and no request is between the two calls of `updateSession` with it, and
`SignedOutForGood` says that nothing undoes that. `SignOutInvariant` adds to
`JourneyInvariant` that what was dropped had been generated
(`SignedOutAreKnown`), and that no id still to be created was dropped: so
`CreateSession` cannot bring it back, `GetSession` does not find it, and
`SetSession` writes only what a request had read before. With one slot the
request that signs out is the only one, nobody is in between, and every dropped
session is gone for good, which is `SignedOutStaysOut`; the hypothesis of
`SignedOutStayOut`, that any two slots are one, is what the `one_by_one` run has.
`SessionsInUse` is about a process that starts on sessions and cookies left by
an earlier one (`Restarted`).

*Discovery.* The configuration is validated before anything else and never
changes, so whoever signs has the key (`FailsFast`). `OutagesAreBridged` says
that no caller gets an error for want of a document; only the first read, by
the auth plugin before the server listens, may. For that `ServiceInvariant`
ties the caches to how far the process has come: it is past the plugin only
with a document, and no step of a living process gives one up without
another. A caller that waits for a fetch when the process stops is gone with it.

*Catching up.* `RefusalsEnd` is liveness, but it rests on a safety property that
is proved. `CaughtUp` says that nothing older than One Login is left that could
still be used: a cached document is current or has expired, an answer on its
way back is current, a key set of the current jwks_uri has the current keys or
has cooled down, and calls under way are to where One Login is, with tokens
whose key it publishes. `NoRefusalOnceCaughtUp` says that while One Login stays
as it is, every step keeps this, late answers, expiries and crashes included,
and refuses nobody but for bell's token endpoint. The proof follows what a
caller carries through its awaits (`ServiceInvariant`: it waits for a document
only at the stages that read one) and the three ways to get a key set: made
from the current document, kept as it is, loaded. What TLC shows beyond it is
that the process does catch up.

*Only model-checked.* `EveryRequestIsAnswered` and `RefusalsEnd` are liveness
under fairness, which the provers here do not reach. The five properties of
section 6 are false, `SignedOutStaysOut` for overlapping requests only. Every
other property of a passing run is a theorem.

## 5. Not modelled

GET /sign-out and unknown paths change nothing and are open or harmless to
everybody; assets are files. The cookies' own lifetimes are left out: losing a
cookie is never starting a session, and the records behind them expire. Crumb's
token is taken to be there on every POST. `getSafeRedirect` is a function of
the characters of one string. The encoding, signature and lifetime of the
client assertion, and the claims jose checks, are data that no decision of the
service tells apart. Rendering, headers, content security policy and logging
have no state. Shutdown (`pulse`, `closeDb`) ends what `Crash` ends more
abruptly. `updatePerson` is never called. The development key script runs before the
service does. A discovery document that arrives with status 200 and cannot be
used is left out. Foreign-key errors cannot happen, as ids come from rows that are
never deleted. The service sends no email: the link is shown on a page.

## 6. Findings

Each is something the repository says of itself and a run that reaches the
opposite.

| Run | What is said | What the code does |
| --- | --- | --- |
| `wrong_account` | `README.md:67`, of /invitations/{token}: "Requires signing in with a One Login account whose email matches" | `invitations.ts:64` compares `person.email`, typed at /register/contact-details. An invited account that gave another address is refused for good, since nothing updates it, and is shown `src/views/invitations/wrong-account.njk:10`: "You are signed in with a different email address to the one the invitation was sent to." |
| `reached_twice` | `README.md:62`, of the registration forms: "Only reachable once per One Login account" | the guard reads `personId` of the session. A second session of the account, or one whose update failed, is let in again; its submission goes to /organisations, from there to /register/your-name, and so on until the next sign-in |
| `signed_out` | `README.md:143`, of the tokens: "can be revoked instantly" | `updateSession` writes back what it read, so a sign-out in between is undone |
| `lost_invitation` | `plugins/auth.ts:117`: "Remembered so an invitation link still works after registering." | any GET the guard turns away replaces it, the Back link of the first form included; so does asking for the confirmation before registering, which the guard allows (`register.ts:152`) |
| `others_answers` | `README.md:68`, of /account: "The signed in person's own details" | answers stay in the browser's store when another account signs in, and are what it is registered with |

## 7. Plan

1. `Records`, `AtomicRecords`, `Transactions`, `Gate`, `Journey`, `Discovery`
   and their proofs: done.
2. Theorems about the rest of what the passing runs check, liveness excepted:
   done.
3. Worth adding: a bound, in `Discovery`, on how long an older document may
   replace a newer one; the refinement of `Journey` from whatever a process
   finds.
