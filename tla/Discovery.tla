----------------------------- MODULE Discovery -----------------------------
(***************************************************************************)
(* What one process of the service knows of GOV.UK One Login, and when.    *)
(* The process starts, or stops again, by what its environment and its     *)
(* dependencies are like; it then keeps the discovery document, and the    *)
(* key set the document leads to, while One Login moves its endpoints,     *)
(* rotates its keys and is unavailable now and then.                       *)
(*                                                                         *)
(* A call is a request that needs the document: a sign-in coming back, a   *)
(* registration, a sign-out; Boot is the plugin that reads it first.  A    *)
(* refresh is in flight between Ask and Receive, and so may be others.     *)
(***************************************************************************)
EXTENDS Naturals

CONSTANTS
    Slots,              \* requests that may be in progress at once
    Boot,               \* the auth plugin, being registered
    Settings,           \* settings of the environment, a subset of AllSettings
    MaxAges,            \* max-age of the documents' Cache-Control, None if it has none
    DiscoveryCacheTtl,  \* oneLogin.discoveryCacheTtl, in ticks as all times here
    CooldownDuration,   \* of the key set
    CacheMaxAge,        \* of the key set
    MaxChanges,         \* bound: moves and rotations in one behaviour
    MaxFailures,        \* bound: outages and stops in one behaviour
    None                \* null or undefined

ASSUME TimesAssumption ==
    /\ DiscoveryCacheTtl \in Nat /\ MaxAges \subseteq Nat \cup {None}
    /\ CacheMaxAge \in Nat /\ CooldownDuration \in 0 .. CacheMaxAge

ASSUME BoundsAssumption == MaxChanges \in Nat /\ MaxFailures \in Nat

ASSUME CallersAssumption == Boot \notin Slots

VARIABLES
    life,               \* how far the process has come
    config,             \* the configuration it runs with
    cached,             \* the discovery document it has, and how long it is good for
    keySet,             \* its key set, of a jwks_uri: keys and their age
    bell,               \* the document whose endpoints bell was given
    call,               \* what each caller is doing
    published,          \* One Login: where its endpoints are
    signing,            \* One Login: the key it signs with
    up,                 \* One Login: whether it answers
    changes, failures

processVars == <<life, config, cached, keySet, bell, call>>
oneLoginVars == <<published, signing, up>>
discoveryVars == <<processVars, oneLoginVars, changes, failures>>

-----------------------------------------------------------------------------
\* Configuration.  A value is unset, acceptable in its format, or not.

Values == {None, "fit", "unfit"}

\* Settings whose default is null: the process needs them to be set.
Required == {"clientId", "privateKey", "cookiePassword", "postgresPassword"}

\* Settings with a default, or without one in production, that text may be unfit
\* for or missing.  The others are strings, or numbers and Booleans, which are
\* made of any text.
Optional == {"env", "host", "port", "logLevel", "uiLocales", "postgresPort",
             "redisPort", "redisPassword"}
AnyText == {"clientId", "postgresPassword", "redisPassword"}

AllSettings == Required \cup Optional

ASSUME SettingsAssumption == "privateKey" \in Settings /\ Settings \subseteq AllSettings

\* The password of Redis may be left out, except in production.
Default(setting, production) ==
    IF setting \in Required \/ (setting = "redisPassword" /\ production) THEN None ELSE "fit"

Configuration(environment, production) ==
    [x \in Settings |-> IF environment[x] = None THEN Default(x, production)
                        ELSE IF x \in AnyText THEN "fit" ELSE environment[x]]

\* Mutant: a key that is there is not parsed until it is needed.
ValidUntilUsed(configuration) ==
    \A x \in Settings : IF x = "privateKey" THEN configuration[x] # None ELSE configuration[x] = "fit"

\* config.validate; a private key is parsed, a cookie password measured.
Valid(configuration) == \A x \in Settings : configuration[x] = "fit"

-----------------------------------------------------------------------------
Endpoints == {"token", "jwks", "userinfo"}

\* A document is where each endpoint is; the issuer never changes.
Document == [Endpoints -> 0 .. MaxChanges]

Response == [document : Document, maxAge : MaxAges]

\* The document a process has, with the time it is good for; its key set.
CachedDocument == [document : Document, left : Nat]
KeySet == [uri : 0 .. MaxChanges, keys : 0 .. MaxChanges \cup {None}, age : 0 .. CacheMaxAge]

ASSUME NoneAssumption == None \notin CachedDocument \cup KeySet

Callers == Slots \cup {Boot}

\* Stages that await getOpenIdConfiguration, the last of a call among them: of
\* issuer, for the account, and of end_session_endpoint.  Those that await One
\* Login.  And the ends of what did not go well.
LastReads == {"account", "endSession"}
Reads == {"plugin", "issuer", "keys", "userinfo"} \cup LastReads
Exchanges == {"token", "reload", "profile"}
Ends == {"refused", "failed"}

\* `fetch` is how far the request for a document has come, `reply` its answer.
Call == [stage : Reads \cup Exchanges \cup Ends, fetch : {"none", "asked", "answered"},
         reply : Response \cup {None},
         uri : 0 .. MaxChanges \cup {None}, key : 0 .. MaxChanges \cup {None}]

\* The process, its caches, the calls and One Login keep to their types, and
\* only a process that listens has calls.
TypeOK ==
    /\ life \in {"stopped", "connecting", "registering", "starting", "listening"}
    /\ config \in [Settings -> Values] \cup {None}
    /\ cached \in CachedDocument \cup {None}
    /\ keySet \in KeySet \cup {None}
    /\ bell \in Document \cup {None}
    /\ call \in [Callers -> Call \cup {None}]
    /\ \A s \in Slots : call[s] # None => life = "listening"
    /\ published \in Document
    /\ signing \in 0 .. MaxChanges
    /\ up \in BOOLEAN
    /\ changes \in 0 .. MaxChanges /\ failures \in 0 .. MaxFailures

Idle == [c \in Callers |-> None]

Init ==
    /\ life = "stopped"
    /\ config = None /\ cached = None /\ keySet = None /\ bell = None
    /\ call = Idle
    /\ published = [e \in Endpoints |-> 0]
    /\ signing = 0
    /\ up = TRUE
    /\ changes = 0 /\ failures = 0

-----------------------------------------------------------------------------
\* Starting and stopping.

NewCall(stage) == [stage |-> stage, fetch |-> "none", reply |-> None, uri |-> None, key |-> None]

\* node src/index.ts: with an invalid configuration it goes no further.
Start ==
    /\ life = "stopped"
    /\ \E environment \in [Settings -> Values], production \in BOOLEAN :
        /\ Valid(Configuration(environment, production))
        /\ config' = Configuration(environment, production)
    /\ life' = "connecting"
    /\ UNCHANGED <<cached, keySet, bell, call, oneLoginVars, changes, failures>>

\* The postgres plugin: SELECT 1.  Then the auth plugin is registered.
ConnectPostgres ==
    /\ life = "connecting"
    /\ life' = "registering"
    /\ call' = [call EXCEPT ![Boot] = NewCall("plugin")]
    /\ UNCHANGED <<config, cached, keySet, bell, oneLoginVars, changes, failures>>

\* server.start: Redis answers, the port is free.
StartServer ==
    /\ life = "starting"
    /\ life' = "listening"
    /\ UNCHANGED <<config, cached, keySet, bell, call, oneLoginVars, changes, failures>>

Stopped ==
    /\ life' = "stopped"
    /\ config' = None /\ cached' = None /\ keySet' = None /\ bell' = None
    /\ call' = Idle

\* PostgreSQL or Redis fails while starting, or the process stops at any time.
Crash ==
    /\ life # "stopped"
    /\ failures < MaxFailures
    /\ failures' = failures + 1
    /\ Stopped
    /\ UNCHANGED <<oneLoginVars, changes>>

-----------------------------------------------------------------------------
\* The document.

\* The caller goes on, with what it still needs: the endpoint it is to call, the
\* key of a token that is not verified yet.
Continue(c, stage, uri) ==
    call' = [call EXCEPT ![c] = [stage |-> stage, fetch |-> "none", reply |-> None,
        uri |-> IF stage \in Exchanges THEN uri ELSE None,
        key |-> IF stage \in {"keys", "reload"} THEN call[c].key ELSE None]]

\* The auth plugin gives bell the endpoints it is to use from now on.
RegisterStrategy(document) ==
    /\ bell' = document
    /\ life' = "starting"
    /\ call' = [call EXCEPT ![Boot] = None]
    /\ UNCHANGED keySet

\* One Login's keys overlap: the one it signs with, and the one before.
KeysOf(newest) == {n \in 0 .. newest : newest <= n + 1}

\* jose: a key set that is not loaded, or too old, is loaded; one that lacks
\* the key is loaded again unless it is cooling down.
VerificationWith(keys, key) ==
    IF keys.keys = None \/ keys.age = CacheMaxAge THEN "reload"
    ELSE IF key \in KeysOf(keys.keys) THEN "userinfo"
    ELSE IF keys.age < CooldownDuration THEN "refused" ELSE "reload"

NewKeySet(uri) == [uri |-> uri, keys |-> None, age |-> 0]

\* Mutant: the key set is made once.
FirstJwks(document) == IF keySet = None THEN NewKeySet(document.jwks) ELSE keySet

GetJwks(document) ==
    IF keySet = None \/ keySet.uri # document.jwks THEN NewKeySet(document.jwks) ELSE keySet

\* What comes after the reads of issuer, for the token, and userinfo_endpoint.
Following == [issuer |-> "keys", userinfo |-> "profile"]

\* getOpenIdConfiguration returns to its caller.
Proceed(c, document) ==
    \/ /\ call[c].stage = "plugin"
       /\ RegisterStrategy(document)
    \/ /\ call[c].stage = "keys"
       /\ keySet' = GetJwks(document)
       /\ Continue(c, VerificationWith(keySet', call[c].key), keySet'.uri)
       /\ UNCHANGED <<bell, life>>
    \/ /\ call[c].stage \in DOMAIN Following
       /\ Continue(c, Following[call[c].stage], document.userinfo)
       /\ UNCHANGED <<bell, life, keySet>>
    \/ /\ call[c].stage \in LastReads
       /\ call' = [call EXCEPT ![c] = None]
       /\ UNCHANGED <<bell, life, keySet>>

Reading(c, fetch) == call[c] # None /\ call[c].stage \in Reads /\ call[c].fetch = fetch

Fresh == cached # None /\ cached.left > 0

ServeCached(c) ==
    /\ Reading(c, "none")
    /\ Fresh
    /\ Proceed(c, cached.document)
    /\ UNCHANGED <<config, cached, oneLoginVars, changes, failures>>

\* Nobody waits for the refresh of another.
Ask(c) ==
    /\ Reading(c, "none")
    /\ ~Fresh
    /\ call' = [call EXCEPT ![c].fetch = "asked"]
    /\ UNCHANGED <<life, config, cached, keySet, bell, oneLoginVars, changes, failures>>

Respond(c) ==
    /\ Reading(c, "asked")
    /\ up
    /\ \E age \in MaxAges :
        call' = [call EXCEPT ![c].fetch = "answered",
                             ![c].reply = [document |-> published, maxAge |-> age]]
    /\ UNCHANGED <<life, config, cached, keySet, bell, oneLoginVars, changes, failures>>

\* Mutant: no max-age, no number.
MaxAgeOfHeader(response) == response.maxAge

GetMaxAge(response) == IF response.maxAge = None THEN DiscoveryCacheTtl ELSE response.maxAge

\* The answer is kept, though a later one may have been received before it.
Receive(c) ==
    LET response == call[c].reply IN
    /\ Reading(c, "answered")
    /\ cached' = [document |-> response.document, left |-> GetMaxAge(response)]
    /\ Proceed(c, response.document)
    /\ UNCHANGED <<config, oneLoginVars, changes, failures>>

\* Mutant: a document that could not be refreshed is given up.
FetchFailsForGood(c) ==
    /\ Reading(c, "asked")
    /\ ~up
    /\ IF c = Boot THEN Stopped
       ELSE /\ Continue(c, "failed", None)
            /\ UNCHANGED <<life, config, keySet, bell>>
    /\ cached' = None
    /\ UNCHANGED <<oneLoginVars, changes, failures>>

\* One Login cannot be reached, or its status is not 200: the document of
\* before serves, if there is one.  The plugin's error stops the process.
FetchFails(c) ==
    /\ Reading(c, "asked")
    /\ ~up
    /\ IF cached # None
       THEN Proceed(c, cached.document) /\ UNCHANGED <<config, cached>>
       ELSE IF c = Boot THEN Stopped
       ELSE /\ Continue(c, "failed", None)
            /\ UNCHANGED <<life, config, cached, keySet, bell>>
    /\ UNCHANGED <<oneLoginVars, changes, failures>>

-----------------------------------------------------------------------------
\* Calls.

\* GET /auth/callback, POST /register/check-answers, POST /sign-out.
Send(s) ==
    /\ life = "listening"
    /\ call[s] = None
    /\ \E stage \in {"token", "account", "endSession"} :
        call' = [call EXCEPT ![s] = NewCall(stage)]
    /\ UNCHANGED <<life, config, cached, keySet, bell, oneLoginVars, changes, failures>>

\* tokenParams: made for the endpoint that bell was given, with the key.
ClientAssertion == [aud |-> bell.token, key |-> config["privateKey"]]

Accepts(assertion) ==
    /\ up
    /\ assertion.key = "fit"
    /\ assertion.aud = published.token

At(s, stage) == call[s] # None /\ call[s].stage = stage

\* bell exchanges the code for the tokens of a new sign-in.
ExchangeCode(s) ==
    /\ At(s, "token")
    /\ call' = IF Accepts(ClientAssertion)
               THEN [call EXCEPT ![s].stage = "issuer", ![s].key = signing]
               ELSE [call EXCEPT ![s].stage = "refused"]
    /\ UNCHANGED <<life, config, cached, keySet, bell, oneLoginVars, changes, failures>>

\* jose loads the keys, into a key set that another call may have replaced.
Reload(s) ==
    LET r == call[s]
        reached == up /\ r.uri = published.jwks
    IN /\ At(s, "reload")
       /\ keySet' = IF reached /\ keySet.uri = r.uri
                    THEN [keySet EXCEPT !.keys = signing, !.age = 0] ELSE keySet
       /\ Continue(s, IF reached /\ r.key \in KeysOf(signing) THEN "userinfo" ELSE "refused", None)
       /\ UNCHANGED <<life, config, cached, bell, oneLoginVars, changes, failures>>

GetUserInfo(s) ==
    LET reached == up /\ call[s].uri = published.userinfo IN
    /\ At(s, "profile")
    /\ Continue(s, IF reached THEN "account" ELSE "refused", None)
    /\ UNCHANGED <<life, config, cached, keySet, bell, oneLoginVars, changes, failures>>

Answer(s) ==
    /\ call[s] # None
    /\ call[s].stage \in Ends
    /\ call' = [call EXCEPT ![s] = None]
    /\ UNCHANGED <<life, config, cached, keySet, bell, oneLoginVars, changes, failures>>

-----------------------------------------------------------------------------
\* One Login, and time.

Changing == changes < MaxChanges /\ changes' = changes + 1

Move ==
    /\ Changing
    /\ \E e \in Endpoints : published' = [published EXCEPT ![e] = @ + 1]
    /\ UNCHANGED <<processVars, signing, up, failures>>

Rotate ==
    /\ Changing
    /\ signing' = signing + 1
    /\ UNCHANGED <<processVars, published, up, failures>>

GoDown ==
    /\ up
    /\ failures < MaxFailures
    /\ failures' = failures + 1
    /\ up' = FALSE
    /\ UNCHANGED <<processVars, published, signing, changes>>

Recover ==
    /\ ~up
    /\ up' = TRUE
    /\ UNCHANGED <<processVars, published, signing, changes, failures>>

CachedLater == IF Fresh THEN [cached EXCEPT !.left = @ - 1] ELSE cached

KeySetLater ==
    IF keySet # None /\ keySet.age < CacheMaxAge THEN [keySet EXCEPT !.age = @ + 1] ELSE keySet

Tick ==
    /\ <<CachedLater, KeySetLater>> # <<cached, keySet>>
    /\ cached' = CachedLater
    /\ keySet' = KeySetLater
    /\ UNCHANGED <<life, config, bell, call, oneLoginVars, changes, failures>>

-----------------------------------------------------------------------------
\* Steps the process takes by itself, and those that wait for One Login.
OwnStep(c) == ServeCached(c) \/ Ask(c) \/ Receive(c)
OneLoginAnswers(c) == Respond(c) \/ FetchFails(c)
CallStep(s) == ExchangeCode(s) \/ Reload(s) \/ GetUserInfo(s)

Next ==
    \/ Start \/ ConnectPostgres \/ StartServer \/ Crash
    \/ \E c \in Callers : OwnStep(c) \/ OneLoginAnswers(c)
    \/ \E s \in Slots : Send(s) \/ CallStep(s) \/ Answer(s)
    \/ Move \/ Rotate \/ GoDown \/ Recover \/ Tick

Spec == Init /\ [][Next]_discoveryVars

OwnFairness ==
    /\ WF_discoveryVars(Tick)
    /\ \A s \in Slots : WF_discoveryVars(OwnStep(s) \/ Answer(s))

\* Outages end, and One Login, or the network in its place, gives every request
\* an answer or an error.
OneLoginFairness ==
    /\ WF_discoveryVars(Recover)
    /\ \A s \in Slots : WF_discoveryVars(OneLoginAnswers(s) \/ CallStep(s))

FairSpec == Spec /\ OwnFairness /\ OneLoginFairness

-----------------------------------------------------------------------------
\* README.md:155: "a missing or malformed private key stops the process rather
\* than failing on the first sign in".  Whatever the environment was when the
\* process started, a sign-in has a key to sign its assertion with.
FailsFast == \A s \in Slots : At(s, "token") => ClientAssertion.key = "fit"

\* discovery.ts:44: "an outage on a cache refresh does not take the whole
\* service down".  No request of a process that listens fails for want of a
\* document, whatever else is being refreshed, expired or down.
OutagesAreBridged == \A s \in Slots : ~At(s, "failed")

\* The process has caught up with One Login when each document and key set that
\* may still be used is the current one, or gives way to it: an expired document
\* to the next, a key set of another jwks_uri, or one without the key that has
\* cooled down, to a new load.  Calls under way are to call where One Login is,
\* with tokens whose key it still publishes.
DocumentsCaughtUp ==
    /\ cached # None => cached.left = 0 \/ cached.document = published
    /\ \A c \in Callers : Reading(c, "answered") => call[c].reply.document = published

KeySetCaughtUp ==
    keySet # None /\ keySet.uri = published.jwks /\ keySet.keys # None =>
        keySet.keys = signing \/ keySet.age >= CooldownDuration

CallCaughtUp(s) ==
    /\ \A stage \in {"issuer", "keys", "reload"} :
           At(s, stage) => call[s].key \in KeysOf(signing)
    /\ At(s, "reload") => call[s].uri = published.jwks
    /\ At(s, "profile") => call[s].uri = published.userinfo

CaughtUp ==
    /\ up
    /\ DocumentsCaughtUp
    /\ KeySetCaughtUp
    /\ \A s \in Slots : CallCaughtUp(s)

\* As long as One Login then stays as it is, no step of the service, no answer
\* that arrives late, no expiry and no restart takes the process back behind it,
\* and no call is refused but for the token endpoint, which bell does not follow.
NoRefusalOnceCaughtUp ==
    [][CaughtUp /\ UNCHANGED oneLoginVars =>
          /\ CaughtUp'
          /\ \A s \in Slots :
                 At(s, "refused")' /\ ~At(s, "refused") => bell.token # published.token]_discoveryVars

\* Once One Login no longer changes, sign-ins are no longer refused, whatever
\* outdated documents and keys were cached or in flight, in whichever order they
\* arrived.  Only the token endpoint is not followed: bell keeps the one it was
\* given until the process is started again.
RefusalsEnd ==
    <>[](\A s \in Slots : At(s, "refused") => bell.token # published.token)

=============================================================================
