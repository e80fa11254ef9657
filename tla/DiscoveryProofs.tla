--------------------------- MODULE DiscoveryProofs ---------------------------
(***************************************************************************)
(* A process that listens has a private key and a document, for any number *)
(* of requests, moves, rotations and outages: validation comes before the  *)
(* server, and the auth plugin reads the document before it listens, while *)
(* a refresh replaces a document only by another.                          *)
(***************************************************************************)
EXTENDS Discovery, TLAPS

\* What a request has fits how far it is.
CallFits(c) ==
    /\ call[c] # None =>
        /\ call[c].fetch = "answered" => call[c].reply \in Response
        /\ call[c].fetch # "none" => call[c].stage \in Reads
        /\ call[c].stage = "reload" => keySet # None
        /\ IF c = Boot THEN life = "registering" /\ call[c].stage = "plugin"
           ELSE life = "listening" /\ call[c].stage \notin {"plugin", "failed"}

\* What the process has fits how far it has come; One Login changes in steps.
ServiceInvariant ==
    /\ TypeOK
    /\ life # "stopped" => config["privateKey"] = "fit"
    /\ life \in {"starting", "listening"} => cached # None
    /\ \A c \in Callers : CallFits(c)
    /\ \A e \in Endpoints : published[e] <= changes
    /\ signing <= changes

\* TypeOK without the calls and One Login.
ProcessTypesOK ==
    /\ life \in {"stopped", "connecting", "registering", "starting", "listening"}
    /\ config \in [Settings -> Values] \cup {None}
    /\ cached \in CachedDocument \cup {None}
    /\ keySet \in KeySet \cup {None}
    /\ bell \in Document \cup {None}

\* A step of one caller, to a call of its own or to none.
LEMMA OneCallStep ==
    ASSUME ServiceInvariant, NEW c \in Callers, NEW w \in Call \cup {None},
           call' = [call EXCEPT ![c] = w],
           ProcessTypesOK', UNCHANGED <<oneLoginVars, changes, failures, config, life>>,
           keySet # None => keySet' # None, cached # None => cached' # None,
           w # None =>
               /\ w.fetch = "answered" => w.reply \in Response
               /\ w.fetch # "none" => w.stage \in Reads
               /\ w.stage = "reload" => keySet' # None
               /\ IF c = Boot THEN life = "registering" /\ w.stage = "plugin"
                  ELSE life = "listening" /\ w.stage \notin {"plugin", "failed"}
    PROVE  ServiceInvariant'
<1>1. call \in [Callers -> Call \cup {None}]
  BY DEF ServiceInvariant, TypeOK
<1>2. /\ call' \in [Callers -> Call \cup {None}] /\ call'[c] = w
      /\ \A d \in Callers \ {c} : call'[d] = call[d]
  BY <1>1
<1>3. UNCHANGED <<published, signing, up>>
  BY DEF oneLoginVars
<1>4. \A d \in Callers : CallFits(d)'
  BY <1>2, <1>3 DEF ServiceInvariant, CallFits
<1>5. \A s \in Slots : call'[s] # None => life' = "listening"
  BY <1>2, <1>4, CallersAssumption DEF CallFits, Callers
<1>6. TypeOK'
  BY <1>2, <1>3, <1>5 DEF ServiceInvariant, TypeOK, ProcessTypesOK
<1>7. QED
  BY <1>3, <1>4, <1>6 DEF ServiceInvariant

\* The process stops, for whatever reason.
LEMMA StoppedKeepsInvariant ==
    ASSUME ServiceInvariant, Stopped, UNCHANGED <<oneLoginVars, changes>>,
           failures' \in 0 .. MaxFailures
    PROVE  ServiceInvariant'
<1>1. /\ life' = "stopped" /\ config' = None /\ cached' = None /\ keySet' = None
      /\ bell' = None /\ \A c \in Callers : call'[c] = None
      /\ call' \in [Callers -> Call \cup {None}]
      /\ UNCHANGED <<published, signing, up, changes>>
  BY DEF Stopped, Idle, oneLoginVars
<1>2. TypeOK'
  BY <1>1, CallersAssumption DEF ServiceInvariant, TypeOK, Callers
<1>3. QED
  BY <1>1, <1>2 DEF ServiceInvariant, CallFits

LEMMA StartKeepsInvariant ==
    ASSUME ServiceInvariant, Start
    PROVE  ServiceInvariant'
<1>1. PICK environment \in [Settings -> Values], production \in BOOLEAN :
          /\ Valid(Configuration(environment, production))
          /\ config' = Configuration(environment, production)
  BY DEF Start
<1>2. config' \in [Settings -> Values]
  BY <1>1 DEF Configuration, Default, Values
<1>3. config'["privateKey"] = "fit"
  BY <1>1, SettingsAssumption DEF Valid
<1>4. /\ life = "stopped" /\ life' = "connecting"
      /\ UNCHANGED <<cached, keySet, bell, call, published, signing, up, changes, failures>>
  BY DEF Start, oneLoginVars
<1>5. \A c \in Callers : call[c] = None
  BY <1>4, CallersAssumption DEF ServiceInvariant, CallFits
<1>6. TypeOK'
  BY <1>2, <1>4, <1>5 DEF ServiceInvariant, TypeOK, Callers
<1>7. QED
  BY <1>3, <1>4, <1>5, <1>6 DEF ServiceInvariant, CallFits

LEMMA LifeKeepsInvariant ==
    ASSUME ServiceInvariant, ConnectPostgres \/ StartServer \/ Crash
    PROVE  ServiceInvariant'
<1>1. CASE Crash
  BY <1>1, StoppedKeepsInvariant, BoundsAssumption DEF Crash, ServiceInvariant, TypeOK
<1>2. CASE ConnectPostgres
  <2>1. /\ life = "connecting" /\ life' = "registering"
        /\ call' = [call EXCEPT ![Boot] = NewCall("plugin")]
        /\ UNCHANGED <<config, cached, keySet, bell, published, signing, up, changes, failures>>
    BY <1>2 DEF ConnectPostgres, oneLoginVars
  <2>2. NewCall("plugin") \in Call
    BY DEF NewCall, Call, Reads
  <2>3. /\ NewCall("plugin").stage = "plugin" /\ NewCall("plugin").fetch = "none"
        /\ Boot \in Callers
    BY DEF NewCall, Callers
  <2>4. \A c \in Callers : call[c] = None
    BY <2>1 DEF ServiceInvariant, CallFits
  <2>5. /\ call' \in [Callers -> Call \cup {None}] /\ call'[Boot] = NewCall("plugin")
        /\ \A s \in Slots : call'[s] = None
    BY <2>1, <2>2, <2>4, CallersAssumption DEF ServiceInvariant, TypeOK, Callers
  <2>6. TypeOK'
    BY <2>1, <2>5 DEF ServiceInvariant, TypeOK
  <2>7. \A c \in Callers : CallFits(c)'
    BY <2>1, <2>3, <2>5 DEF CallFits, Callers
  <2>8. QED
    BY <2>1, <2>6, <2>7 DEF ServiceInvariant
<1>3. CASE StartServer
  <2>1. /\ life = "starting" /\ life' = "listening"
        /\ UNCHANGED <<config, cached, keySet, bell, call, published, signing, up, changes, failures>>
    BY <1>3 DEF StartServer, oneLoginVars
  <2>2. \A c \in Callers : call[c] = None
    BY <2>1 DEF ServiceInvariant, CallFits
  <2>3. TypeOK'
    BY <2>1 DEF ServiceInvariant, TypeOK
  <2>4. QED
    BY <2>1, <2>2, <2>3 DEF ServiceInvariant, CallFits
<1>4. QED
  BY <1>1, <1>2, <1>3

\* What a call in progress is, by the types and the invariant.
LEMMA CallIsTyped ==
    ASSUME ServiceInvariant, NEW c \in Callers, call[c] # None
    PROVE  /\ call[c] \in Call /\ CallFits(c)
           /\ call[c].uri \in 0 .. MaxChanges \cup {None}
           /\ call[c].key \in 0 .. MaxChanges \cup {None}
  BY DEF ServiceInvariant, TypeOK, Call

\* Continue, from a call to a stage that has what it needs.
LEMMA ContinueKeepsInvariant ==
    ASSUME ServiceInvariant, NEW s \in Slots, call[s] # None,
           NEW stage \in (Reads \cup Exchanges \cup Ends) \ {"plugin", "failed"},
           NEW uri \in 0 .. MaxChanges \cup {None},
           Continue(s, stage, uri), ProcessTypesOK',
           UNCHANGED <<oneLoginVars, changes, failures, config, life>>,
           keySet # None => keySet' # None, cached # None => cached' # None,
           stage = "reload" => keySet' # None
    PROVE  ServiceInvariant'
<1> DEFINE w == [stage |-> stage, fetch |-> "none", reply |-> None,
                 uri |-> IF stage \in Exchanges THEN uri ELSE None,
                 key |-> IF stage \in {"keys", "reload"} THEN call[s].key ELSE None]
<1>1. s \in Callers /\ s # Boot
  BY CallersAssumption DEF Callers
<1>2. w \in Call /\ w.stage = stage /\ w.fetch = "none" /\ call' = [call EXCEPT ![s] = w]
  BY <1>1, CallIsTyped DEF Call, Continue
<1>3. life = "listening"
  BY <1>1, CallIsTyped DEF CallFits
<1> HIDE DEF w
<1>4. QED
  BY <1>1, <1>2, <1>3, OneCallStep

\* The end of a call.
LEMMA EndKeepsInvariant ==
    ASSUME ServiceInvariant, NEW c \in Callers, call' = [call EXCEPT ![c] = None],
           ProcessTypesOK', UNCHANGED <<oneLoginVars, changes, failures, config, life>>,
           keySet # None => keySet' # None, cached # None => cached' # None
    PROVE  ServiceInvariant'
  BY OneCallStep

\* getOpenIdConfiguration returns: with what it has the process goes on.
LEMMA ProceedKeepsInvariant ==
    ASSUME ServiceInvariant, NEW c \in Callers, call[c] # None,
           NEW document \in Document, Proceed(c, document),
           cached' \in CachedDocument,
           UNCHANGED <<oneLoginVars, changes, failures, config>>
    PROVE  ServiceInvariant'
<1>1. cached' # None
  BY NoneAssumption
<1>2. /\ call[c] \in Call /\ CallFits(c) /\ life' \in {life, "starting"}
      /\ \A e \in Endpoints : document[e] \in 0 .. MaxChanges
  BY CallIsTyped DEF Document, Proceed, RegisterStrategy
<1>3. /\ life \in {"stopped", "connecting", "registering", "starting", "listening"}
      /\ config' \in [Settings -> Values] \cup {None}
      /\ keySet \in KeySet \cup {None} /\ bell \in Document \cup {None}
  BY DEF ServiceInvariant, TypeOK
<1>4. CASE call[c].stage = "plugin"
  <2>1. c = Boot /\ life = "registering"
    BY <1>2, <1>4 DEF CallFits
  <2>2. /\ bell' = document /\ life' = "starting" /\ call' = [call EXCEPT ![Boot] = None]
        /\ UNCHANGED <<keySet, published, signing, up>>
    BY <1>4 DEF Proceed, RegisterStrategy, LastReads, Following, oneLoginVars
  <2>3. \A s \in Slots : call[s] = None
    BY <2>1 DEF ServiceInvariant, TypeOK
  <2>4. \A d \in Callers : call'[d] = None
    BY <2>1, <2>2, <2>3 DEF Callers, ServiceInvariant, TypeOK
  <2>5. TypeOK'
    BY <1>3, <2>2, <2>4 DEF ServiceInvariant, TypeOK, Callers
  <2>6. config'["privateKey"] = "fit"
    BY <2>1 DEF ServiceInvariant
  <2>7. QED
    BY <1>1, <2>2, <2>4, <2>5, <2>6 DEF ServiceInvariant, CallFits
<1>5. CASE call[c].stage # "plugin"
  <2>1. /\ c # Boot /\ c \in Slots /\ UNCHANGED <<bell, life>>
        /\ keySet' = keySet \/ keySet' = GetJwks(document)
    BY <1>2, <1>5 DEF CallFits, Callers, Proceed
  <2>2. GetJwks(document) \in KeySet
    BY <1>2, <1>3, TimesAssumption DEF GetJwks, NewKeySet, KeySet, Endpoints
  <2>3. keySet # None => keySet' # None
    BY <2>1, <2>2, NoneAssumption
  <2>4. ProcessTypesOK'
    BY <1>3, <2>1, <2>2 DEF ProcessTypesOK
  <2>5. CASE call[c].stage = "keys"
    <3>1. keySet' = GetJwks(document) /\ keySet' # None
      BY <2>2, <2>5, NoneAssumption DEF Proceed, LastReads, Following
    <3>2. Continue(c, VerificationWith(keySet', call[c].key), keySet'.uri)
      BY <2>5 DEF Proceed, LastReads, Following
    <3>3. VerificationWith(keySet', call[c].key) \in {"reload", "userinfo", "refused"}
      BY DEF VerificationWith
    <3>4. VerificationWith(keySet', call[c].key) \in (Reads \cup Exchanges \cup Ends) \ {"plugin", "failed"}
      BY <3>3 DEF Reads, Exchanges, Ends
    <3>5. keySet'.uri \in 0 .. MaxChanges
      BY <2>2, <3>1 DEF KeySet
    <3>6. QED
      BY <1>1, <2>1, <2>3, <2>4, <3>1, <3>2, <3>4, <3>5, ContinueKeepsInvariant
  <2>6. CASE call[c].stage \in {"issuer", "userinfo"}
    <3>1. Continue(c, Following[call[c].stage], document.userinfo)
      BY <2>6 DEF Proceed, LastReads, Following
    <3>2. Following[call[c].stage] \in {"keys", "profile"}
      BY <2>6 DEF Following
    <3>3. /\ Following[call[c].stage] \in (Reads \cup Exchanges \cup Ends) \ {"plugin", "failed"}
          /\ Following[call[c].stage] # "reload"
      BY <3>2 DEF Reads, Exchanges, Ends
    <3>4. document.userinfo \in 0 .. MaxChanges
      BY <1>2 DEF Endpoints
    <3>5. QED
      BY <1>1, <2>1, <2>3, <2>4, <3>1, <3>3, <3>4, ContinueKeepsInvariant
  <2>7. CASE call[c].stage \in LastReads
    <3>1. call' = [call EXCEPT ![c] = None]
      BY <2>7 DEF Proceed, LastReads, Following
    <3>2. QED
      BY <1>1, <2>1, <2>3, <2>4, <3>1, EndKeepsInvariant
  <2>8. QED
    BY <1>5, <2>5, <2>6, <2>7 DEF Proceed, Following
<1>6. QED
  BY <1>4, <1>5

\* What the process keeps, in a step that leaves it alone.
LEMMA ProcessIsTyped ==
    ASSUME ServiceInvariant
    PROVE  /\ cached \in CachedDocument \cup {None} /\ keySet \in KeySet \cup {None}
           /\ UNCHANGED <<life, config, cached, keySet, bell>> => ProcessTypesOK'
  BY DEF ServiceInvariant, TypeOK, ProcessTypesOK

\* A document is read: from the cache, or asked for, received, or not.
LEMMA ReadsKeepInvariant ==
    ASSUME ServiceInvariant, NEW c \in Callers, OwnStep(c) \/ OneLoginAnswers(c)
    PROVE  ServiceInvariant'
<1>1. /\ call[c] # None /\ call[c].stage \in Reads /\ UNCHANGED <<oneLoginVars, changes, failures>>
      /\ call[c] \in Call /\ CallFits(c)
  BY CallIsTyped DEF OwnStep, OneLoginAnswers, ServeCached, Ask, Receive, Respond, FetchFails, Reading
<1>2. cached # None => cached \in CachedDocument /\ cached.document \in Document
  BY ProcessIsTyped DEF CachedDocument
<1>3. CASE ServeCached(c)
  BY <1>1, <1>2, <1>3, ProceedKeepsInvariant DEF ServeCached, Fresh
<1>4. CASE Ask(c)
  <2> DEFINE w == [call[c] EXCEPT !.fetch = "asked"]
  <2>1. w \in Call /\ w.fetch = "asked" /\ w.stage = call[c].stage
    BY <1>1 DEF Call
  <2>2. call' = [call EXCEPT ![c] = w] /\ UNCHANGED <<life, config, cached, keySet, bell>>
    BY <1>1, <1>4 DEF Ask, Call
  <2> HIDE DEF w
  <2>3. QED
    BY <1>1, <2>1, <2>2, ProcessIsTyped, OneCallStep DEF CallFits
<1>5. CASE Respond(c)
  <2>1. PICK age \in MaxAges :
            call' = [call EXCEPT ![c].fetch = "answered",
                                 ![c].reply = [document |-> published, maxAge |-> age]]
    BY <1>5 DEF Respond
  <2> DEFINE reply == [document |-> published, maxAge |-> age]
             w == [call[c] EXCEPT !.fetch = "answered", !.reply = reply]
  <2>2. reply \in Response
    BY DEF Response, ServiceInvariant, TypeOK
  <2>3. w \in Call /\ w.reply = reply /\ w.stage = call[c].stage
    BY <1>1, <2>2 DEF Call
  <2>4. call' = [call EXCEPT ![c] = w]
    BY <1>1, <2>1 DEF Call, ServiceInvariant, TypeOK
  <2>5. UNCHANGED <<life, config, cached, keySet, bell>>
    BY <1>5 DEF Respond
  <2> HIDE DEF w, reply
  <2>6. QED
    BY <1>1, <2>2, <2>3, <2>4, <2>5, ProcessIsTyped, OneCallStep DEF CallFits
<1>6. CASE Receive(c)
  <2> DEFINE response == call[c].reply
  <2>1. /\ response \in Response /\ response.document \in Document
        /\ cached' = [document |-> response.document, left |-> GetMaxAge(response)]
        /\ Proceed(c, response.document) /\ UNCHANGED config
    BY <1>1, <1>6 DEF Receive, Reading, CallFits, Response
  <2>2. GetMaxAge(response) \in Nat
    BY <2>1, TimesAssumption DEF GetMaxAge, Response
  <2>3. cached' \in CachedDocument
    BY <2>1, <2>2 DEF CachedDocument
  <2>4. QED
    BY <1>1, <2>1, <2>3, ProceedKeepsInvariant
<1>7. CASE FetchFails(c)
  <2>1. CASE cached # None
    BY <1>1, <1>2, <1>7, <2>1, ProceedKeepsInvariant DEF FetchFails
  <2>2. CASE cached = None
    <3>1. c = Boot
      BY <1>1, <2>2 DEF CallFits, ServiceInvariant
    <3>2. Stopped
      BY <1>7, <2>2, <3>1 DEF FetchFails
    <3>3. QED
      BY <1>1, <3>2, StoppedKeepsInvariant DEF ServiceInvariant, TypeOK
  <2>3. QED
    BY <2>1, <2>2
<1>8. QED
  BY <1>3, <1>4, <1>5, <1>6, <1>7 DEF OwnStep, OneLoginAnswers

\* A new call, what bell, jose and the profile make of it, and its answer.
LEMMA CallsKeepInvariant ==
    ASSUME ServiceInvariant, NEW s \in Slots, Send(s) \/ CallStep(s) \/ Answer(s)
    PROVE  ServiceInvariant'
<1>1. s \in Callers /\ s # Boot
  BY CallersAssumption DEF Callers
<1>2. UNCHANGED <<life, config, cached, bell, oneLoginVars, changes, failures>>
  BY DEF Send, CallStep, ExchangeCode, Reload, GetUserInfo, Answer
<1>3. CASE Send(s)
  <2>1. PICK stage \in {"token", "account", "endSession"} : call' = [call EXCEPT ![s] = NewCall(stage)]
    BY <1>3 DEF Send
  <2>2. NewCall(stage) \in Call /\ NewCall(stage).stage = stage /\ NewCall(stage).fetch = "none"
    BY DEF NewCall, Call, Reads, LastReads, Exchanges
  <2>3. life = "listening" /\ UNCHANGED keySet
    BY <1>3 DEF Send
  <2>4. QED
    BY <1>1, <1>2, <2>1, <2>2, <2>3, ProcessIsTyped, OneCallStep
<1>4. CASE ExchangeCode(s)
  <2>1. /\ call[s] \in Call /\ CallFits(s) /\ call \in [Callers -> Call \cup {None}]
        /\ signing \in 0 .. MaxChanges /\ UNCHANGED keySet /\ call[s].stage = "token"
        /\ life = "listening"
    BY <1>1, <1>4, CallIsTyped DEF ExchangeCode, At, ServiceInvariant, TypeOK, CallFits
  <2>2. PICK w \in {[call[s] EXCEPT !.stage = "issuer", !.key = signing],
                    [call[s] EXCEPT !.stage = "refused"]} : call' = [call EXCEPT ![s] = w]
    BY <1>1, <1>4, <2>1 DEF ExchangeCode, Call
  <2>3. call[s].fetch = "none"
    BY <1>4, <2>1 DEF ExchangeCode, At, CallFits, Reads, LastReads
  <2>4. /\ w \in Call /\ w.stage \in {"issuer", "refused"} /\ w.fetch = "none"
    BY <2>1, <2>3 DEF Call, Reads, Ends
  <2>5. QED
    BY <1>1, <1>2, <2>1, <2>2, <2>4, ProcessIsTyped, OneCallStep
<1>5. CASE Reload(s)
  <2>1. /\ call[s] # None /\ keySet \in KeySet /\ signing \in 0 .. MaxChanges
        /\ keySet' = keySet \/ keySet' = [keySet EXCEPT !.keys = signing, !.age = 0]
    BY <1>1, <1>5, CallIsTyped, ProcessIsTyped DEF Reload, At, CallFits, ServiceInvariant, TypeOK
  <2>2. keySet' \in KeySet
    <3>1. 0 \in 0 .. CacheMaxAge
      BY TimesAssumption
    <3>2. [keySet EXCEPT !.keys = signing, !.age = 0] \in KeySet
      BY <2>1, <3>1 DEF KeySet
    <3>3. QED
      BY <2>1, <3>2
  <2>3. PICK stage \in {"userinfo", "refused"} : Continue(s, stage, None)
    BY <1>5 DEF Reload
  <2>4. stage \in (Reads \cup Exchanges \cup Ends) \ {"plugin", "failed"} /\ stage # "reload"
    BY DEF Reads, Exchanges, Ends
  <2>5. ProcessTypesOK' /\ keySet' # None
    BY <1>2, <2>2, NoneAssumption DEF ServiceInvariant, TypeOK, ProcessTypesOK
  <2>6. QED
    BY <1>2, <2>1, <2>3, <2>4, <2>5, ContinueKeepsInvariant
<1>6. CASE GetUserInfo(s)
  <2>1. PICK stage \in {"account", "refused"} : Continue(s, stage, None)
    BY <1>6 DEF GetUserInfo
  <2>2. stage \in (Reads \cup Exchanges \cup Ends) \ {"plugin", "failed"} /\ stage # "reload"
    BY DEF Reads, LastReads, Exchanges, Ends
  <2>3. call[s] # None /\ UNCHANGED keySet
    BY <1>6 DEF GetUserInfo, At
  <2>4. QED
    BY <1>2, <2>1, <2>2, <2>3, ProcessIsTyped, ContinueKeepsInvariant
<1>7. CASE Answer(s)
  <2>1. call' = [call EXCEPT ![s] = None] /\ UNCHANGED keySet
    BY <1>7 DEF Answer
  <2>2. QED
    BY <1>1, <1>2, <2>1, ProcessIsTyped, EndKeepsInvariant
<1>8. QED
  BY <1>3, <1>4, <1>5, <1>6, <1>7 DEF CallStep

\* One Login changes, goes down or recovers.
LEMMA OneLoginKeepsInvariant ==
    ASSUME ServiceInvariant, Move \/ Rotate \/ GoDown \/ Recover
    PROVE  ServiceInvariant'
<1>1. /\ UNCHANGED <<life, config, cached, keySet, bell, call>>
      /\ up' \in BOOLEAN /\ failures' \in 0 .. MaxFailures
  <2>1. UNCHANGED <<life, config, cached, keySet, bell, call>>
    BY DEF Move, Rotate, GoDown, Recover, processVars
  <2>2. up \in BOOLEAN /\ failures \in 0 .. MaxFailures
    BY DEF ServiceInvariant, TypeOK
  <2>3. up' \in BOOLEAN
    BY <2>2 DEF Move, Rotate, GoDown, Recover
  <2>4. failures' \in 0 .. MaxFailures
    <3>1. failures' = failures \/ (failures < MaxFailures /\ failures' = failures + 1)
      BY DEF Move, Rotate, GoDown, Recover
    <3>2. QED
      BY <2>2, <3>1, BoundsAssumption
  <2>5. QED
    BY <2>1, <2>3, <2>4
<1>2. /\ published \in [Endpoints -> 0 .. MaxChanges] /\ changes \in 0 .. MaxChanges
      /\ signing \in 0 .. MaxChanges /\ signing <= changes
      /\ \A e \in Endpoints : published[e] <= changes
  BY DEF ServiceInvariant, TypeOK, Document
<1>3. /\ changes' \in 0 .. MaxChanges /\ published' \in Document /\ signing' \in 0 .. MaxChanges
      /\ signing' <= changes' /\ \A e \in Endpoints : published'[e] <= changes'
  <2>1. CASE Move
    <3>1. PICK e \in Endpoints : published' = [published EXCEPT ![e] = @ + 1]
      BY <2>1 DEF Move
    <3>2. changes < MaxChanges /\ changes' = changes + 1 /\ signing' = signing
      BY <2>1 DEF Move, Changing
    <3>3. \A x \in Endpoints : published'[x] = IF x = e THEN published[x] + 1 ELSE published[x]
      BY <1>2, <3>1
    <3>4. \A x \in Endpoints : published'[x] \in 0 .. MaxChanges /\ published'[x] <= changes'
      BY <1>2, <3>2, <3>3, BoundsAssumption
    <3>5. published' \in Document
      BY <1>2, <3>1, <3>4 DEF Document
    <3>6. QED
      BY <1>2, <3>2, <3>4, <3>5, BoundsAssumption
  <2>2. CASE Rotate
    BY <1>2, <2>2, BoundsAssumption DEF Rotate, Changing, Document, Endpoints
  <2>3. CASE GoDown \/ Recover
    BY <1>2, <2>3 DEF GoDown, Recover, Document
  <2>4. QED
    BY <2>1, <2>2, <2>3
<1>4. TypeOK'
  BY <1>1, <1>3 DEF ServiceInvariant, TypeOK
<1>5. QED
  BY <1>1, <1>3, <1>4 DEF ServiceInvariant, CallFits

\* Time passes for the document and the key set.
LEMMA TickKeepsInvariant ==
    ASSUME ServiceInvariant, Tick
    PROVE  ServiceInvariant'
<1>1. /\ UNCHANGED <<life, config, bell, call, published, signing, up, changes, failures>>
      /\ cached' = CachedLater /\ keySet' = KeySetLater
  BY DEF Tick, oneLoginVars
<1>2. cached' = cached \/ cached' \in CachedDocument
  BY <1>1, ProcessIsTyped DEF CachedLater, Fresh, CachedDocument
<1>3. keySet' = keySet \/ keySet' \in KeySet
  BY <1>1, ProcessIsTyped, TimesAssumption DEF KeySetLater, KeySet
<1>4. TypeOK'
  BY <1>1, <1>2, <1>3 DEF ServiceInvariant, TypeOK
<1>5. /\ cached # None => cached' # None
      /\ keySet # None => keySet' # None
  BY <1>2, <1>3, NoneAssumption
<1>6. QED
  BY <1>1, <1>4, <1>5 DEF ServiceInvariant, CallFits

-----------------------------------------------------------------------------
LEMMA InitHasInvariant ==
    ASSUME Init PROVE ServiceInvariant
<1>1. /\ \A c \in Callers : call[c] = None /\ call \in [Callers -> Call \cup {None}]
  BY DEF Init, Idle
<1>2. TypeOK
  BY <1>1, BoundsAssumption DEF Init, TypeOK, Document, Callers, Idle
<1>3. QED
  BY <1>1, <1>2 DEF Init, ServiceInvariant, CallFits

LEMMA NextKeepsInvariant ==
    ASSUME ServiceInvariant, [Next]_discoveryVars
    PROVE  ServiceInvariant'
<1>1. CASE UNCHANGED discoveryVars
  BY <1>1 DEF discoveryVars, processVars, oneLoginVars, ServiceInvariant, TypeOK, CallFits
<1>2. CASE Next
  BY <1>2, StartKeepsInvariant, LifeKeepsInvariant, ReadsKeepInvariant, CallsKeepInvariant,
     OneLoginKeepsInvariant, TickKeepsInvariant DEF Next
<1>3. QED
  BY <1>1, <1>2

\* Whatever its environment, its dependencies and One Login are like, a process
\* that goes on has a key, one that listens has a document, and every call has
\* what its stage needs.
THEOREM ServiceInvariantHolds == Spec => []ServiceInvariant
<1>1. Init => ServiceInvariant
  BY InitHasInvariant
<1>2. ServiceInvariant /\ [Next]_discoveryVars => ServiceInvariant'
  BY NextKeepsInvariant
<1>3. QED
  BY <1>1, <1>2, PTL DEF Spec

\* The process, its caches, the calls and One Login keep to their types.
THEOREM DiscoveryTypesHold == Spec => []TypeOK
<1>1. ServiceInvariant => TypeOK
  BY DEF ServiceInvariant
<1>2. QED
  BY <1>1, ServiceInvariantHolds, PTL

\* FailsFast: a sign-in never meets a private key that is missing or malformed,
\* because a process that has one such never listens.
THEOREM KeysAreThere == Spec => []FailsFast
<1>1. ASSUME ServiceInvariant PROVE FailsFast
  BY <1>1, CallersAssumption
  DEF FailsFast, At, ClientAssertion, ServiceInvariant, CallFits, Callers
<1>2. QED
  BY <1>1, ServiceInvariantHolds, PTL

\* OutagesAreBridged: no request fails for want of a document, as the process
\* has read one before it listens and gives up none without another.
THEOREM DocumentsAreThere == Spec => []OutagesAreBridged
<1>1. ASSUME ServiceInvariant PROVE OutagesAreBridged
  BY <1>1, CallersAssumption DEF OutagesAreBridged, At, ServiceInvariant, CallFits, Callers
<1>2. QED
  BY <1>1, ServiceInvariantHolds, PTL

-----------------------------------------------------------------------------
\* CaughtUp, call by call.
DocumentCaughtUp == cached # None => cached.left = 0 \/ cached.document = published

Follows(w) ==
    w # None =>
        /\ w.stage \in Reads /\ w.fetch = "answered" => w.reply.document = published
        /\ w.stage \in {"issuer", "keys", "reload"} => w.key \in KeysOf(signing)
        /\ w.stage = "reload" => w.uri = published.jwks
        /\ w.stage = "profile" => w.uri = published.userinfo

\* What NoRefusalOnceCaughtUp says of a step.
StaysCaughtUp ==
    /\ CaughtUp'
    /\ \A s \in Slots :
           At(s, "refused")' /\ ~At(s, "refused") => bell.token # published.token

LEMMA EveryCallFollows ==
    ASSUME ServiceInvariant, CaughtUp
    PROVE  \A c \in Callers : Follows(call[c])
<1>1. SUFFICES ASSUME NEW c \in Callers, call[c] # None PROVE Follows(call[c])
  BY DEF Follows
<1>2. call[c].stage \in Reads /\ call[c].fetch = "answered" =>
          call[c].reply.document = published
  BY <1>1 DEF CaughtUp, DocumentsCaughtUp, Reading
<1>3. CASE c = Boot
  <2>1. call[c].stage = "plugin"
    BY <1>1, <1>3, CallIsTyped DEF CallFits
  <2>2. QED
    BY <1>2, <2>1 DEF Follows
<1>4. CASE c \in Slots
  BY <1>1, <1>2, <1>4 DEF CaughtUp, CallCaughtUp, At, Follows
<1>5. QED
  BY <1>3, <1>4 DEF Callers

\* A step of one caller, to a call that follows or to none.
LEMMA OneCallStaysCaughtUp ==
    ASSUME ServiceInvariant, CaughtUp, UNCHANGED oneLoginVars,
           NEW c \in Callers, NEW w, call' = [call EXCEPT ![c] = w], Follows(w),
           DocumentCaughtUp', KeySetCaughtUp',
           w # None /\ w.stage = "refused" => bell.token # published.token
    PROVE  StaysCaughtUp
<1>1. UNCHANGED <<published, signing, up>>
  BY DEF oneLoginVars
<1>2. call'[c] = w /\ \A d \in Callers \ {c} : call'[d] = call[d]
  BY DEF ServiceInvariant, TypeOK
<1>3. \A d \in Callers : Follows(call'[d])
  BY <1>2, EveryCallFollows
<1>4. \A d \in Callers : Follows(call[d])'
  BY <1>1, <1>3 DEF Follows
<1>5. DocumentsCaughtUp'
  BY <1>4 DEF DocumentsCaughtUp, DocumentCaughtUp, Reading, Follows
<1>6. \A s \in Slots : CallCaughtUp(s)'
  BY <1>4 DEF CallCaughtUp, At, Follows, Callers
<1>7. up'
  BY <1>1 DEF CaughtUp
<1>8. \A s \in Slots : At(s, "refused")' /\ ~At(s, "refused") => bell.token # published.token
  BY <1>2 DEF At, Callers
<1>9. QED
  BY <1>5, <1>6, <1>7, <1>8 DEF CaughtUp, StaysCaughtUp

\* ... where Continue says what becomes of it.
LEMMA ContinueStaysCaughtUp ==
    ASSUME ServiceInvariant, CaughtUp, UNCHANGED oneLoginVars,
           NEW c \in Callers, NEW stage, NEW uri, Continue(c, stage, uri),
           DocumentCaughtUp', KeySetCaughtUp', stage # "issuer", stage # "refused",
           stage \in {"keys", "reload"} => call[c].key \in KeysOf(signing),
           stage = "reload" => uri = published.jwks,
           stage = "profile" => uri = published.userinfo
    PROVE  StaysCaughtUp
<1> DEFINE w == [stage |-> stage, fetch |-> "none", reply |-> None,
                 uri |-> IF stage \in Exchanges THEN uri ELSE None,
                 key |-> IF stage \in {"keys", "reload"} THEN call[c].key ELSE None]
<1>1. call' = [call EXCEPT ![c] = w]
  BY DEF Continue
<1>2. Follows(w)
  BY DEF Follows, Exchanges
<1>3. w.stage # "refused"
  OBVIOUS
<1> HIDE DEF w
<1>4. QED
  BY <1>1, <1>2, <1>3, OneCallStaysCaughtUp

\* A process that is given the current document goes on with what is current.
LEMMA ProceedStaysCaughtUp ==
    ASSUME ServiceInvariant, CaughtUp, UNCHANGED oneLoginVars, DocumentCaughtUp',
           NEW c \in Callers, call[c] # None, Proceed(c, published)
    PROVE  StaysCaughtUp
<1>1. Follows(call[c]) /\ KeySetCaughtUp
  BY EveryCallFollows DEF CaughtUp
<1>2. UNCHANGED <<published, signing>>
  BY DEF oneLoginVars
<1>3. UNCHANGED keySet => KeySetCaughtUp'
  BY <1>1, <1>2 DEF KeySetCaughtUp
<1>4. CASE call[c].stage = "plugin"
  <2>1. call' = [call EXCEPT ![Boot] = None] /\ UNCHANGED keySet /\ Boot \in Callers
    BY <1>4 DEF Proceed, RegisterStrategy, LastReads, Following, Callers
  <2>2. QED
    BY <1>3, <2>1, OneCallStaysCaughtUp DEF Follows
<1>5. CASE call[c].stage = "keys"
  <2>1. /\ keySet' = GetJwks(published)
        /\ Continue(c, VerificationWith(keySet', call[c].key), keySet'.uri)
        /\ call[c].key \in KeysOf(signing)
    BY <1>1, <1>5 DEF Proceed, LastReads, Following, Follows
  <2>2. keySet'.uri = published.jwks
    BY <2>1 DEF GetJwks, NewKeySet
  <2>3. keySet'.keys # None => keySet'.keys = signing \/ keySet'.age >= CooldownDuration
    BY <1>1, <2>1 DEF GetJwks, NewKeySet, KeySetCaughtUp
  <2>4. KeySetCaughtUp'
    BY <1>2, <2>3 DEF KeySetCaughtUp
  <2>5. VerificationWith(keySet', call[c].key) \in {"reload", "userinfo"}
    <3>1. keySet'.keys # None => keySet'.age \in 0 .. CacheMaxAge
      BY <2>1, ProcessIsTyped DEF GetJwks, NewKeySet, KeySet
    <3>2. keySet'.keys # None /\ keySet'.age >= CooldownDuration =>
              ~(keySet'.age < CooldownDuration)
      BY <3>1, TimesAssumption
    <3>3. QED
      BY <2>1, <2>3, <3>2 DEF VerificationWith
  <2>6. QED
    BY <2>1, <2>2, <2>4, <2>5, ContinueStaysCaughtUp
<1>6. CASE call[c].stage \in {"issuer", "userinfo"}
  <2>1. UNCHANGED keySet /\ Continue(c, Following[call[c].stage], published.userinfo)
    BY <1>6 DEF Proceed, LastReads, Following
  <2>2. \/ call[c].stage = "issuer" /\ Following[call[c].stage] = "keys"
        \/ Following[call[c].stage] = "profile"
    BY <1>6 DEF Following
  <2>3. QED
    BY <1>1, <1>3, <2>1, <2>2, ContinueStaysCaughtUp DEF Follows
<1>7. CASE call[c].stage \in LastReads
  <2>1. call' = [call EXCEPT ![c] = None] /\ UNCHANGED keySet
    BY <1>7 DEF Proceed, LastReads, Following
  <2>2. QED
    BY <1>3, <2>1, OneCallStaysCaughtUp DEF Follows
<1>8. QED
  BY <1>4, <1>5, <1>6, <1>7 DEF Proceed, Following

\* Documents are read while One Login answers: from the cache while they are
\* good, and otherwise as it publishes them.
LEMMA ReadsStayCaughtUp ==
    ASSUME ServiceInvariant, CaughtUp, UNCHANGED oneLoginVars,
           NEW c \in Callers, OwnStep(c) \/ OneLoginAnswers(c)
    PROVE  StaysCaughtUp
<1>1. /\ call[c] # None /\ call[c].stage \in Reads /\ Follows(call[c]) /\ call[c] \in Call
      /\ DocumentCaughtUp /\ KeySetCaughtUp /\ up
  BY EveryCallFollows, CallIsTyped
  DEF OwnStep, OneLoginAnswers, ServeCached, Ask, Receive, Respond, FetchFails, Reading,
      CaughtUp, DocumentsCaughtUp, DocumentCaughtUp
<1>2. UNCHANGED <<published, signing>>
  BY DEF oneLoginVars
<1>3. UNCHANGED <<cached, keySet>> => DocumentCaughtUp' /\ KeySetCaughtUp'
  BY <1>1, <1>2 DEF DocumentCaughtUp, KeySetCaughtUp
<1>4. CASE ServeCached(c)
  <2>1. cached # None /\ cached.left > 0 /\ Proceed(c, cached.document) /\ UNCHANGED cached
    BY <1>4 DEF ServeCached, Fresh
  <2>2. cached.document = published
    <3>1. cached.left \in Nat
      BY <2>1, ProcessIsTyped DEF CachedDocument
    <3>2. QED
      BY <1>1, <2>1, <3>1 DEF DocumentCaughtUp
  <2>3. DocumentCaughtUp'
    BY <1>1, <1>2, <2>1 DEF DocumentCaughtUp
  <2>4. QED
    BY <1>1, <2>1, <2>2, <2>3, ProceedStaysCaughtUp
<1>5. CASE Ask(c)
  <2> DEFINE w == [call[c] EXCEPT !.fetch = "asked"]
  <2>1. call' = [call EXCEPT ![c] = w] /\ UNCHANGED <<cached, keySet>>
    BY <1>5 DEF Ask
  <2>2. w.fetch = "asked" /\ w.stage = call[c].stage /\ w.uri = call[c].uri /\ w.key = call[c].key
    BY <1>1 DEF Call
  <2>3. w.stage # "refused"
    BY <1>1, <2>2 DEF Reads, LastReads
  <2> HIDE DEF w
  <2>4. Follows(w)
    BY <1>1, <2>2 DEF Follows
  <2>5. QED
    BY <1>3, <2>1, <2>3, <2>4, OneCallStaysCaughtUp
<1>6. CASE Respond(c)
  <2>1. PICK age \in MaxAges :
            call' = [call EXCEPT ![c].fetch = "answered",
                                 ![c].reply = [document |-> published, maxAge |-> age]]
    BY <1>6 DEF Respond
  <2> DEFINE w == [call[c] EXCEPT !.fetch = "answered",
                                  !.reply = [document |-> published, maxAge |-> age]]
  <2>2. call' = [call EXCEPT ![c] = w] /\ UNCHANGED <<cached, keySet>>
    BY <1>1, <1>6, <2>1 DEF Respond, Call, ServiceInvariant, TypeOK
  <2>3. /\ w.reply.document = published /\ w.stage = call[c].stage
        /\ w.uri = call[c].uri /\ w.key = call[c].key
    BY <1>1 DEF Call
  <2>4. w.stage # "refused"
    BY <1>1, <2>3 DEF Reads, LastReads
  <2> HIDE DEF w
  <2>5. Follows(w)
    BY <1>1, <2>3 DEF Follows
  <2>6. QED
    BY <1>3, <2>2, <2>4, <2>5, OneCallStaysCaughtUp
<1>7. CASE Receive(c)
  <2> DEFINE response == call[c].reply
  <2>1. /\ response.document = published
        /\ cached' = [document |-> response.document, left |-> GetMaxAge(response)]
        /\ Proceed(c, response.document)
    BY <1>1, <1>7 DEF Receive, Reading, Follows
  <2>2. DocumentCaughtUp'
    BY <1>2, <2>1 DEF DocumentCaughtUp
  <2>3. QED
    BY <1>1, <2>1, <2>2, ProceedStaysCaughtUp
<1>8. ~FetchFails(c)
  BY <1>1 DEF FetchFails
<1>9. QED
  BY <1>4, <1>5, <1>6, <1>7, <1>8 DEF OwnStep, OneLoginAnswers

\* Calls that are where One Login is, with a key it publishes, are not refused.
LEMMA CallsStayCaughtUp ==
    ASSUME ServiceInvariant, CaughtUp, UNCHANGED oneLoginVars,
           NEW s \in Slots, Send(s) \/ CallStep(s) \/ Answer(s)
    PROVE  StaysCaughtUp
<1>1. s \in Callers /\ s # Boot /\ Follows(call[s]) /\ up
  BY EveryCallFollows, CallersAssumption DEF Callers, CaughtUp
<1>2. UNCHANGED <<published, signing, cached>>
  BY DEF oneLoginVars, Send, CallStep, ExchangeCode, Reload, GetUserInfo, Answer
<1>3. DocumentCaughtUp' /\ (UNCHANGED keySet => KeySetCaughtUp')
  BY <1>2 DEF CaughtUp, DocumentsCaughtUp, DocumentCaughtUp, KeySetCaughtUp
<1>4. CASE Send(s)
  <2>1. PICK stage \in {"token", "account", "endSession"} : call' = [call EXCEPT ![s] = NewCall(stage)]
    BY <1>4 DEF Send
  <2>2. /\ Follows(NewCall(stage)) /\ NewCall(stage).stage # "refused" /\ UNCHANGED keySet
    BY <1>4 DEF Follows, NewCall, Send
  <2>3. QED
    BY <1>1, <1>3, <2>1, <2>2, OneCallStaysCaughtUp
<1>5. CASE ExchangeCode(s)
  <2>1. /\ call[s] \in Call /\ call[s] # None /\ life = "listening" /\ UNCHANGED keySet
        /\ call[s].stage = "token"
    BY <1>1, <1>5, CallIsTyped DEF ExchangeCode, At, CallFits
  <2>2. CASE Accepts(ClientAssertion)
    <3> DEFINE w == [call[s] EXCEPT !.stage = "issuer", !.key = signing]
    <3>1. call' = [call EXCEPT ![s] = w]
      BY <1>1, <1>5, <2>1, <2>2 DEF ExchangeCode, Call, ServiceInvariant, TypeOK
    <3>2. w.stage = "issuer" /\ w.key = signing /\ w.fetch = call[s].fetch
          /\ w.reply = call[s].reply
      BY <2>1 DEF Call
    <3>3. signing \in KeysOf(signing)
      BY DEF KeysOf, ServiceInvariant, TypeOK
    <3>4. w.fetch = "none"
      BY <1>1, <2>1, <3>2, CallIsTyped DEF CallFits, Reads, LastReads
    <3> HIDE DEF w
    <3>5. Follows(w)
      BY <3>2, <3>3, <3>4 DEF Follows
    <3>6. QED
      BY <1>1, <1>3, <2>1, <3>1, <3>2, <3>5, OneCallStaysCaughtUp
  <2>3. CASE ~Accepts(ClientAssertion)
    <3> DEFINE w == [call[s] EXCEPT !.stage = "refused"]
    <3>1. call' = [call EXCEPT ![s] = w] /\ w.stage = "refused"
      BY <1>5, <2>1, <2>3 DEF ExchangeCode, Call
    <3>2. bell.token # published.token
      BY <1>1, <2>1, <2>3 DEF Accepts, ClientAssertion, ServiceInvariant
    <3> HIDE DEF w
    <3>3. Follows(w)
      BY <3>1 DEF Follows, Reads, LastReads
    <3>4. QED
      BY <1>1, <1>3, <2>1, <3>1, <3>2, <3>3, OneCallStaysCaughtUp
  <2>4. QED
    BY <2>2, <2>3
<1>6. CASE Reload(s)
  <2>1. /\ call[s] # None /\ call[s].stage = "reload" /\ keySet \in KeySet
        /\ call[s].uri = published.jwks /\ call[s].key \in KeysOf(signing)
    BY <1>1, <1>6, CallIsTyped, ProcessIsTyped DEF Reload, At, CallFits, Follows
  <2>2. /\ keySet' = IF keySet.uri = call[s].uri
                     THEN [keySet EXCEPT !.keys = signing, !.age = 0] ELSE keySet
        /\ Continue(s, "userinfo", None)
    BY <1>1, <1>6, <2>1 DEF Reload
  <2>3. KeySetCaughtUp'
    BY <1>2, <2>1, <2>2 DEF KeySetCaughtUp, KeySet
  <2>4. QED
    BY <1>1, <1>3, <2>2, <2>3, ContinueStaysCaughtUp
<1>7. CASE GetUserInfo(s)
  <2>1. call[s] # None /\ call[s].uri = published.userinfo /\ UNCHANGED keySet
    BY <1>1, <1>7 DEF GetUserInfo, At, Follows
  <2>2. Continue(s, "account", None)
    BY <1>1, <1>7, <2>1 DEF GetUserInfo
  <2>3. QED
    BY <1>1, <1>3, <2>1, <2>2, ContinueStaysCaughtUp
<1>8. CASE Answer(s)
  <2>1. call' = [call EXCEPT ![s] = None] /\ UNCHANGED keySet
    BY <1>8 DEF Answer
  <2>2. QED
    BY <1>1, <1>3, <2>1, OneCallStaysCaughtUp DEF Follows
<1>9. QED
  BY <1>4, <1>5, <1>6, <1>7, <1>8 DEF CallStep

\* The rest of the process's life, and time.
LEMMA OthersStayCaughtUp ==
    ASSUME ServiceInvariant, CaughtUp, UNCHANGED oneLoginVars,
           Start \/ ConnectPostgres \/ StartServer \/ Crash \/ Tick \/ UNCHANGED discoveryVars
    PROVE  StaysCaughtUp
<1>1. UNCHANGED <<published, signing, up>> /\ up
  BY DEF oneLoginVars, CaughtUp
<1>2. ASSUME UNCHANGED call, DocumentCaughtUp', KeySetCaughtUp' PROVE StaysCaughtUp
  <2>1. DocumentsCaughtUp' /\ \A s \in Slots : CallCaughtUp(s)'
    BY <1>1, <1>2 DEF CaughtUp, DocumentsCaughtUp, DocumentCaughtUp, CallCaughtUp, Reading, At
  <2>2. QED
    BY <1>1, <1>2, <2>1 DEF StaysCaughtUp, CaughtUp, At
<1>3. DocumentCaughtUp /\ KeySetCaughtUp
  BY DEF CaughtUp, DocumentsCaughtUp, DocumentCaughtUp
<1>4. UNCHANGED <<cached, keySet>> => DocumentCaughtUp' /\ KeySetCaughtUp'
  BY <1>1, <1>3 DEF DocumentCaughtUp, KeySetCaughtUp
<1>5. CASE Start \/ StartServer \/ UNCHANGED discoveryVars
  BY <1>2, <1>4, <1>5 DEF Start, StartServer, discoveryVars, processVars
<1>6. CASE ConnectPostgres
  <2>1. /\ call' = [call EXCEPT ![Boot] = NewCall("plugin")] /\ UNCHANGED <<cached, keySet>>
        /\ Boot \in Callers
    BY <1>6 DEF ConnectPostgres, Callers
  <2>2. Follows(NewCall("plugin")) /\ NewCall("plugin").stage # "refused"
    BY DEF Follows, NewCall
  <2>3. QED
    BY <1>4, <2>1, <2>2, OneCallStaysCaughtUp
<1>7. CASE Crash
  <2>1. cached' = None /\ keySet' = None /\ \A c \in Callers : call'[c] = None
    BY <1>7 DEF Crash, Stopped, Idle
  <2>2. QED
    BY <1>1, <2>1 DEF StaysCaughtUp, CaughtUp, DocumentsCaughtUp, KeySetCaughtUp, CallCaughtUp,
                      Reading, At, Callers
<1>8. CASE Tick
  <2>1. cached' = CachedLater /\ keySet' = KeySetLater /\ UNCHANGED call
    BY <1>8 DEF Tick
  <2>2. DocumentCaughtUp'
    <3>1. CASE Fresh
      <4>1. /\ cached \in CachedDocument /\ cached.left > 0
            /\ cached' = [cached EXCEPT !.left = @ - 1]
        BY <2>1, <3>1, ProcessIsTyped DEF CachedLater, Fresh
      <4>2. cached.left \in Nat /\ cached'.document = cached.document
        BY <4>1 DEF CachedDocument
      <4>3. cached.document = published
        BY <1>3, <3>1, <4>1, <4>2 DEF DocumentCaughtUp, Fresh
      <4>4. QED
        BY <1>1, <4>2, <4>3 DEF DocumentCaughtUp
    <3>2. CASE ~Fresh
      BY <1>1, <1>3, <2>1, <3>2 DEF CachedLater, DocumentCaughtUp
    <3>3. QED
      BY <3>1, <3>2
  <2>3. KeySetCaughtUp'
    <3>1. CASE keySet # None /\ keySet.age < CacheMaxAge
      <4>1. keySet \in KeySet /\ keySet' = [keySet EXCEPT !.age = @ + 1]
        BY <2>1, <3>1, ProcessIsTyped DEF KeySetLater
      <4>2. /\ keySet'.uri = keySet.uri /\ keySet'.keys = keySet.keys
            /\ keySet'.age = keySet.age + 1 /\ keySet.age \in Nat
        BY <4>1, TimesAssumption DEF KeySet
      <4>3. keySet.age >= CooldownDuration => keySet'.age >= CooldownDuration
        BY <4>2, TimesAssumption
      <4>4. QED
        BY <1>1, <1>3, <3>1, <4>2, <4>3 DEF KeySetCaughtUp
    <3>2. CASE ~(keySet # None /\ keySet.age < CacheMaxAge)
      BY <1>1, <1>3, <2>1, <3>2 DEF KeySetLater, KeySetCaughtUp
    <3>3. QED
      BY <3>1, <3>2
  <2>4. QED
    BY <1>2, <2>1, <2>2, <2>3
<1>9. QED
  BY <1>5, <1>6, <1>7, <1>8

LEMMA OneLoginChanges ==
    ASSUME ServiceInvariant, Move \/ Rotate \/ GoDown \/ Recover
    PROVE  ~UNCHANGED oneLoginVars
<1>1. /\ published \in [Endpoints -> 0 .. MaxChanges] /\ signing \in Nat
      /\ \A e \in Endpoints : published[e] \in Nat
  BY BoundsAssumption DEF ServiceInvariant, TypeOK, Document
<1>2. CASE Move
  BY <1>1, <1>2 DEF Move, oneLoginVars
<1>3. CASE Rotate
  BY <1>1, <1>3 DEF Rotate, oneLoginVars
<1>4. CASE GoDown \/ Recover
  BY <1>4 DEF GoDown, Recover, oneLoginVars
<1>5. QED
  BY <1>2, <1>3, <1>4

\* NoRefusalOnceCaughtUp: for any number of requests and refreshes in flight, a
\* process that has caught up with One Login stays so until One Login changes,
\* and refuses nobody on account of its caches.
THEOREM NobodyIsRefusedOnceCaughtUp == Spec => NoRefusalOnceCaughtUp
<1>1. ASSUME ServiceInvariant, [Next]_discoveryVars, CaughtUp, UNCHANGED oneLoginVars
      PROVE  StaysCaughtUp
  BY <1>1, ReadsStayCaughtUp, CallsStayCaughtUp, OthersStayCaughtUp, OneLoginChanges DEF Next
<1>2. ServiceInvariant /\ [Next]_discoveryVars =>
          [CaughtUp /\ UNCHANGED oneLoginVars =>
              /\ CaughtUp'
              /\ \A s \in Slots :
                     At(s, "refused")' /\ ~At(s, "refused") =>
                         bell.token # published.token]_discoveryVars
  BY <1>1 DEF StaysCaughtUp
<1>3. QED
  BY <1>2, ServiceInvariantHolds, PTL DEF Spec, NoRefusalOnceCaughtUp

=============================================================================
