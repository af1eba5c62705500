----------------------------- MODULE ProbeProofs -----------------------------
(***************************************************************************)
(* What starts is as closed as its environment asked, and stays so for     *)
(* every request, whatever the limit of a body and the set of namespaces;  *)
(* the summary of the access log is exact, whatever the lines, their       *)
(* length and the limit of the tail.                                       *)
(***************************************************************************)
EXTENDS Probe, FiniteSetTheorems, FunctionTheorems, SequenceTheorems, WellFoundedInduction, TLAPS

-----------------------------------------------------------------------------
(***************************************************************************)
(* The configuration is Missing, or what loadConfig made of the environment*)
(* the program was started with.                                           *)
(***************************************************************************)
ConfigInv ==
  /\ env \in ProbeEnvs \cup HubEnvs
  /\ \/ config = [mode |-> Missing]
     \/ env.mode = "probe" /\ config = LoadProbe
     \/ env.mode = "hub" /\ config = LoadHub

\* A hub's variables that its secrets are read from.
HubSecrets(e) ==
  /\ e.mode = "hub" /\ e.auth.token \in Secrets /\ e.splunk.url \in BOOLEAN
  /\ e.datadog.api \in Secrets /\ e.datadog.app \in Secrets /\ e.splunk.token \in Secrets

\* Every environment is one of a probe or one of a hub.
LEMMA Environments ==
  /\ \A e \in ProbeEnvs : e.mode = "probe" /\ e.token \in Secrets
  /\ \A e \in HubEnvs : HubSecrets(e)
<1>1. \A e \in ProbeEnvs : e.mode = "probe" /\ e.token \in Secrets
  BY DEF ProbeEnvs
<1>2. /\ NoSecret \in Secrets /\ Plain.mode = "hub" /\ Plain.auth.token = NoSecret
      /\ Plain.splunk.url = FALSE /\ Plain.splunk.token = NoSecret
      /\ Plain.datadog.api = NoSecret /\ Plain.datadog.app = NoSecret
  BY DEF NoSecret, Secrets, Plain
<1>3. ASSUME NEW e \in HubEnvs
      PROVE  HubSecrets(e)
  <2>1. ASSUME NEW a \in HubAuth, e = [Plain EXCEPT !.auth = a]
        PROVE  HubSecrets(e)
    <3>1. e.mode = Plain.mode /\ e.auth = a /\ e.splunk = Plain.splunk /\ e.datadog = Plain.datadog
      BY <2>1 DEF Plain
    <3>2. a.token \in Secrets
      BY DEF HubAuth
    <3>. QED
      BY <1>2, <3>1, <3>2 DEF HubSecrets
  <2>2. ASSUME NEW s \in HubSpaces, e = [Plain EXCEPT !.spaces = s]
        PROVE  HubSecrets(e)
    <3>1. e.mode = Plain.mode /\ e.auth = Plain.auth /\ e.splunk = Plain.splunk /\ e.datadog = Plain.datadog
      BY <2>2 DEF Plain
    <3>. QED
      BY <1>2, <3>1 DEF HubSecrets
  <2>3. ASSUME NEW d \in Datadog, e = [Plain EXCEPT !.datadog = d]
        PROVE  HubSecrets(e)
    <3>1. e.mode = Plain.mode /\ e.datadog = d /\ e.auth = Plain.auth /\ e.splunk = Plain.splunk
      BY <2>3 DEF Plain
    <3>2. d.api \in Secrets /\ d.app \in Secrets
      BY DEF Datadog
    <3>. QED
      BY <1>2, <3>1, <3>2 DEF HubSecrets
  <2>4. ASSUME NEW s \in Splunk, e = [Plain EXCEPT !.splunk = s]
        PROVE  HubSecrets(e)
    <3>1. e.mode = Plain.mode /\ e.splunk = s /\ e.auth = Plain.auth /\ e.datadog = Plain.datadog
      BY <2>4 DEF Plain
    <3>2. s.url \in BOOLEAN /\ s.token \in Secrets
      BY DEF Splunk
    <3>. QED
      BY <1>2, <3>1, <3>2 DEF HubSecrets
  <2>. QED
    BY <2>1, <2>2, <2>3, <2>4 DEF HubEnvs
<1>. QED
  BY <1>1, <1>3

LEMMA PlainEnvironment == Plain \in HubEnvs
<1>1. Plain.splunk \in Splunk /\ [Plain EXCEPT !.splunk = Plain.splunk] = Plain
  BY DEF Plain, Splunk, NoSecret, Secrets
<1>. QED
  BY <1>1 DEF HubEnvs

\* Reading a secret: what is given is used, from the file if one is named; the rest
\* is nothing or an error.
LEMMA SecretRead ==
  ASSUME NEW s \in Secrets
  PROVE  /\ Given(s) \in BOOLEAN
         /\ Given(s) <=> Secret(s) \in {"file", "var"}
         /\ Secret(s) \in {"file", "var", Bad, Missing}
         /\ s.file # "unset" => Secret(s) \in {"file", Bad}
BY DEF Secret, Given, Secrets, Bad, Missing

\* The providers are all right, or the configuration is refused.
LEMMA ProvidersRead ==
  ASSUME env \in HubEnvs, Bad \notin ParseProviders
  PROVE  /\ ("datadog" \in ParseProviders) = (Given(env.datadog.api) /\ Given(env.datadog.app))
         /\ ("splunk" \in ParseProviders) = (env.splunk.url /\ Given(env.splunk.token))
         /\ ~(Given(env.datadog.api) /\ "datadog" \notin ParseProviders)
<1>. DEFINE api   == Secret(env.datadog.api)
            app   == Secret(env.datadog.app)
            url   == IF env.splunk.url THEN "var" ELSE Missing
            token == Secret(env.splunk.token)
            chosen == {p \in {"datadog", "splunk"} : (p = "datadog" /\ api # Missing) \/ (p = "splunk" /\ url # Missing)}
<1>1. Pair(api, app) /\ Pair(url, token) /\ ParseProviders = chosen
  BY DEF ParseProviders
<1>2. ("datadog" \in chosen) = (api # Missing) /\ ("splunk" \in chosen) = (url # Missing)
  OBVIOUS
<1>3. /\ Given(env.datadog.api) <=> api \in {"file", "var"}
      /\ Given(env.datadog.app) <=> app \in {"file", "var"}
      /\ Given(env.splunk.token) <=> token \in {"file", "var"}
      /\ Given(env.datadog.api) \in BOOLEAN /\ Given(env.datadog.app) \in BOOLEAN /\ Given(env.splunk.token) \in BOOLEAN
      /\ {api, app, token} \subseteq {"file", "var", Bad, Missing}
      /\ env.splunk.url \in BOOLEAN
  <2>1. HubSecrets(env)
    BY Environments
  <2>. QED
    BY <2>1, SecretRead DEF HubSecrets
<1>. HIDE DEF api, app, token, chosen
<1>. QED
  BY <1>1, <1>2, <1>3 DEF Pair, Bad, Missing

LEMMA LoadedSafe == ConfigInv => ConfigSafe
<1>. SUFFICES ASSUME ConfigInv
              PROVE  ConfigSafe
  OBVIOUS
<1>1. ASSUME config.mode = "probe"
      PROVE  /\ Given(env.token) \/ env.open = "true"
             /\ env.token.file # "unset" => config.token = "file"
  <2>1. env.mode = "probe" /\ config = LoadProbe /\ env \in ProbeEnvs
    BY <1>1, Environments DEF HubSecrets, ConfigInv, LoadHub, Missing, Bad
  <2>2. /\ config.token = Secret(env.token) /\ Secret(env.token) # Bad
        /\ Secret(env.token) # Missing \/ env.open = "true"
    BY <1>1, <2>1 DEF LoadProbe, ParseBool, Bad
  <2>. QED
    BY <2>1, <2>2, Environments, SecretRead
<1>2. ASSUME config.mode = "hub"
      PROVE  /\ config.transport = "http" => (Given(env.auth.token) \/ env.auth.open = "true")
             /\ (config.default # Missing /\ config.allow # {}) => config.default \in config.allow
             /\ config.providers = ParseProviders /\ Bad \notin ParseProviders /\ env \in HubEnvs
  <2>1. env.mode = "hub" /\ config = LoadHub /\ env \in HubEnvs
    BY <1>2, Environments DEF HubSecrets, ConfigInv, LoadProbe, Missing, Bad
  <2>. DEFINE default == IF env.spaces.default = Missing /\ Cardinality(env.spaces.allow) = 1
                         THEN CHOOSE n \in env.spaces.allow : TRUE ELSE env.spaces.default
  <2>2. /\ config.transport = env.auth.transport /\ config.default = default /\ config.allow = env.spaces.allow
        /\ config.providers = ParseProviders /\ Bad \notin ParseProviders
        /\ ~(env.auth.transport = "http" /\ Secret(env.auth.token) = Missing /\ ~(env.auth.open = "true"))
        /\ ~(default # Missing /\ env.spaces.allow # {} /\ default \notin env.spaces.allow)
        /\ Secret(env.auth.token) # Bad
    BY <1>2, <2>1 DEF LoadHub, ParseBool, Bad
  <2>. HIDE DEF default
  <2>. QED
    BY <2>1, <2>2, Environments, SecretRead DEF HubSecrets
<1>. QED
  BY <1>1, <1>2, ProvidersRead DEF ConfigSafe

-----------------------------------------------------------------------------
(***************************************************************************)
(* A request that is past the gate was let through by it, and one whose    *)
(* body is read is a beacon.                                               *)
(***************************************************************************)
Past == {"gated", "files", "lookup", "connect", "headers", "upstream"}

GuardInv ==
  /\ stage # "none" => config.mode = "probe"
  /\ stage \in Past => Authorized /\ request.method = "GET" /\ ~Open
  /\ stage = "body" => IsRum /\ chunks \in 0 .. BODY_LIMIT
  /\ stage \in {"lookup", "connect"} => config.active
  /\ stage \in {"none", "arrived"} => chunks = 0 /\ status = 0
  /\ status = 200 /\ ~Open => Authorized /\ request.method = "GET"
  /\ status = 204 => config.rum /\ chunks <= BODY_LIMIT

ServerInv == ConfigInv /\ GuardInv

LEMMA GuardStart == ProbeInit => ServerInv
<1>. SUFFICES ASSUME ProbeInit
              PROVE  ServerInv
  OBVIOUS
<1>1. ConfigInv
  BY PlainEnvironment DEF ProbeInit, ConfigIdle, ConfigInit, ConfigInv
<1>2. GuardInv
  BY DEF ProbeInit, ServerIdle, GuardInv, Past
<1>. QED
  BY <1>1, <1>2 DEF ServerInv

LEMMA LoadStep ==
  ASSUME ServerInv, Load, UNCHANGED <<request, stage, status, chunks>>
  PROVE  ServerInv'
<1>1. env' = env /\ config.mode = "missing" /\ config' = IF env.mode = "probe" THEN LoadProbe ELSE LoadHub
  BY DEF Load, Missing
<1>2. env.mode \in {"probe", "hub"} /\ LoadProbe' = LoadProbe /\ LoadHub' = LoadHub
  BY <1>1, Environments DEF HubSecrets, ServerInv, ConfigInv, LoadProbe, LoadHub, ParseProviders
<1>3. ConfigInv'
  BY <1>1, <1>2 DEF ServerInv, ConfigInv
<1>4. stage = "none" /\ status = 0 /\ chunks = 0
  BY <1>1 DEF ServerInv, GuardInv
<1>. QED
  BY <1>3, <1>4 DEF ServerInv, GuardInv, Past

\* An answer that tells something was let through.
LEMMA AnswerStep ==
  ASSUME ServerInv, NEW s, Answer(s), stage # "none",
         s = 200 => Open \/ (Authorized /\ request.method = "GET"),
         s = 204 => config.rum /\ chunks <= BODY_LIMIT
  PROVE  ServerInv'
<1>1. /\ env' = env /\ config' = config /\ request' = request /\ chunks' = chunks
      /\ stage' = "answered" /\ status' = s
  BY DEF Answer
<1>2. (LoadProbe' = LoadProbe /\ LoadHub' = LoadHub) /\ (Open' = Open /\ Authorized' = Authorized)
  BY <1>1 DEF LoadProbe, LoadHub, ParseProviders, Open, Authorized
<1>3. ConfigInv'
  BY <1>1, <1>2 DEF ServerInv, ConfigInv
<1>. QED
  BY <1>1, <1>2, <1>3 DEF ServerInv, GuardInv, Past

LEMMA WaitStep ==
  ASSUME ServerInv, NEW what \in Past \cup {"body"}, WaitFor(what), stage # "none",
         what \in Past => Authorized /\ request.method = "GET" /\ ~Open,
         what = "body" => IsRum /\ chunks \in 0 .. BODY_LIMIT,
         what \in {"lookup", "connect"} => config.active
  PROVE  ServerInv'
<1>1. /\ env' = env /\ config' = config /\ request' = request /\ chunks' = chunks
      /\ stage' = what /\ status' = status
  BY DEF WaitFor
<1>2. (LoadProbe' = LoadProbe /\ LoadHub' = LoadHub) /\ (Open' = Open /\ Authorized' = Authorized /\ IsRum' = IsRum)
  BY <1>1 DEF LoadProbe, LoadHub, ParseProviders, Open, Authorized, IsRum
<1>3. ConfigInv'
  BY <1>1, <1>2 DEF ServerInv, ConfigInv
<1>. QED
  BY <1>1, <1>2, <1>3 DEF ServerInv, GuardInv, Past

\* One lemma per stage of a request.
LEMMA AtGate ==
  ASSUME ServerInv, Public \/ Gate
  PROVE  ServerInv'
<1>1. CASE Public
  <2>1. stage = "arrived" /\ chunks \in 0 .. BODY_LIMIT
    BY <1>1, LimitAssumption DEF Public, At, ServerInv, GuardInv
  <2>2. CASE IsRum /\ WaitFor("body")
    BY <2>1, <2>2, WaitStep DEF Past
  <2>3. CASE Open /\ Answer(200)
    BY <2>1, <2>3, AnswerStep
  <2>. QED
    BY <1>1, <2>2, <2>3 DEF Public
<1>2. CASE Gate
  BY <1>2, AnswerStep, WaitStep DEF Gate, At, Past
<1>. QED
  BY <1>1, <1>2

LEMMA InBody ==
  ASSUME ServerInv, Chunk \/ BodyEnds \/ BodyBreaks
  PROVE  ServerInv'
<1>1. stage = "body" /\ IsRum /\ chunks \in 0 .. BODY_LIMIT
  BY DEF Chunk, BodyEnds, BodyBreaks, At, ServerInv, GuardInv
<1>2. CASE \E s \in {0, 204, 400} : Answer(s)
  BY <1>1, <1>2, AnswerStep DEF IsRum
<1>3. ASSUME chunks < BODY_LIMIT, chunks' = chunks + 1, UNCHANGED <<env, config, request, stage, status>>
      PROVE  ServerInv'
  <2>1. LoadProbe' = LoadProbe /\ LoadHub' = LoadHub /\ IsRum' = IsRum /\ Open' = Open /\ Authorized' = Authorized
    BY <1>3 DEF LoadProbe, LoadHub, ParseProviders, IsRum, Open, Authorized
  <2>2. chunks' \in 0 .. BODY_LIMIT
    BY <1>1, <1>3, LimitAssumption
  <2>3. ConfigInv'
    BY <1>3, <2>1 DEF ServerInv, ConfigInv
  <2>. QED
    BY <1>1, <1>3, <2>1, <2>2, <2>3 DEF ServerInv, GuardInv, Past, IsRum
<1>. QED
  BY <1>2, <1>3 DEF Chunk, BodyEnds, BodyBreaks

LEMMA Behind ==
  ASSUME ServerInv, AtOnce \/ Refused \/ Awaits \/ FilesRead \/ LookedUp \/ HeadersCome \/ TimerFires \/ UpstreamEnds
  PROVE  ServerInv'
<1>1. stage \in Past
  BY DEF AtOnce, Refused, Awaits, FilesRead, LookedUp, Connected, HeadersCome, TimerFires, UpstreamFails, UpstreamEnds, At, Past
<1>2. Authorized /\ request.method = "GET" /\ ~Open /\ stage # "none"
  BY <1>1 DEF ServerInv, GuardInv, Past
<1>3. CASE \E s \in {200, 400, 403, 404, 500} : Answer(s)
  BY <1>2, <1>3, AnswerStep
<1>4. CASE \E what \in Past : WaitFor(what) /\ (what \in {"lookup", "connect"} => config.active)
  BY <1>2, <1>4, WaitStep DEF Past
<1>5. CASE AtOnce \/ Refused \/ FilesRead \/ LookedUp \/ TimerFires \/ UpstreamEnds
  BY <1>3, <1>5 DEF AtOnce, Refused, FilesRead, LookedUp, Connected, TimerFires, UpstreamFails, UpstreamEnds
<1>6. CASE Awaits \/ HeadersCome
  BY <1>4, <1>6 DEF Awaits, HeadersCome, Past
<1>. QED
  BY <1>5, <1>6

LEMMA ServerStays ==
  ASSUME ServerInv, UNCHANGED probeServerVars
  PROVE  ServerInv'
<1>1. UNCHANGED <<env, config, request, stage, status, chunks>>
  BY DEF probeServerVars
<1>2. LoadProbe' = LoadProbe /\ LoadHub' = LoadHub /\ IsRum' = IsRum /\ Open' = Open /\ Authorized' = Authorized
  BY <1>1 DEF LoadProbe, LoadHub, ParseProviders, IsRum, Open, Authorized
<1>. QED
  BY <1>1, <1>2 DEF ServerInv, ConfigInv, GuardInv

LEMMA RequestStep ==
  ASSUME ServerInv, ProbeServerNext
  PROVE  ServerInv'
<1>1. ASSUME NEW r \in Requests, Arrives(r)
      PROVE  ServerInv'
  <2>1. /\ env' = env /\ config' = config /\ stage' = "arrived" /\ chunks' = 0 /\ status' = 0
        /\ config.mode = "probe"
    BY <1>1 DEF Arrives, ServerInv, GuardInv
  <2>2. LoadProbe' = LoadProbe /\ LoadHub' = LoadHub
    BY <2>1 DEF LoadProbe, LoadHub, ParseProviders
  <2>. QED
    BY <2>1, <2>2 DEF ServerInv, ConfigInv, GuardInv, Past
<1>. QED
  BY <1>1, LoadStep, AtGate, InBody, Behind DEF ProbeServerNext, ServerStep

LEMMA ServerInvariant == ProbeSpec => []ServerInv
<1>1. ServerInv /\ [ProbeNext]_probeVars => ServerInv'
  BY RequestStep, ServerStays DEF ProbeNext, Handles, Reads, probeVars
<1>. QED
  BY <1>1, GuardStart, PTL DEF ProbeSpec

\* No start is more open than its environment says in words: an http server and a
\* probe have a secret of their own, from the file where one is named, providers are
\* whole, and the default namespace is inside the allow-list (config.ts 130-264).
THEOREM StartsAreSafe == ProbeSpec => []ConfigSafe
<1>1. ServerInv => ConfigSafe
  BY LoadedSafe DEF ServerInv
<1>. QED
  BY <1>1, ServerInvariant, PTL

LEMMA PastTheGate == ServerInv => Guarded
<1>. SUFFICES ASSUME ServerInv
              PROVE  Guarded
  OBVIOUS
<1>1. ASSUME config.mode = "probe"
      PROVE  /\ config.open => env.open = "true"
             /\ config.active => env.active = "true"
             /\ config.rum => env.rum = "true"
             /\ config.token # Missing => Given(env.token)
  <2>1. env.mode = "probe" /\ config = LoadProbe /\ env \in ProbeEnvs
    BY <1>1, Environments DEF HubSecrets, ServerInv, ConfigInv, LoadHub, Missing, Bad
  <2>2. /\ config.open = (env.open = "true") /\ config.active = (env.active = "true") /\ config.rum = (env.rum = "true")
        /\ config.token = Secret(env.token) /\ Secret(env.token) # Bad
    BY <1>1, <2>1 DEF LoadProbe, ParseBool, Bad
  <2>. QED
    BY <2>1, <2>2, Environments, SecretRead
<1>2. stage # "none" => config.mode = "probe"
  BY DEF ServerInv, GuardInv
<1>3. stage = "none" => status = 0
  BY DEF ServerInv, GuardInv
<1>. QED
  BY <1>1, <1>2, <1>3 DEF Guarded, ServerInv, GuardInv, Authorized

\* What lies behind the token or a switch is told or done only where both allow it,
\* for every environment and every request (server.ts 214-306).
THEOREM RequestsAreGuarded == ProbeSpec => []Guarded
BY ServerInvariant, PastTheGate, PTL

-----------------------------------------------------------------------------
(***************************************************************************)
(* The access log.                                                         *)
(***************************************************************************)

LEMMA LeastNumber ==
  ASSUME NEW T, T \subseteq Nat, T # {}
  PROVE  Min(T) \in T /\ \A k \in T : Min(T) <= k
<1>1. PICK m \in T : \A k \in T : ~(<<k, m>> \in OpToRel(<, Nat))
  BY NatLessThanWellFounded, WFMin
<1>2. \A k \in T : ~(k < m)
  BY <1>1 DEF OpToRel
<1>3. \A k \in T : m <= k
  BY <1>2
<1>. QED
  BY <1>3 DEF Min

\* A file holds whole lines, one after the other, of the first n.
Whole(f, n) ==
  /\ f \in Seq((1 .. n) \X (1 .. LENGTH))
  /\ \A x \in 1 .. Len(f) : f[x][2] = 1 =>
       /\ (x + LENGTH) - 1 <= Len(f)
       /\ \A p \in 1 .. LENGTH : f[(x + p) - 1] = <<f[x][1], p>>
       /\ x # 1 => f[x - 1][2] = LENGTH
  /\ \A x, y \in 1 .. Len(f) : x < y /\ f[x][2] = 1 /\ f[y][2] = 1 => f[x][1] < f[y][1]
  /\ Len(f) > 0 => f[Len(f)][2] = LENGTH

Rising(q) == \A i, j \in 1 .. Len(q) : i < j => q[i] < q[j]

Wanted(l) == since => written[l].recent

\* The file as it is, and as of the stat.
FileInv ==
  /\ written \in Seq(Kinds) /\ since \in BOOLEAN /\ size \in Nat /\ cut \in BOOLEAN
  /\ Whole(file, Len(written))
  /\ at \in {"stat", "tally", "told"} => Whole(seen, Len(written)) /\ size = Len(seen)
  /\ at = "stat" /\ ~cut => Len(seen) <= Len(file) /\ \A x \in 1 .. Len(seen) : file[x] = seen[x]

\* The lines parsed: what is counted, then what is still to be.
LinesInv ==
  /\ at \notin {"tally", "told"} => records = <<>> /\ counted = <<>>
  /\ at = "told" => records = <<>>
  /\ records \in Seq(1 .. Len(written)) /\ counted \in Seq(1 .. Len(written))
  /\ Rising(records) /\ Rising(counted)
  /\ \A i \in 1 .. Len(counted), j \in 1 .. Len(records) : counted[i] < records[j]
  /\ at \in {"tally", "told"} /\ ~cut => Range(counted) \cup Range(records) = {l \in InTail : Wanted(l)}

\* The entry of the lines W, of which those in F have failed.
EntryOf(W, F) == [count |-> Cardinality(W), errors |-> Cardinality(W \cap F)]

TablesInv ==
  /\ byStatus = [s \in Statuses |-> Cardinality(WithStatus(s))]
  /\ byPath = [p \in Paths |-> EntryOf(WithPath(p), WithStatus("5xx"))]
  /\ byUpstream = [u \in Upstreams |-> EntryOf(WithUpstream(u), WithStatus("5xx"))]

AccessInv == FileInv /\ LinesInv /\ TablesInv

LEMMA WholeNone ==
  ASSUME NEW n \in Nat
  PROVE  Whole(<<>>, n)
BY DEF Whole

LEMMA AccessStart == AccessIdle \/ AccessInit => AccessInv
<1>. SUFFICES ASSUME AccessIdle \/ AccessInit
              PROVE  AccessInv
  OBVIOUS
<1>1. /\ written = <<>> /\ file = <<>> /\ since \in BOOLEAN /\ at = "idle" /\ size = 0
      /\ records = <<>> /\ counted = <<>> /\ NoCounts /\ cut = FALSE
  BY DEF AccessIdle, AccessInit
<1>2. FileInv
  <2>1. written \in Seq(Kinds) /\ Len(written) \in Nat
    BY <1>1
  <2>2. Whole(file, Len(written))
    BY <1>1, <2>1, WholeNone
  <2>. QED
    BY <1>1, <2>1, <2>2 DEF FileInv
<1>3. LinesInv
  <2>1. \A i \in 1 .. Len(counted) : FALSE
    BY <1>1
  <2>2. Rising(records) /\ Rising(counted)
    BY <1>1 DEF Rising
  <2>3. records \in Seq(1 .. Len(written)) /\ counted \in Seq(1 .. Len(written))
    BY <1>1
  <2>. QED
    BY <1>1, <2>1, <2>2, <2>3 DEF LinesInv
<1>4. TablesInv
  <2>1. \A x : WithStatus(x) = {} /\ WithPath(x) = {} /\ WithUpstream(x) = {}
    BY <1>1 DEF WithStatus, WithPath, WithUpstream, Range
  <2>2. Cardinality({}) = 0 /\ \A S : {} \cap S = {}
    BY FS_EmptySet
  <2>3. \A F : EntryOf({}, F) = [count |-> 0, errors |-> 0]
    BY <2>2 DEF EntryOf
  <2>. QED
    BY <1>1, <2>1, <2>2, <2>3 DEF TablesInv, NoCounts
<1>. QED
  BY <1>2, <1>3, <1>4 DEF AccessInv

\* The tables stay as long as no line is counted and the lines that are stay.
LEMMA TablesStay ==
  ASSUME TablesInv, UNCHANGED <<counted, byStatus, byPath, byUpstream>>,
         \A l \in Range(counted) : written'[l] = written[l]
  PROVE  TablesInv'
<1>1. /\ \A s : WithStatus(s)' = WithStatus(s)
      /\ \A p : WithPath(p)' = WithPath(p)
      /\ \A u : WithUpstream(u)' = WithUpstream(u)
  BY DEF WithStatus, WithPath, WithUpstream, Range
<1>. QED
  BY <1>1 DEF TablesInv

\* So do the lines, as long as the file of the stat is the same.
LEMMA LinesStay ==
  ASSUME LinesInv, UNCHANGED <<since, records, counted>>, Len(written) \in Nat, Len(written') \in Nat,
         Len(written) <= Len(written'), \A l \in 1 .. Len(written) : written'[l] = written[l],
         at' \notin {"tally", "told"} => records = <<>> /\ counted = <<>>,
         at' = "told" => records = <<>>,
         at' \in {"tally", "told"} =>
           at \in {"tally", "told"} /\ Whole(seen, Len(written)) /\ UNCHANGED <<seen, size, cut>>
  PROVE  LinesInv'
<1>1. records' \in Seq(1 .. Len(written')) /\ counted' \in Seq(1 .. Len(written'))
  <2>1. 1 .. Len(written) \subseteq 1 .. Len(written')
    OBVIOUS
  <2>. QED
    BY <2>1, SeqMonotonic DEF LinesInv
<1>2. Rising(records)' /\ Rising(counted)'
  BY DEF LinesInv, Rising
<1>3. ASSUME at' \in {"tally", "told"}, ~cut'
      PROVE  Range(counted)' \cup Range(records)' = {l \in InTail : Wanted(l)}'
  <2>1. InTail' = InTail
    BY <1>3 DEF InTail, Begin
  <2>2. \A l \in InTail : Wanted(l)' <=> Wanted(l)
    <3>1. \A i \in DOMAIN seen : seen[i][1] \in 1 .. Len(written)
      <4>1. seen \in Seq((1 .. Len(written)) \X (1 .. LENGTH))
        BY <1>3 DEF Whole
      <4>. QED
        BY <4>1
    <3>2. \A l \in InTail : l \in 1 .. Len(written)
      BY <3>1 DEF InTail
    <3>. QED
      BY <3>2 DEF Wanted
  <2>3. Range(counted) \cup Range(records) = {l \in InTail : Wanted(l)}
    BY <1>3 DEF LinesInv
  <2>4. {l \in InTail : Wanted(l)}' = {l \in InTail : Wanted(l)}
    BY <2>1, <2>2
  <2>. QED
    BY <2>3, <2>4 DEF Range
<1>. QED
  BY <1>1, <1>2, <1>3 DEF LinesInv

LEMMA OpenStep ==
  ASSUME AccessInv, NEW fails \in BOOLEAN, OpenLog(fails)
  PROVE  AccessInv'
<1>1. /\ at = "idle" /\ at' \in {"open", "unreadable"}
      /\ UNCHANGED <<written, file, since, lax, size, records, counted, byStatus, byPath, byUpstream, seen, cut>>
  BY DEF OpenLog
<1>2. FileInv'
  BY <1>1 DEF AccessInv, FileInv
<1>3. LinesInv'
  BY <1>1, LinesStay DEF AccessInv, LinesInv, FileInv
<1>4. TablesInv'
  BY <1>1, TablesStay DEF AccessInv
<1>. QED
  BY <1>2, <1>3, <1>4 DEF AccessInv

LEMMA StatStep ==
  ASSUME AccessInv, StatLog
  PROVE  AccessInv'
<1>1. /\ at = "open" /\ at' = "stat" /\ size' = Len(file) /\ seen' = file
      /\ UNCHANGED <<written, file, since, lax, records, counted, byStatus, byPath, byUpstream, cut>>
  BY DEF StatLog
<1>2. FileInv'
  <2>1. Len(file) \in Nat
    BY DEF AccessInv, FileInv, Whole
  <2>. QED
    BY <1>1, <2>1 DEF AccessInv, FileInv
<1>3. LinesInv'
  BY <1>1, LinesStay DEF AccessInv, LinesInv, FileInv
<1>4. TablesInv'
  BY <1>1, TablesStay DEF AccessInv
<1>. QED
  BY <1>2, <1>3, <1>4 DEF AccessInv

LEMMA TruncateStep ==
  ASSUME AccessInv, Truncate
  PROVE  AccessInv'
<1>1. /\ at \in {"open", "stat"} /\ file' = <<>> /\ cut' = (cut \/ at = "stat")
      /\ UNCHANGED <<written, since, lax, at, size, records, counted, byStatus, byPath, byUpstream, seen>>
  BY DEF Truncate
<1>2. FileInv'
  <2>1. Len(written) \in Nat
    BY DEF AccessInv, FileInv
  <2>2. Whole(file', Len(written))
    BY <1>1, <2>1, WholeNone
  <2>. QED
    BY <1>1, <2>2 DEF AccessInv, FileInv
<1>3. LinesInv'
  BY <1>1, LinesStay DEF AccessInv, LinesInv, FileInv
<1>4. TablesInv'
  BY <1>1, TablesStay DEF AccessInv
<1>. QED
  BY <1>2, <1>3, <1>4 DEF AccessInv

LEMMA ToldStep ==
  ASSUME AccessInv, AccessTold
  PROVE  AccessInv'
<1>1. /\ at = "tally" /\ at' = "told" /\ records = <<>>
      /\ UNCHANGED <<written, file, since, lax, size, records, counted, byStatus, byPath, byUpstream, seen, cut>>
  BY DEF AccessTold
<1>2. FileInv'
  BY <1>1 DEF AccessInv, FileInv
<1>3. LinesInv'
  BY <1>1, LinesStay DEF AccessInv, LinesInv, FileInv
<1>4. TablesInv'
  BY <1>1, TablesStay DEF AccessInv
<1>. QED
  BY <1>2, <1>3, <1>4 DEF AccessInv

-----------------------------------------------------------------------------
LEMMA WholeOfMore ==
  ASSUME NEW f, NEW n \in Nat, Whole(f, n)
  PROVE  Whole(f, n + 1)
<1>1. f \in Seq((1 .. n + 1) \X (1 .. LENGTH))
  <2>1. (1 .. n) \X (1 .. LENGTH) \subseteq (1 .. n + 1) \X (1 .. LENGTH)
    OBVIOUS
  <2>. QED
    BY <2>1, SeqMonotonic DEF Whole
<1>. QED
  BY <1>1 DEF Whole

LEMMA BytesShape ==
  ASSUME NEW n
  PROVE  /\ Bytes(n) \in Seq({n} \X (1 .. LENGTH)) /\ Len(Bytes(n)) = LENGTH
         /\ \A p \in 1 .. LENGTH : Bytes(n)[p] = <<n, p>>
<1>1. Bytes(n) = [p \in 1 .. LENGTH |-> <<n, p>>]
  BY DEF Bytes
<1>2. Bytes(n) \in [1 .. LENGTH -> {n} \X (1 .. LENGTH)]
  BY <1>1
<1>3. LENGTH \in Nat
  BY AccessAssumption
<1>. QED
  BY <1>1, <1>2, <1>3

LEMMA WholeGrows ==
  ASSUME NEW f, NEW n \in Nat, Whole(f, n)
  PROVE  Whole(f \o Bytes(n + 1), n + 1)
<1>. DEFINE g == f \o Bytes(n + 1)
            S == (1 .. n + 1) \X (1 .. LENGTH)
            m == Len(f)
<1>1. LENGTH \in Nat /\ LENGTH > 1
  BY AccessAssumption
<1>2. f \in Seq(S) /\ f \in Seq((1 .. n) \X (1 .. LENGTH)) /\ m \in Nat
  BY WholeOfMore DEF Whole
<1>3. Bytes(n + 1) \in Seq(S) /\ Len(Bytes(n + 1)) = LENGTH /\ \A p \in 1 .. LENGTH : Bytes(n + 1)[p] = <<n + 1, p>>
  <2>1. {n + 1} \X (1 .. LENGTH) \subseteq S
    OBVIOUS
  <2>. HIDE DEF S
  <2>. QED
    BY <2>1, BytesShape, SeqMonotonic
<1>. HIDE DEF S
<1>4. g \in Seq(S) /\ Len(g) = m + LENGTH
  BY <1>2, <1>3, ConcatProperties
<1>5. \A x \in 1 .. m : g[x] = f[x]
  BY <1>2, <1>3
<1>6. \A p \in 1 .. LENGTH : g[m + p] = <<n + 1, p>>
  <2>. TAKE p \in 1 .. LENGTH
  <2>1. m + p \in (m + 1) .. (m + LENGTH) /\ (m + p) - m = p
    BY <1>1, <1>2
  <2>2. g[m + p] = Bytes(n + 1)[(m + p) - m]
    BY <1>2, <1>3, <2>1
  <2>. QED
    BY <1>3, <2>1, <2>2
<1>. HIDE DEF g, m
<1>7. /\ \A x \in 1 .. m : f[x][2] = 1 =>
           /\ (x + LENGTH) - 1 <= m
           /\ \A p \in 1 .. LENGTH : f[(x + p) - 1] = <<f[x][1], p>>
           /\ x # 1 => f[x - 1][2] = LENGTH
      /\ \A x, y \in 1 .. m : x < y /\ f[x][2] = 1 /\ f[y][2] = 1 => f[x][1] < f[y][1]
      /\ m > 0 => f[m][2] = LENGTH
  BY DEF Whole, m
<1>8. \A x \in 1 .. m : f[x][1] \in 1 .. n
  BY <1>2 DEF m
<1>9. ASSUME NEW x \in 1 .. m + LENGTH, g[x][2] = 1
      PROVE  x \in 1 .. m \/ x = m + 1
  <2>1. CASE x > m
    <3>1. x - m \in 1 .. LENGTH /\ m + (x - m) = x
      BY <1>1, <1>2, <2>1
    <3>2. g[x] = <<n + 1, x - m>>
      BY <1>6, <3>1
    <3>3. x - m = 1
      BY <1>9, <3>2
    <3>. QED
      BY <1>2, <3>1, <3>3
  <2>. QED
    BY <1>1, <1>2, <2>1
<1>10. g[m + 1] = <<n + 1, 1>>
  BY <1>1, <1>6
<1>11. ASSUME NEW x \in 1 .. m + LENGTH, g[x][2] = 1
       PROVE  /\ (x + LENGTH) - 1 <= m + LENGTH
              /\ \A p \in 1 .. LENGTH : g[(x + p) - 1] = <<g[x][1], p>>
              /\ x # 1 => g[x - 1][2] = LENGTH
  <2>1. CASE x \in 1 .. m
    <3>1. f[x][2] = 1 /\ g[x] = f[x]
      BY <1>5, <1>11, <2>1
    <3>2. /\ (x + LENGTH) - 1 <= m
          /\ \A p \in 1 .. LENGTH : f[(x + p) - 1] = <<f[x][1], p>>
          /\ x # 1 => f[x - 1][2] = LENGTH
      BY <1>7, <2>1, <3>1
    <3>3. \A p \in 1 .. LENGTH : (x + p) - 1 \in 1 .. m
      BY <1>1, <1>2, <2>1, <3>2
    <3>4. \A p \in 1 .. LENGTH : g[(x + p) - 1] = <<g[x][1], p>>
      BY <1>5, <3>1, <3>2, <3>3
    <3>5. x # 1 => x - 1 \in 1 .. m
      BY <1>2, <2>1
    <3>6. x # 1 => g[x - 1][2] = LENGTH
      BY <1>5, <3>2, <3>5
    <3>. QED
      BY <1>1, <1>2, <2>1, <3>2, <3>4, <3>6
  <2>2. CASE x = m + 1
    <3>1. \A p \in 1 .. LENGTH : (x + p) - 1 = m + p
      BY <1>1, <1>2, <2>2
    <3>2. \A p \in 1 .. LENGTH : g[(x + p) - 1] = <<g[x][1], p>>
      BY <1>6, <1>10, <2>2, <3>1
    <3>3. x # 1 => x - 1 = m /\ m \in 1 .. m
      BY <1>2, <2>2
    <3>4. x # 1 => g[x - 1][2] = LENGTH
      BY <1>2, <1>5, <1>7, <2>2, <3>3
    <3>5. (x + LENGTH) - 1 <= m + LENGTH
      BY <1>1, <1>2, <2>2
    <3>. QED
      BY <3>2, <3>4, <3>5
  <2>. QED
    BY <1>9, <1>11, <2>1, <2>2
<1>12. ASSUME NEW x \in 1 .. m + LENGTH, NEW y \in 1 .. m + LENGTH, x < y, g[x][2] = 1, g[y][2] = 1
       PROVE  g[x][1] < g[y][1]
  <2>1. x \in 1 .. m
    BY <1>1, <1>2, <1>9, <1>12
  <2>2. CASE y \in 1 .. m
    <3>1. g[x] = f[x] /\ g[y] = f[y]
      BY <1>5, <2>1, <2>2
    <3>. QED
      BY <1>7, <1>12, <2>1, <2>2, <3>1
  <2>3. CASE y = m + 1
    <3>1. g[y][1] = n + 1 /\ g[x][1] \in 1 .. n
      BY <1>5, <1>8, <1>10, <2>1, <2>3
    <3>. QED
      BY <3>1
  <2>. QED
    BY <1>9, <1>12, <2>2, <2>3
<1>13. g[m + LENGTH][2] = LENGTH
  BY <1>1, <1>6
<1>14. Whole(g, n + 1)
  BY <1>4, <1>11, <1>12, <1>13 DEF Whole, S
<1>. QED
  BY <1>14 DEF g

LEMMA AppendStep ==
  ASSUME AccessInv, NEW k \in Kinds, AppendLine(k)
  PROVE  AccessInv'
<1>. DEFINE n == Len(written)
<1>1. /\ at \notin {"told", "unreadable"} /\ written' = Append(written, k) /\ file' = file \o Bytes(n + 1)
      /\ UNCHANGED <<since, lax, at, size, records, counted, byStatus, byPath, byUpstream, seen, cut>>
  BY DEF AppendLine
<1>2. written \in Seq(Kinds) /\ n \in Nat
  BY DEF AccessInv, FileInv
<1>3. written' \in Seq(Kinds) /\ Len(written') = n + 1 /\ \A l \in 1 .. n : written'[l] = written[l]
  BY <1>1, <1>2
<1>. HIDE DEF n
<1>4. FileInv'
  <2>1. Whole(file', n + 1)
    BY <1>1, <1>2, WholeGrows DEF AccessInv, FileInv, n
  <2>2. at' \in {"stat", "tally", "told"} => Whole(seen', n + 1) /\ size' = Len(seen)
    BY <1>1, <1>2, WholeOfMore DEF AccessInv, FileInv, n
  <2>3. ASSUME at = "stat", ~cut
        PROVE  Len(seen) <= Len(file') /\ \A x \in 1 .. Len(seen) : file'[x] = seen[x]
    <3>1. /\ Len(seen) <= Len(file) /\ \A x \in 1 .. Len(seen) : file[x] = seen[x]
          /\ Whole(file, n) /\ Whole(seen, n)
      BY <2>3 DEF AccessInv, FileInv, n
    <3>2. file \in Seq((1 .. n) \X (1 .. LENGTH)) /\ seen \in Seq((1 .. n) \X (1 .. LENGTH)) /\ LENGTH \in Nat
      BY <3>1, AccessAssumption DEF Whole
    <3>3. Bytes(n + 1) \in Seq({n + 1} \X (1 .. LENGTH)) /\ Len(Bytes(n + 1)) = LENGTH
      BY BytesShape
    <3>4. Len(Bytes(n + 1)) \in Nat
      BY <3>2, <3>3
    <3>5. Len(file') = Len(file) + Len(Bytes(n + 1)) /\ \A x \in 1 .. Len(file) : file'[x] = file[x]
      BY <1>1, <3>2, <3>3
    <3>6. Len(file) \in Nat /\ Len(seen) \in Nat
      BY <3>2
    <3>7. \A x \in 1 .. Len(seen) : x \in 1 .. Len(file)
      BY <3>1, <3>6
    <3>. QED
      BY <3>1, <3>4, <3>5, <3>6, <3>7
  <2>. QED
    BY <1>1, <1>3, <2>1, <2>2, <2>3 DEF AccessInv, FileInv
<1>5. LinesInv'
  <2>1. at \in {"tally", "told"} => Whole(seen, Len(written))
    BY DEF AccessInv, FileInv
  <2>. QED
    BY <1>1, <1>2, <1>3, <2>1, LinesStay DEF AccessInv, LinesInv, n
<1>6. TablesInv'
  <2>1. \A l \in Range(counted) : l \in 1 .. n
    BY DEF AccessInv, LinesInv, Range, n
  <2>. QED
    BY <1>1, <1>3, <2>1, TablesStay DEF AccessInv
<1>. QED
  BY <1>4, <1>5, <1>6 DEF AccessInv

-----------------------------------------------------------------------------
LEMMA OneMore ==
  ASSUME NEW W, IsFiniteSet(W), NEW l, l \notin W, NEW F, l \notin F
  PROVE  /\ Cardinality(W) \in Nat /\ Cardinality(W \cap F) \in Nat
         /\ Cardinality(W \cup {l}) = Cardinality(W) + 1
         /\ Cardinality((W \cup {l}) \cap (F \cup {l})) = Cardinality(W \cap F) + 1
         /\ (W \cup {l}) \cap F = W \cap F
         /\ W \cap (F \cup {l}) = W \cap F
<1>1. W \cap F \in SUBSET W
  OBVIOUS
<1>2. IsFiniteSet(W \cap F)
  BY <1>1, FS_Subset
<1>3. (W \cup {l}) \cap (F \cup {l}) = (W \cap F) \cup {l} /\ l \notin W \cap F
  OBVIOUS
<1>4. Cardinality((W \cap F) \cup {l}) = Cardinality(W \cap F) + 1 /\ Cardinality(W \cup {l}) = Cardinality(W) + 1
  BY <1>2, <1>3, FS_AddElement
<1>5. Cardinality(W) \in Nat /\ Cardinality(W \cap F) \in Nat
  BY <1>2, FS_CardinalityType
<1>6. (W \cup {l}) \cap F = W \cap F /\ W \cap (F \cup {l}) = W \cap F
  OBVIOUS
<1>. QED
  BY <1>3, <1>4, <1>5, <1>6

LEMMA EntryMore ==
  ASSUME NEW W, IsFiniteSet(W), NEW l, l \notin W, NEW F, l \notin F, NEW G, NEW k,
         G = IF k.status = "5xx" THEN F \cup {l} ELSE F
  PROVE  /\ EntryOf(W \cup {l}, G) = [count |-> EntryOf(W, F).count + 1, errors |-> EntryOf(W, F).errors + Failed(k)]
         /\ EntryOf(W, G) = EntryOf(W, F)
<1>1. /\ Cardinality(W) \in Nat /\ Cardinality(W \cap F) \in Nat
      /\ Cardinality(W \cup {l}) = Cardinality(W) + 1
      /\ Cardinality((W \cup {l}) \cap (F \cup {l})) = Cardinality(W \cap F) + 1
      /\ (W \cup {l}) \cap F = W \cap F
      /\ W \cap (F \cup {l}) = W \cap F
  BY OneMore
<1>2. CASE k.status = "5xx"
  BY <1>1, <1>2 DEF Failed, EntryOf
<1>3. CASE k.status # "5xx"
  <2>1. G = F /\ Failed(k) = 0
    BY <1>3 DEF Failed
  <2>2. EntryOf(W \cup {l}, F) = [count |-> Cardinality(W) + 1, errors |-> Cardinality(W \cap F)]
    BY <1>1 DEF EntryOf
  <2>. QED
    BY <1>1, <2>1, <2>2 DEF EntryOf
<1>. QED
  BY <1>2, <1>3

LEMMA TallyStep ==
  ASSUME AccessInv, Tally
  PROVE  AccessInv'
<1>. DEFINE failed == WithStatus("5xx")
            more(e, k) == [count |-> e.count + 1, errors |-> e.errors + Failed(k)]
<1>0. PICK l, k : l = Head(records) /\ k = written[l]
  OBVIOUS
<1>1. /\ at = "tally" /\ records # <<>> /\ counted' = Append(counted, l) /\ records' = Tail(records)
      /\ UNCHANGED <<written, file, since, lax, at, size, seen, cut>>
  BY <1>0 DEF Tally
<1>2. /\ written \in Seq(Kinds) /\ Len(written) \in Nat
      /\ records \in Seq(1 .. Len(written)) /\ counted \in Seq(1 .. Len(written))
      /\ Rising(records) /\ Rising(counted)
      /\ \A i \in 1 .. Len(counted), j \in 1 .. Len(records) : counted[i] < records[j]
  BY DEF AccessInv, FileInv, LinesInv
<1>3. /\ Len(records) \in Nat /\ Len(records) > 0 /\ l = records[1] /\ l \in 1 .. Len(written)
      /\ Len(records') = Len(records) - 1 /\ records' \in Seq(1 .. Len(written))
      /\ \A i \in 1 .. Len(records) - 1 : records'[i] = records[i + 1]
  BY <1>0, <1>1, <1>2
<1>4. /\ Len(counted) \in Nat /\ Len(counted') = Len(counted) + 1 /\ counted' \in Seq(1 .. Len(written))
      /\ \A i \in 1 .. Len(counted) : counted'[i] = counted[i]
      /\ counted'[Len(counted) + 1] = l
  BY <1>1, <1>2, <1>3
<1>5. \A i \in 1 .. Len(counted) : counted[i] < l
  BY <1>2, <1>3
<1>6. Range(counted') = Range(counted) \cup {l} /\ l \notin Range(counted)
  <2>1. DOMAIN counted = 1 .. Len(counted) /\ DOMAIN counted' = 1 .. Len(counted) + 1
    BY <1>2, <1>4
  <2>2. 1 .. Len(counted) + 1 = (1 .. Len(counted)) \cup {Len(counted) + 1}
    BY <1>4
  <2>3. l \notin Range(counted)
    <3>1. \A i \in 1 .. Len(counted) : counted[i] \in Nat /\ l \in Nat /\ counted[i] < l
      BY <1>2, <1>3, <1>5
    <3>2. \A i \in 1 .. Len(counted) : counted[i] # l
      BY <3>1
    <3>. QED
      BY <2>1, <3>2 DEF Range
  <2>. QED
    BY <1>4, <2>1, <2>2, <2>3 DEF Range
<1>7. Range(records) = Range(records') \cup {l}
  <2>1. DOMAIN records = 1 .. Len(records) /\ DOMAIN records' = 1 .. Len(records) - 1
    BY <1>2, <1>3
  <2>2. ASSUME NEW i \in 1 .. Len(records)
        PROVE  records[i] \in Range(records') \cup {l}
    <3>1. CASE i = 1
      BY <1>3, <3>1
    <3>2. CASE i # 1
      <4>1. i - 1 \in 1 .. Len(records) - 1 /\ (i - 1) + 1 = i
        BY <1>3, <3>2
      <4>2. records'[i - 1] = records[i]
        BY <1>3, <4>1
      <4>. QED
        BY <2>1, <4>1, <4>2 DEF Range
    <3>. QED
      BY <3>1, <3>2
  <2>3. ASSUME NEW i \in 1 .. Len(records) - 1
        PROVE  records'[i] \in Range(records)
    <3>1. i + 1 \in 1 .. Len(records)
      BY <1>3
    <3>. QED
      BY <1>3, <2>1, <3>1 DEF Range
  <2>4. l \in Range(records)
    BY <1>3, <2>1 DEF Range
  <2>. QED
    BY <2>1, <2>2, <2>3, <2>4 DEF Range
<1>8. FileInv'
  BY <1>1 DEF AccessInv, FileInv
<1>9. LinesInv'
  <2>1. Rising(records')
    <3>1. \A i, j \in 1 .. Len(records) : i < j => records[i] < records[j]
      BY <1>2 DEF Rising
    <3>2. ASSUME NEW i \in 1 .. Len(records) - 1, NEW j \in 1 .. Len(records) - 1, i < j
          PROVE  records'[i] < records'[j]
      <4>1. i + 1 \in 1 .. Len(records) /\ j + 1 \in 1 .. Len(records) /\ i + 1 < j + 1
        BY <1>3, <3>2
      <4>. QED
        BY <1>3, <3>1, <4>1
    <3>. QED
      BY <1>3, <3>2 DEF Rising
  <2>2. Rising(counted')
    <3>1. \A i, j \in 1 .. Len(counted) : i < j => counted[i] < counted[j]
      BY <1>2 DEF Rising
    <3>2. ASSUME NEW i \in 1 .. Len(counted) + 1, NEW j \in 1 .. Len(counted) + 1, i < j
          PROVE  counted'[i] < counted'[j]
      <4>1. i \in 1 .. Len(counted)
        BY <1>4, <3>2
      <4>2. CASE j \in 1 .. Len(counted)
        BY <1>4, <3>1, <3>2, <4>1, <4>2
      <4>3. CASE j = Len(counted) + 1
        BY <1>4, <1>5, <4>1, <4>3
      <4>. QED
        BY <1>4, <4>2, <4>3
    <3>. QED
      BY <1>4, <3>2 DEF Rising
  <2>3. ASSUME NEW i \in 1 .. Len(counted'), NEW j \in 1 .. Len(records')
        PROVE  counted'[i] < records'[j]
    <3>1. j + 1 \in 1 .. Len(records) /\ 1 \in 1 .. Len(records) /\ 1 < j + 1 /\ records'[j] = records[j + 1]
      BY <1>3
    <3>2. CASE i \in 1 .. Len(counted)
      BY <1>2, <1>4, <3>1, <3>2
    <3>3. CASE i = Len(counted) + 1
      <4>1. records[1] < records[j + 1]
        BY <1>2, <3>1 DEF Rising
      <4>. QED
        BY <1>3, <1>4, <3>1, <3>3, <4>1
    <3>. QED
      BY <1>4, <3>2, <3>3
  <2>4. ASSUME ~cut
        PROVE  Range(counted') \cup Range(records') = {x \in InTail : Wanted(x)}'
    <3>1. Range(counted) \cup Range(records) = {x \in InTail : Wanted(x)}
      BY <1>1, <2>4 DEF AccessInv, LinesInv
    <3>2. InTail' = InTail /\ \A x : Wanted(x)' <=> Wanted(x)
      BY <1>1 DEF InTail, Begin, Wanted
    <3>. QED
      BY <1>6, <1>7, <3>1, <3>2
  <2>. QED
    BY <1>1, <1>3, <1>4, <2>1, <2>2, <2>3, <2>4 DEF LinesInv
<1>10. IsFiniteSet(Range(counted))
  <2>1. Range(counted) \in SUBSET (1 .. Len(written))
    BY <1>2 DEF Range
  <2>2. IsFiniteSet(1 .. Len(written))
    BY <1>2, FS_Interval
  <2>. QED
    BY <2>1, <2>2, FS_Subset
<1>11. k \in Kinds
  BY <1>0, <1>2, <1>3
<1>12. /\ \A s : WithStatus(s)' = IF s = k.status THEN WithStatus(s) \cup {l} ELSE WithStatus(s)
       /\ \A p : WithPath(p)' = IF p = k.path THEN WithPath(p) \cup {l} ELSE WithPath(p)
       /\ \A u : WithUpstream(u)' = IF u = k.upstream THEN WithUpstream(u) \cup {l} ELSE WithUpstream(u)
  <2>1. \A x \in Range(counted)' : x = l \/ x \in Range(counted)
    BY <1>6
  <2>. QED
    BY <1>0, <1>1, <1>6 DEF WithStatus, WithPath, WithUpstream
<1>13. \A x : /\ IsFiniteSet(WithStatus(x)) /\ l \notin WithStatus(x)
              /\ IsFiniteSet(WithPath(x)) /\ l \notin WithPath(x)
              /\ IsFiniteSet(WithUpstream(x)) /\ l \notin WithUpstream(x)
  <2>. TAKE x
  <2>1. /\ WithStatus(x) \in SUBSET Range(counted) /\ WithPath(x) \in SUBSET Range(counted)
        /\ WithUpstream(x) \in SUBSET Range(counted)
    BY DEF WithStatus, WithPath, WithUpstream
  <2>. QED
    BY <1>6, <1>10, <2>1, FS_Subset
<1>14. failed' = IF k.status = "5xx" THEN failed \cup {l} ELSE failed
  BY <1>12
<1>15. l \notin failed
  BY <1>13
<1>16. ASSUME NEW W, IsFiniteSet(W), l \notin W
       PROVE  EntryOf(W \cup {l}, failed') = more(EntryOf(W, failed), k) /\ EntryOf(W, failed') = EntryOf(W, failed)
  <2>1. PICK F, G : F = failed /\ G = failed'
    OBVIOUS
  <2>. HIDE DEF failed, more
  <2>2. l \notin F /\ G = IF k.status = "5xx" THEN F \cup {l} ELSE F
    BY <1>14, <1>15, <2>1
  <2>3. /\ EntryOf(W \cup {l}, G) = [count |-> EntryOf(W, F).count + 1, errors |-> EntryOf(W, F).errors + Failed(k)]
        /\ EntryOf(W, G) = EntryOf(W, F)
    BY <1>16, <2>2, EntryMore
  <2>. QED
    BY <2>1, <2>3 DEF more
<1>17. /\ byStatus = [s \in Statuses |-> Cardinality(WithStatus(s))]
       /\ byPath = [p \in Paths |-> EntryOf(WithPath(p), failed)]
       /\ byUpstream = [u \in Upstreams |-> EntryOf(WithUpstream(u), failed)]
  BY DEF AccessInv, TablesInv
<1>18. /\ byStatus' = [byStatus EXCEPT ![k.status] = @ + 1]
       /\ byPath' = [byPath EXCEPT ![k.path] = more(@, k)]
       /\ byUpstream' = [u \in Upstreams |-> IF u = k.upstream THEN more(byUpstream[u], k) ELSE byUpstream[u]]
  BY <1>0 DEF Tally
<1>. HIDE DEF more, failed
<1>19. byStatus' = [s \in Statuses |-> Cardinality(WithStatus(s)')]
  <2>1. \A s \in Statuses : byStatus'[s] = IF s = k.status THEN byStatus[s] + 1 ELSE byStatus[s]
    BY <1>17, <1>18
  <2>2. \A s : Cardinality(WithStatus(s) \cup {l}) = Cardinality(WithStatus(s)) + 1
    BY <1>13, FS_AddElement
  <2>3. \A s \in Statuses : byStatus'[s] = Cardinality(WithStatus(s)')
    BY <1>12, <1>17, <2>1, <2>2
  <2>. QED
    BY <1>17, <1>18, <2>3
<1>20. byPath' = [p \in Paths |-> EntryOf(WithPath(p)', failed')]
  <2>1. \A p \in Paths : byPath'[p] = IF p = k.path THEN more(byPath[p], k) ELSE byPath[p]
    BY <1>17, <1>18
  <2>2. \A p : /\ EntryOf(WithPath(p) \cup {l}, failed') = more(EntryOf(WithPath(p), failed), k)
               /\ EntryOf(WithPath(p), failed') = EntryOf(WithPath(p), failed)
    BY <1>13, <1>16
  <2>3. \A p \in Paths : byPath'[p] = EntryOf(WithPath(p)', failed')
    BY <1>12, <1>17, <2>1, <2>2
  <2>. QED
    BY <1>17, <1>18, <2>3
<1>21. byUpstream' = [u \in Upstreams |-> EntryOf(WithUpstream(u)', failed')]
  <2>1. \A u : /\ EntryOf(WithUpstream(u) \cup {l}, failed') = more(EntryOf(WithUpstream(u), failed), k)
               /\ EntryOf(WithUpstream(u), failed') = EntryOf(WithUpstream(u), failed)
    BY <1>13, <1>16
  <2>2. \A u \in Upstreams : byUpstream'[u] = EntryOf(WithUpstream(u)', failed')
    BY <1>12, <1>17, <1>18, <2>1
  <2>. QED
    BY <1>18, <2>2
<1>22. TablesInv'
  BY <1>19, <1>20, <1>21 DEF TablesInv, failed
<1>. QED
  BY <1>8, <1>9, <1>22 DEF AccessInv

-----------------------------------------------------------------------------
\* The n-th numbers of a finite set: all of them, in order.
Smaller(K, k) == {j \in K : j < k}
NthOf(K, n) == CHOOSE k \in K : Cardinality(Smaller(K, k)) = n - 1

LEMMA NthOnes ==
  ASSUME NEW K \in SUBSET Nat, IsFiniteSet(K)
  PROVE  /\ Cardinality(K) \in Nat
         /\ \A n \in 1 .. Cardinality(K) : NthOf(K, n) \in K
         /\ \A m, n \in 1 .. Cardinality(K) : m < n => NthOf(K, m) < NthOf(K, n)
         /\ \A k \in K : \E n \in 1 .. Cardinality(K) : NthOf(K, n) = k
<1>. DEFINE c == Cardinality(K)
            place == [k \in K |-> Cardinality(Smaller(K, k)) + 1]
<1>0. \A k \in K : k \in Nat
  OBVIOUS
<1>1. c \in Nat /\ IsFiniteSet(1 .. c) /\ Cardinality(1 .. c) = c
  <2>1. c \in Nat
    BY FS_CardinalityType
  <2>2. IsFiniteSet(1 .. c) /\ Cardinality(1 .. c) = c
    BY <2>1, FS_Interval
  <2>. QED
    BY <2>1, <2>2
<1>2. ASSUME NEW k \in K
      PROVE  /\ IsFiniteSet(Smaller(K, k)) /\ Cardinality(Smaller(K, k)) \in Nat
             /\ Cardinality(Smaller(K, k)) < c
  <2>1. Smaller(K, k) \in SUBSET K /\ Smaller(K, k) # K
    BY <1>0 DEF Smaller
  <2>2. IsFiniteSet(Smaller(K, k)) /\ Cardinality(Smaller(K, k)) <= c /\ Cardinality(Smaller(K, k)) # c
    BY <2>1, FS_Subset
  <2>3. Cardinality(Smaller(K, k)) \in Nat
    BY <2>2, FS_CardinalityType
  <2>. QED
    BY <1>1, <2>2, <2>3
<1>3. ASSUME NEW j \in K, NEW k \in K, j < k
      PROVE  Cardinality(Smaller(K, j)) < Cardinality(Smaller(K, k))
  <2>1. \A i \in K : i < j => i < k
    BY <1>0, <1>3
  <2>2. j \in Smaller(K, k) /\ j \notin Smaller(K, j)
    BY <1>0, <1>3 DEF Smaller
  <2>3. Smaller(K, j) \in SUBSET Smaller(K, k) /\ Smaller(K, j) # Smaller(K, k)
    BY <2>1, <2>2 DEF Smaller
  <2>4. /\ Cardinality(Smaller(K, j)) <= Cardinality(Smaller(K, k))
        /\ Cardinality(Smaller(K, j)) # Cardinality(Smaller(K, k))
    BY <1>2, <2>3, FS_Subset
  <2>. QED
    BY <1>2, <2>4
<1>4. place \in [K -> 1 .. c]
  BY <1>1, <1>2
<1>5. ASSUME NEW j \in K, NEW k \in K, j # k
      PROVE  place[j] # place[k]
  <2>1. j < k \/ k < j
    BY <1>0, <1>5
  <2>2. Cardinality(Smaller(K, j)) # Cardinality(Smaller(K, k))
    BY <1>2, <1>3, <2>1
  <2>. QED
    BY <1>2, <2>2
<1>6. place \in Surjection(K, 1 .. c)
  <2>1. place \in Injection(K, 1 .. c)
    BY <1>4, <1>5 DEF Injection, IsInjective
  <2>. QED
    BY <1>1, <2>1, FS_Injection
<1>7. ASSUME NEW n \in 1 .. c
      PROVE  NthOf(K, n) \in K /\ Cardinality(Smaller(K, NthOf(K, n))) = n - 1
  <2>1. PICK k \in K : place[k] = n
    BY <1>6 DEF Surjection
  <2>2. Cardinality(Smaller(K, k)) + 1 = n
    BY <2>1
  <2>3. Cardinality(Smaller(K, k)) = n - 1
    BY <1>2, <2>2
  <2>. QED
    BY <2>3 DEF NthOf
<1>8. ASSUME NEW m \in 1 .. c, NEW n \in 1 .. c, m < n
      PROVE  NthOf(K, m) < NthOf(K, n)
  <2>1. /\ NthOf(K, m) \in K /\ Cardinality(Smaller(K, NthOf(K, m))) = m - 1
        /\ NthOf(K, n) \in K /\ Cardinality(Smaller(K, NthOf(K, n))) = n - 1
    BY <1>7
  <2>2. NthOf(K, n) < NthOf(K, m) => n - 1 < m - 1
    BY <1>3, <2>1
  <2>3. NthOf(K, n) = NthOf(K, m) => n - 1 = m - 1
    BY <2>1
  <2>4. NthOf(K, m) \in Nat /\ NthOf(K, n) \in Nat
    BY <1>0, <2>1
  <2>5. m \in Nat /\ n \in Nat
    BY <1>1
  <2>. QED
    BY <1>8, <2>2, <2>3, <2>4, <2>5
<1>9. ASSUME NEW k \in K
      PROVE  \E n \in 1 .. c : NthOf(K, n) = k
  <2>1. PICK n \in 1 .. c : n = place[k]
    BY <1>4
  <2>2. n - 1 = Cardinality(Smaller(K, k))
    BY <1>2, <2>1
  <2>3. NthOf(K, n) \in K /\ Cardinality(Smaller(K, NthOf(K, n))) = Cardinality(Smaller(K, k))
    BY <1>7, <2>2
  <2>4. NthOf(K, n) = k
    BY <1>5, <2>3
  <2>. QED
    BY <2>4
<1>. QED
  BY <1>1, <1>7, <1>8, <1>9

-----------------------------------------------------------------------------
\* The text is a part of the file, from a byte on that is the first or follows a
\* newline, or it has no newline; bytes that are gone are blank.
TextFrom(o) ==
  /\ o \in Nat /\ Begin <= o /\ o <= size
  /\ Text \in Seq(Range(file) \cup {Blank}) /\ Len(Text) = size - o
  /\ \A j \in 1 .. size - o : Text[j] = IF o + j <= Len(file) THEN file[o + j] ELSE Blank
  /\ Begin = 0 => o = 0
  /\ \/ Begin = 0
     \/ o = Begin /\ \A j \in 1 .. size - o : ~Newline(Text[j])
     \/ /\ o > Begin
        /\ \A x \in Begin + 1 .. size : x <= Len(file) /\ Newline(file[x]) => x >= o

LEMMA TextIs ==
  ASSUME FileInv
  PROVE  \E o : TextFrom(o)
<1>. DEFINE S == Range(file) \cup {Blank}
            b == Begin
            m == size - b
            at0(x) == IF x <= Len(file) THEN file[x] ELSE Blank
            ends == {i \in DOMAIN Buffer : Newline(Buffer[i])}
<1>1. size \in Nat /\ b \in Nat /\ b <= size /\ m \in Nat
  BY AccessAssumption DEF FileInv, Begin
<1>2. file \in Seq(S) /\ Len(file) \in Nat
  <2>1. file \in Seq((1 .. Len(written)) \X (1 .. LENGTH))
    BY DEF FileInv, Whole
  <2>2. Len(file) \in Nat /\ DOMAIN file = 1 .. Len(file)
    BY <2>1
  <2>3. \A i \in 1 .. Len(file) : file[i] \in S
    BY <2>2 DEF Range
  <2>. HIDE DEF S
  <2>4. file = [i \in 1 .. Len(file) |-> file[i]]
    BY <2>1
  <2>5. file \in [1 .. Len(file) -> S]
    BY <2>3, <2>4
  <2>. QED
    BY <2>2, <2>5
<1>3. \A x \in Nat \ {0} : at0(x) \in S
  <2>. TAKE x \in Nat \ {0}
  <2>1. CASE x <= Len(file)
    <3>1. x \in 1 .. Len(file) /\ DOMAIN file = 1 .. Len(file)
      BY <1>2, <2>1
    <3>. QED
      BY <2>1, <3>1 DEF Range
  <2>2. CASE ~(x <= Len(file))
    BY <2>2
  <2>. QED
    BY <2>1, <2>2
<1>4. Buffer = [i \in 1 .. m |-> at0(b + i)]
  BY DEF Buffer
<1>. HIDE DEF S, b, m
<1>5. \A i \in 1 .. m : b + i \in Nat \ {0}
  BY <1>1
<1>6. \A i \in 1 .. m : at0(b + i) \in S
  BY <1>3, <1>5
<1>. HIDE DEF at0
<1>7. Buffer \in [1 .. m -> S] /\ DOMAIN Buffer = 1 .. m /\ \A i \in 1 .. m : Buffer[i] = at0(b + i)
  BY <1>4, <1>6
<1>8. Buffer \in Seq(S) /\ Len(Buffer) = m
  BY <1>1, <1>7
<1>9. CASE b = 0 \/ ends = {}
  <2>1. Text = Buffer
    BY <1>9 DEF Text, b
  <2>2. \A j \in 1 .. size - b : Text[j] = IF b + j <= Len(file) THEN file[b + j] ELSE Blank
    BY <1>7, <2>1 DEF at0, m
  <2>3. Len(Text) = size - b /\ Text \in Seq(S)
    BY <1>8, <2>1 DEF m
  <2>4. b # 0 => \A j \in 1 .. size - b : ~Newline(Text[j])
    BY <1>7, <1>9, <2>1 DEF m
  <2>5. b <= b
    BY <1>1
  <2>. HIDE DEF ends
  <2>6. TextFrom(b)
    BY <1>1, <2>2, <2>3, <2>4, <2>5 DEF TextFrom, b, S
  <2>. QED
    BY <2>6
<1>10. CASE ~(b = 0 \/ ends = {})
  <2>1. PICK d : d = Min(ends)
    OBVIOUS
  <2>2. Text = SubSeq(Buffer, d + 1, Len(Buffer))
    BY <1>10, <2>1 DEF Text, b
  <2>3. ends \subseteq Nat /\ ends # {} /\ ends \subseteq 1 .. m
    BY <1>7, <1>10
  <2>4. d \in ends /\ \A i \in ends : d <= i
    <3>. HIDE DEF ends
    <3>. QED
      BY <2>1, <2>3, LeastNumber
  <2>5. d \in 1 .. m
    BY <2>3, <2>4
  <2>6. /\ Text \in Seq(S) /\ Len(Text) = m - d
        /\ \A j \in 1 .. m - d : Text[j] = Buffer[d + j]
    <3>1. \A i \in d + 1 .. Len(Buffer) : Buffer[i] \in S
      BY <1>1, <1>7, <1>8, <2>5
    <3>2. /\ SubSeq(Buffer, d + 1, m) \in Seq(S)
          /\ Len(SubSeq(Buffer, d + 1, m)) = IF d + 1 <= m THEN (m - (d + 1)) + 1 ELSE 0
          /\ \A i \in 1 .. (m - (d + 1)) + 1 : SubSeq(Buffer, d + 1, m)[i] = Buffer[((d + 1) + i) - 1]
      BY <1>1, <1>8, <2>5, <3>1, SubSeqProperties
    <3>3. (m - (d + 1)) + 1 = m - d /\ \A i \in 1 .. m - d : ((d + 1) + i) - 1 = d + i
      BY <1>1, <2>5
    <3>4. Len(SubSeq(Buffer, d + 1, m)) = m - d
      BY <1>1, <2>5, <3>2, <3>3
    <3>. QED
      BY <1>8, <2>2, <3>2, <3>3, <3>4
  <2>7. ASSUME NEW j \in 1 .. m - d
        PROVE  Text[j] = at0((b + d) + j)
    <3>1. d + j \in 1 .. m /\ b + (d + j) = (b + d) + j
      BY <1>1, <2>5
    <3>. QED
      BY <1>7, <2>6, <3>1
  <2>8. b + d \in Nat /\ b + d > b /\ b + d <= size /\ size - (b + d) = m - d
    BY <1>1, <2>5 DEF m
  <2>9. ASSUME NEW x \in b + 1 .. size, x <= Len(file), Newline(file[x])
        PROVE  x >= b + d
    <3>1. x - b \in 1 .. m /\ b + (x - b) = x
      BY <1>1 DEF m
    <3>2. Buffer[x - b] = file[x]
      BY <1>7, <2>9, <3>1 DEF at0
    <3>3. x - b \in ends
      BY <1>7, <2>9, <3>1, <3>2
    <3>4. d <= x - b
      BY <2>4, <3>3
    <3>. QED
      BY <1>1, <2>5, <3>1, <3>4
  <2>10. \A j \in 1 .. size - (b + d) : Text[j] = IF (b + d) + j <= Len(file) THEN file[(b + d) + j] ELSE Blank
    BY <2>7, <2>8 DEF at0
  <2>11. TextFrom(b + d)
    <3>1. b # 0 /\ b <= b + d
      BY <1>1, <1>10, <2>8
    <3>. HIDE DEF ends
    <3>. QED
      BY <2>6, <2>8, <2>9, <2>10, <3>1 DEF TextFrom, b, S
  <2>. QED
    BY <2>11
<1>. QED
  BY <1>9, <1>10

-----------------------------------------------------------------------------
\* What a segment is: the bytes up to the next newline.
SegmentTo(p, q) ==
  /\ q \in p .. Len(Text) + 1
  /\ Len(Segment(p)) = q - p /\ DOMAIN Segment(p) = 1 .. q - p
  /\ \A i \in 1 .. q - p : Segment(p)[i] = Text[(p + i) - 1]
  /\ \A i \in p .. q - 1 : ~Newline(Text[i])
  /\ q <= Len(Text) => Newline(Text[q])
  /\ q = p => Segment(p) = <<>>

LEMMA SegmentIs ==
  ASSUME NEW S, Text \in Seq(S), NEW p \in 1 .. Len(Text) + 1
  PROVE  \E q : SegmentTo(p, q)
<1>. DEFINE T == {i \in p .. Len(Text) : Newline(Text[i])} \cup {Len(Text) + 1}
            m == Len(Text)
<1>1. m \in Nat /\ p \in Nat /\ p >= 1 /\ p <= m + 1
  OBVIOUS
<1>2. T \subseteq Nat /\ T # {}
  <2>1. \A i \in p .. m : i \in Nat
    BY <1>1
  <2>. QED
    BY <1>1, <2>1
<1>3. PICK q : q = Min(T)
  OBVIOUS
<1>4. q \in T /\ \A k \in T : q <= k
  <2>. HIDE DEF T
  <2>. QED
    BY <1>2, <1>3, LeastNumber
<1>5. q \in p .. m + 1
  BY <1>1, <1>4
<1>6. ASSUME NEW i \in p .. q - 1
      PROVE  ~Newline(Text[i])
  <2>1. i \in p .. m /\ ~(q <= i)
    BY <1>1, <1>5
  <2>. QED
    BY <1>4, <2>1
<1>7. q <= m => Newline(Text[q])
  BY <1>1, <1>4
<1>8. Segment(p) = SubSeq(Text, p, q - 1)
  BY <1>3 DEF Segment
<1>9. \A i \in p .. q - 1 : Text[i] \in S
  BY <1>1, <1>5
<1>10. /\ Segment(p) \in Seq(S) /\ Len(Segment(p)) = IF p <= q - 1 THEN ((q - 1) - p) + 1 ELSE 0
       /\ \A i \in 1 .. ((q - 1) - p) + 1 : Segment(p)[i] = Text[(p + i) - 1]
  <2>1. q - 1 \in Int /\ p \in Int
    BY <1>1, <1>5
  <2>2. q - 1 \in p - 1 .. m
    BY <1>1, <1>5
  <2>. QED
    BY <1>8, <1>9, <2>1, <2>2, SubSeqProperties
<1>11. ((q - 1) - p) + 1 = q - p /\ (p <= q - 1 \/ q - p = 0)
  BY <1>1, <1>5
<1>12. Len(Segment(p)) = q - p
  BY <1>10, <1>11
<1>13. DOMAIN Segment(p) = 1 .. q - p
  BY <1>10, <1>12
<1>14. q = p => Segment(p) = <<>>
  BY <1>1, <1>10, <1>12
<1>15. SegmentTo(p, q)
  BY <1>5, <1>6, <1>7, <1>10, <1>11, <1>12, <1>13, <1>14 DEF SegmentTo
<1>. QED
  BY <1>15

LEMMA ParsedTo ==
  ASSUME NEW s, ParseAccessLine(s) # 0
  PROVE  s # <<>> /\ s[1] # Blank /\ s[1][2] = 1 /\ ParseAccessLine(s) = s[1][1]
BY DEF ParseAccessLine

LEMMA ParsedWhole ==
  ASSUME NEW l \in Nat \ {0}, NEW s, s # <<>>, Len(s) = LENGTH - 1, DOMAIN s = 1 .. LENGTH - 1,
         \A k \in 1 .. LENGTH - 1 : s[k] = <<l, k>>
  PROVE  ParseAccessLine(s) = l
<1>1. 1 \in 1 .. LENGTH - 1
  BY AccessAssumption
<1>2. s[1] = <<l, 1>> /\ s[1] # Blank
  BY <1>1 DEF Blank
<1>. QED
  BY <1>2 DEF ParseAccessLine

LEMMA BeginsAre ==
  ASSUME NEW S, Text \in Seq(S)
  PROVE  Begins \subseteq 1 .. Len(Text) + 1 /\ IsFiniteSet(Begins) /\ IsFiniteSet(Parsed) /\ Parsed \in SUBSET Nat
<1>1. Len(Text) \in Nat /\ DOMAIN Text = 1 .. Len(Text)
  OBVIOUS
<1>2. \A j \in 1 .. Len(Text) : j + 1 \in 1 .. Len(Text) + 1
  BY <1>1
<1>3. 1 \in 1 .. Len(Text) + 1 /\ Len(Text) + 1 \in Nat
  BY <1>1
<1>4. Begins \in SUBSET (1 .. Len(Text) + 1)
  BY <1>1, <1>2, <1>3 DEF Begins
<1>5. IsFiniteSet(1 .. Len(Text) + 1)
  BY <1>3, FS_Interval
<1>6. IsFiniteSet(Begins)
  BY <1>4, <1>5, FS_Subset
<1>7. Parsed \in SUBSET Begins
  BY DEF Parsed
<1>8. IsFiniteSet(Parsed)
  BY <1>6, <1>7, FS_Subset
<1>9. \A j \in 1 .. Len(Text) + 1 : j \in Nat
  OBVIOUS
<1>. QED
  BY <1>4, <1>6, <1>7, <1>8, <1>9

\* A segment with a record begins with a line of the file.
LEMMA RecordIs ==
  ASSUME FileInv, NEW o, TextFrom(o), NEW p \in Parsed
  PROVE  /\ p \in 1 .. size - o /\ o + p \in 1 .. Len(file)
         /\ Text[p] = file[o + p] /\ file[o + p][2] = 1
         /\ ParseAccessLine(Segment(p)) = file[o + p][1]
         /\ ParseAccessLine(Segment(p)) \in 1 .. Len(written) /\ Wanted(ParseAccessLine(Segment(p)))
<1>1. /\ o \in Nat /\ size \in Nat /\ o <= size /\ Len(Text) = size - o
      /\ Text \in Seq(Range(file) \cup {Blank})
      /\ \A j \in 1 .. size - o : Text[j] = IF o + j <= Len(file) THEN file[o + j] ELSE Blank
  BY DEF TextFrom, FileInv
<1>2. file \in Seq((1 .. Len(written)) \X (1 .. LENGTH)) /\ Len(file) \in Nat
  BY DEF FileInv, Whole
<1>3. p \in Begins /\ ParseAccessLine(Segment(p)) # 0 /\ Wanted(ParseAccessLine(Segment(p)))
  BY DEF Parsed, Wanted
<1>4. p \in 1 .. Len(Text) + 1
  BY <1>1, <1>3, BeginsAre
<1>5. PICK q : SegmentTo(p, q)
  BY <1>1, <1>4, SegmentIs
<1>6. /\ Segment(p) # <<>> /\ Segment(p)[1] # Blank /\ Segment(p)[1][2] = 1
      /\ ParseAccessLine(Segment(p)) = Segment(p)[1][1]
  BY <1>3, ParsedTo
<1>7. q \in p .. Len(Text) + 1 /\ DOMAIN Segment(p) = 1 .. q - p /\ Len(Segment(p)) = q - p
      /\ \A i \in 1 .. q - p : Segment(p)[i] = Text[(p + i) - 1]
  BY <1>5 DEF SegmentTo
<1>8. q # p
  BY <1>5, <1>6 DEF SegmentTo
<1>9. p \in 1 .. size - o /\ 1 \in 1 .. q - p /\ (p + 1) - 1 = p
  BY <1>1, <1>4, <1>7, <1>8
<1>10. Segment(p)[1] = Text[p]
  BY <1>7, <1>9
<1>11. o + p <= Len(file) /\ Text[p] = file[o + p]
  BY <1>1, <1>6, <1>9, <1>10
<1>12. o + p \in 1 .. Len(file)
  BY <1>1, <1>2, <1>9, <1>11
<1>13. file[o + p][1] \in 1 .. Len(written)
  BY <1>2, <1>12
<1>. QED
  BY <1>3, <1>6, <1>9, <1>10, <1>11, <1>12, <1>13

\* A line of the tail is read, unless the file was truncated.
LEMMA TailRead ==
  ASSUME FileInv, at = "stat", ~cut, NEW o, TextFrom(o), NEW l \in InTail, Wanted(l)
  PROVE  \E p \in Parsed : ParseAccessLine(Segment(p)) = l
<1>1. LENGTH \in Nat /\ LENGTH > 1
  BY AccessAssumption
<1>2. /\ o \in Nat /\ Begin <= o /\ o <= size /\ Len(Text) = size - o
      /\ Text \in Seq(Range(file) \cup {Blank})
      /\ \A j \in 1 .. size - o : Text[j] = IF o + j <= Len(file) THEN file[o + j] ELSE Blank
  BY DEF TextFrom
<1>3. /\ Whole(seen, Len(written)) /\ size = Len(seen) /\ Len(seen) <= Len(file)
      /\ \A x \in 1 .. Len(seen) : file[x] = seen[x]
  BY DEF FileInv
<1>4. /\ seen \in Seq((1 .. Len(written)) \X (1 .. LENGTH)) /\ Len(file) \in Nat
      /\ written \in Seq(Kinds)
  BY <1>3 DEF FileInv, Whole
<1>5. Len(written) \in Nat /\ size \in Nat /\ Begin \in Nat
  BY <1>3, <1>4, AccessAssumption DEF Begin
<1>6. \A j \in 1 .. size - o : Text[j] = seen[o + j]
  <2>. TAKE j \in 1 .. size - o
  <2>1. o + j \in 1 .. Len(seen) /\ o + j <= Len(file)
    BY <1>2, <1>3, <1>4, <1>5
  <2>. QED
    BY <1>2, <1>3, <2>1
<1>7. PICK x \in DOMAIN seen : seen[x][2] = 1 /\ (Begin > 0 => x > Begin + 1) /\ l = seen[x][1]
  BY DEF InTail
<1>8. x \in 1 .. size /\ l \in 1 .. Len(written)
  BY <1>3, <1>4, <1>7
<1>9. /\ (x + LENGTH) - 1 <= size
      /\ \A p \in 1 .. LENGTH : seen[(x + p) - 1] = <<l, p>>
      /\ x # 1 => seen[x - 1][2] = LENGTH
  BY <1>3, <1>7, <1>8 DEF Whole
<1>. DEFINE p == x - o
<1>10. p \in 1 .. size - o
  <2>1. CASE Begin = 0
    <3>1. o = 0
      BY <2>1 DEF TextFrom
    <3>. QED
      BY <1>5, <1>8, <3>1
  <2>2. CASE Begin > 0
    <3>1. x > Begin + 1 /\ x # 1 /\ x - 1 \in 1 .. Len(seen) /\ x - 1 \in Begin + 1 .. size
      BY <1>3, <1>5, <1>7, <1>8, <2>2
    <3>2. Newline(seen[x - 1]) /\ file[x - 1] = seen[x - 1] /\ x - 1 <= Len(file)
      BY <1>3, <1>4, <1>9, <3>1 DEF Newline
    <3>3. CASE o > Begin /\ \A y \in Begin + 1 .. size : y <= Len(file) /\ Newline(file[y]) => y >= o
      <4>1. x - 1 >= o
        BY <3>1, <3>2, <3>3
      <4>. QED
        BY <1>2, <1>5, <1>8, <4>1
    <3>4. CASE o = Begin /\ \A j \in 1 .. size - o : ~Newline(Text[j])
      <4>1. (x - 1) - o \in 1 .. size - o /\ o + ((x - 1) - o) = x - 1
        BY <1>2, <1>5, <1>8, <3>1, <3>4
      <4>2. Text[(x - 1) - o] = seen[x - 1]
        BY <1>6, <4>1
      <4>. QED
        BY <3>2, <3>4, <4>1, <4>2
    <3>. QED
      BY <2>2, <3>3, <3>4 DEF TextFrom
  <2>. QED
    BY <1>5, <2>1, <2>2
<1>11. p \in Nat /\ x = o + p /\ p \in 1 .. Len(Text) + 1
  BY <1>2, <1>5, <1>8, <1>10
<1>12. p \in Begins
  <2>1. CASE p = 1
    BY <2>1 DEF Begins
  <2>2. CASE p # 1
    <3>1. p - 1 \in 1 .. size - o /\ o + (p - 1) = x - 1 /\ x # 1 /\ (p - 1) + 1 = p
      <4>1. o \in Nat /\ size \in Nat /\ x \in Nat /\ p \in 1 .. size - o
        BY <1>2, <1>5, <1>8, <1>10
      <4>. QED
        BY <2>2, <4>1
    <3>2. Newline(Text[p - 1])
      BY <1>6, <1>9, <3>1 DEF Newline
    <3>3. p - 1 \in DOMAIN Text
      BY <1>2, <3>1
    <3>. QED
      BY <3>1, <3>2, <3>3 DEF Begins
  <2>. QED
    BY <2>1, <2>2
<1>13. PICK q : SegmentTo(p, q)
  BY <1>2, <1>11, SegmentIs
<1>. HIDE DEF p
<1>14. /\ q \in p .. Len(Text) + 1 /\ Len(Segment(p)) = q - p /\ DOMAIN Segment(p) = 1 .. q - p
       /\ \A i \in 1 .. q - p : Segment(p)[i] = Text[(p + i) - 1]
       /\ \A i \in p .. q - 1 : ~Newline(Text[i])
       /\ q <= Len(Text) => Newline(Text[q])
  BY <1>13 DEF SegmentTo
<1>15. ASSUME NEW i \in 1 .. LENGTH
       PROVE  (p + i) - 1 \in 1 .. size - o /\ Text[(p + i) - 1] = <<l, i>>
  <2>1. (p + i) - 1 \in 1 .. size - o /\ o + ((p + i) - 1) = (x + i) - 1
    BY <1>1, <1>2, <1>5, <1>8, <1>9, <1>10, <1>11
  <2>. QED
    BY <1>6, <1>9, <2>1
<1>16. q = (p + LENGTH) - 1
  <2>1. q \in Nat /\ p \in Nat
    BY <1>2, <1>5, <1>11, <1>14
  <2>2. ~(q > (p + LENGTH) - 1)
    <3>. SUFFICES ASSUME q > (p + LENGTH) - 1
                  PROVE  FALSE
      OBVIOUS
    <3>1. LENGTH \in 1 .. LENGTH /\ (p + LENGTH) - 1 \in p .. q - 1
      BY <1>1, <2>1
    <3>2. Text[(p + LENGTH) - 1] = <<l, LENGTH>>
      BY <1>15, <3>1
    <3>. QED
      BY <1>14, <3>1, <3>2 DEF Newline
  <2>3. ~(q < (p + LENGTH) - 1)
    <3>. SUFFICES ASSUME q < (p + LENGTH) - 1
                  PROVE  FALSE
      OBVIOUS
    <3>0. q >= p
      BY <1>2, <1>5, <1>14, <2>1
    <3>1. (q - p) + 1 \in 1 .. LENGTH /\ (q - p) + 1 # LENGTH /\ (p + ((q - p) + 1)) - 1 = q
      BY <1>1, <2>1, <3>0
    <3>2. q \in 1 .. size - o /\ Text[q] = <<l, (q - p) + 1>>
      BY <1>15, <3>1
    <3>3. q <= Len(Text)
      BY <1>2, <1>5, <3>2
    <3>. QED
      BY <1>14, <3>1, <3>2, <3>3 DEF Newline
  <2>. QED
    BY <1>1, <2>1, <2>2, <2>3
<1>17. q - p = LENGTH - 1 /\ \A k \in 1 .. LENGTH - 1 : k \in 1 .. LENGTH
  BY <1>1, <1>11, <1>16
<1>18. \A k \in 1 .. LENGTH - 1 : Segment(p)[k] = <<l, k>>
  BY <1>14, <1>15, <1>17
<1>19. Segment(p) # <<>>
  <2>1. 1 \in DOMAIN Segment(p)
    BY <1>1, <1>14, <1>17
  <2>. QED
    BY <2>1
<1>20. l \in Nat \ {0}
  BY <1>5, <1>8
<1>21. ParseAccessLine(Segment(p)) = l
  BY <1>14, <1>17, <1>18, <1>19, <1>20, ParsedWhole
<1>22. p \in Parsed
  BY <1>12, <1>20, <1>21 DEF Parsed, Wanted
<1>. QED
  BY <1>21, <1>22

LEMMA ReadIsTail ==
  ASSUME FileInv, at = "stat", ~cut, NEW o, TextFrom(o), NEW p \in Parsed
  PROVE  ParseAccessLine(Segment(p)) \in InTail
<1>1. LENGTH \in Nat /\ LENGTH > 1
  BY AccessAssumption
<1>2. /\ p \in 1 .. size - o /\ Text[p] = file[o + p] /\ file[o + p][2] = 1
      /\ ParseAccessLine(Segment(p)) = file[o + p][1]
  BY RecordIs
<1>3. /\ o \in Nat /\ Begin <= o /\ o <= size /\ Len(Text) = size - o
      /\ \A j \in 1 .. size - o : Text[j] = IF o + j <= Len(file) THEN file[o + j] ELSE Blank
  BY DEF TextFrom
<1>4. /\ Whole(seen, Len(written)) /\ size = Len(seen) /\ Len(seen) <= Len(file)
      /\ \A x \in 1 .. Len(seen) : file[x] = seen[x]
  BY DEF FileInv
<1>5. seen \in Seq((1 .. Len(written)) \X (1 .. LENGTH)) /\ Len(file) \in Nat
  BY <1>4 DEF FileInv, Whole
<1>6. size \in Nat /\ Begin \in Nat
  BY <1>4, <1>5, AccessAssumption DEF Begin
<1>. DEFINE x == o + p
<1>7. x \in 1 .. Len(seen)
  BY <1>2, <1>3, <1>4, <1>6
<1>8. seen[x] = file[x] /\ seen[x][2] = 1 /\ x \in DOMAIN seen
  BY <1>2, <1>4, <1>5, <1>7
<1>9. ASSUME Begin > 0
      PROVE  x > Begin + 1
  <2>1. CASE o > Begin
    BY <1>2, <1>3, <1>6, <2>1
  <2>2. CASE o = Begin /\ \A j \in 1 .. size - o : ~Newline(Text[j])
    <3>1. (x + LENGTH) - 1 <= size /\ seen[(x + LENGTH) - 1] = <<seen[x][1], LENGTH>>
      <4>1. LENGTH \in 1 .. LENGTH
        BY <1>1
      <4>. HIDE DEF x
      <4>. QED
        BY <1>4, <1>7, <1>8, <4>1 DEF Whole
    <3>2. (p + LENGTH) - 1 \in 1 .. size - o /\ o + ((p + LENGTH) - 1) = (x + LENGTH) - 1
      BY <1>1, <1>2, <1>3, <1>6, <3>1
    <3>3. (x + LENGTH) - 1 \in 1 .. Len(seen) /\ (x + LENGTH) - 1 <= Len(file)
      BY <1>1, <1>4, <1>5, <1>7, <3>1
    <3>4. Text[(p + LENGTH) - 1] = seen[(x + LENGTH) - 1]
      BY <1>3, <1>4, <3>2, <3>3
    <3>5. Newline(Text[(p + LENGTH) - 1])
      BY <3>1, <3>4 DEF Newline
    <3>. QED
      BY <2>2, <3>2, <3>5
  <2>. QED
    BY <1>9, <2>1, <2>2 DEF TextFrom
<1>10. seen[x][1] \in InTail
  BY <1>8, <1>9 DEF InTail
<1>. QED
  BY <1>2, <1>8, <1>10

LEMMA ReadStep ==
  ASSUME AccessInv, ReadTail
  PROVE  AccessInv'
<1>. DEFINE c == Cardinality(Parsed)
            line(p) == ParseAccessLine(Segment(p))
<1>1. /\ at = "stat" /\ at' = "tally" /\ records' = [n \in 1 .. c |-> line(Nth(n))]
      /\ UNCHANGED <<written, file, since, lax, size, counted, byStatus, byPath, byUpstream, seen, cut>>
  BY DEF ReadTail
<1>2. FileInv /\ LinesInv /\ TablesInv /\ counted = <<>>
  BY <1>1 DEF AccessInv, LinesInv
<1>3. PICK o : TextFrom(o)
  BY <1>2, TextIs
<1>4. Whole(file, Len(written)) /\ Len(written) \in Nat
  BY <1>2 DEF FileInv
<1>5. \A p \in Parsed : /\ p \in 1 .. size - o /\ o + p \in 1 .. Len(file) /\ file[o + p][2] = 1
                        /\ line(p) = file[o + p][1] /\ line(p) \in 1 .. Len(written) /\ Wanted(line(p))
  BY <1>2, <1>3, RecordIs
<1>6. IsFiniteSet(Parsed) /\ Parsed \in SUBSET Nat /\ o \in Nat
  BY <1>3, BeginsAre DEF TextFrom
<1>7. \A n : Nth(n) = NthOf(Parsed, n)
  BY DEF Nth, NthOf, Smaller
<1>8. /\ c \in Nat
      /\ \A n \in 1 .. c : Nth(n) \in Parsed
      /\ \A m, n \in 1 .. c : m < n => Nth(m) < Nth(n)
      /\ \A p \in Parsed : \E n \in 1 .. c : Nth(n) = p
  <2>1. /\ Cardinality(Parsed) \in Nat
        /\ \A n \in 1 .. Cardinality(Parsed) : NthOf(Parsed, n) \in Parsed
        /\ \A m, n \in 1 .. Cardinality(Parsed) : m < n => NthOf(Parsed, m) < NthOf(Parsed, n)
        /\ \A k \in Parsed : \E n \in 1 .. Cardinality(Parsed) : NthOf(Parsed, n) = k
    BY <1>6, NthOnes
  <2>. QED
    BY <1>7, <2>1
<1>. HIDE DEF c, line
<1>9. records' \in Seq(1 .. Len(written)) /\ Len(records') = c /\ DOMAIN records' = 1 .. c
  <2>1. \A n \in 1 .. c : line(Nth(n)) \in 1 .. Len(written)
    BY <1>5, <1>8
  <2>2. records' \in [1 .. c -> 1 .. Len(written)]
    BY <1>1, <2>1
  <2>. QED
    BY <1>1, <1>8, <2>2
<1>10. \A n \in 1 .. c : records'[n] = line(Nth(n))
  BY <1>1
<1>11. ASSUME NEW i \in 1 .. c, NEW j \in 1 .. c, i < j
       PROVE  records'[i] < records'[j]
  <2>1. PICK p, r : p = Nth(i) /\ r = Nth(j)
    OBVIOUS
  <2>2. p \in Parsed /\ r \in Parsed /\ p < r
    BY <1>8, <1>11, <2>1
  <2>3. p \in Nat /\ r \in Nat
    BY <1>6, <2>2
  <2>4. o + p < o + r
    BY <1>6, <2>2, <2>3
  <2>5. /\ o + p \in 1 .. Len(file) /\ file[o + p][2] = 1 /\ line(p) = file[o + p][1]
        /\ o + r \in 1 .. Len(file) /\ file[o + r][2] = 1 /\ line(r) = file[o + r][1]
    BY <1>5, <2>2
  <2>6. file[o + p][1] < file[o + r][1]
    BY <1>4, <2>4, <2>5 DEF Whole
  <2>. QED
    BY <1>10, <2>1, <2>5, <2>6
<1>12. Range(records') = {line(p) : p \in Parsed}
  <2>1. \A y \in Range(records') : \E p \in Parsed : y = line(p)
    BY <1>8, <1>9, <1>10 DEF Range
  <2>2. ASSUME NEW p \in Parsed
        PROVE  line(p) \in Range(records')
    <3>1. PICK n \in 1 .. c : Nth(n) = p
      BY <1>8
    <3>2. records'[n] = line(p)
      BY <1>10, <3>1
    <3>. QED
      BY <1>9, <3>2 DEF Range
  <2>. QED
    BY <2>1, <2>2
<1>13. FileInv'
  BY <1>1, <1>2 DEF FileInv
<1>14. ASSUME ~cut
       PROVE  Range(counted') \cup Range(records') = {l \in InTail : Wanted(l)}'
  <2>1. Range(counted') = {}
    BY <1>1, <1>2 DEF Range
  <2>2. InTail' = InTail /\ \A x : Wanted(x)' <=> Wanted(x)
    BY <1>1 DEF InTail, Begin, Wanted
  <2>3. \A p \in Parsed : line(p) \in InTail
    BY <1>1, <1>2, <1>3, <1>14, ReadIsTail DEF line
  <2>4. \A l \in InTail : Wanted(l) => \E p \in Parsed : line(p) = l
    BY <1>1, <1>2, <1>3, <1>14, TailRead DEF line
  <2>5. \A y \in Range(records') : y \in InTail /\ Wanted(y)
    BY <1>5, <1>12, <2>3
  <2>6. \A y \in InTail : Wanted(y) => y \in Range(records')
    BY <1>12, <2>4
  <2>. QED
    BY <2>1, <2>2, <2>5, <2>6
<1>15. LinesInv'
  <2>1. counted' = <<>> /\ counted' \in Seq(1 .. Len(written)) /\ \A i \in 1 .. Len(counted') : FALSE
    BY <1>1, <1>2
  <2>2. Rising(records')
    BY <1>9, <1>11 DEF Rising
  <2>3. Rising(counted')
    BY <2>1 DEF Rising
  <2>. QED
    BY <1>1, <1>9, <1>14, <2>1, <2>2, <2>3 DEF LinesInv
<1>16. TablesInv'
  BY <1>1, <1>2, TablesStay
<1>. QED
  BY <1>13, <1>15, <1>16 DEF AccessInv

LEMMA AccessStep == AccessInv /\ [AccessNext]_logFileVars => AccessInv'
<1>. SUFFICES ASSUME AccessInv, [AccessNext]_logFileVars
              PROVE  AccessInv'
  OBVIOUS
<1>1. CASE \E k \in Kinds : AppendLine(k)
  BY <1>1, AppendStep
<1>2. CASE Truncate
  BY <1>2, TruncateStep
<1>3. CASE StatLog
  BY <1>3, StatStep
<1>4. CASE ReadTail
  BY <1>4, ReadStep
<1>5. CASE Tally
  BY <1>5, TallyStep
<1>6. CASE AccessTold
  BY <1>6, ToldStep
<1>7. CASE \E fails \in BOOLEAN : OpenLog(fails)
  BY <1>7, OpenStep
<1>8. CASE UNCHANGED logFileVars
  <2>1. FileInv'
    BY <1>8 DEF AccessInv, FileInv, logFileVars
  <2>2. LinesInv'
    BY <1>8, LinesStay DEF AccessInv, LinesInv, FileInv, logFileVars
  <2>3. TablesInv'
    BY <1>8, TablesStay DEF AccessInv, logFileVars
  <2>. QED
    BY <2>1, <2>2, <2>3 DEF AccessInv
<1>. QED
  BY <1>1, <1>2, <1>3, <1>4, <1>5, <1>6, <1>7, <1>8 DEF AccessNext

LEMMA AccessBorneOut == AccessInv => AccessExact
<1>. SUFFICES ASSUME AccessInv, at = "told"
              PROVE  /\ \A i \in 1 .. Len(counted) - 1 : counted[i] < counted[i + 1]
                     /\ ~cut => Range(counted) = {l \in InTail : since => written[l].recent}
                     /\ Tables
  BY DEF AccessExact
<1>1. \A i \in 1 .. Len(counted) - 1 : counted[i] < counted[i + 1]
  <2>. TAKE i \in 1 .. Len(counted) - 1
  <2>1. Len(counted) \in Nat
    BY DEF AccessInv, LinesInv
  <2>2. i \in 1 .. Len(counted) /\ i + 1 \in 1 .. Len(counted) /\ i < i + 1
    BY <2>1
  <2>. QED
    BY <2>2 DEF AccessInv, LinesInv, Rising
<1>2. ASSUME ~cut
      PROVE  Range(counted) = {l \in InTail : since => written[l].recent}
  <2>1. Range(counted) \cup Range(records) = {l \in InTail : Wanted(l)} /\ records = <<>>
    BY <1>2 DEF AccessInv, LinesInv
  <2>2. Range(records) = {}
    BY <2>1 DEF Range
  <2>. QED
    BY <2>1, <2>2 DEF Wanted
<1>3. Tables
  <2>1. \A W : Entry(W) = EntryOf(W, WithStatus("5xx"))
    BY DEF Entry, EntryOf
  <2>. QED
    BY <2>1 DEF AccessInv, TablesInv, Tables
<1>. QED
  BY <1>1, <1>2, <1>3

\* The summary of the access log counts every line of the tail, in order and once,
\* whatever the proxy appends and a rotation truncates meanwhile.
THEOREM AccessesAreExact == ProbeSpec => []AccessExact
<1>1. ProbeInit => AccessInv
  BY AccessStart DEF ProbeInit
<1>2. AccessInv /\ [ProbeNext]_probeVars => AccessInv'
  <2>. SUFFICES ASSUME AccessInv, [ProbeNext]_probeVars
                PROVE  AccessInv'
    OBVIOUS
  <2>1. CASE Handles
    BY <2>1, AccessStep DEF Handles
  <2>2. CASE Reads
    BY <2>2, AccessStep DEF Reads
  <2>3. CASE UNCHANGED probeVars
    BY <2>3, AccessStep DEF probeVars
  <2>. QED
    BY <2>1, <2>2, <2>3 DEF ProbeNext
<1>3. AccessInv => AccessExact
  BY AccessBorneOut
<1>. QED
  BY <1>1, <1>2, <1>3, PTL DEF ProbeSpec
=============================================================================
