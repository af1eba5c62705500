------------------------------- MODULE Config -------------------------------
(***************************************************************************)
(* The start of either program (src/config.ts): loadConfig() turns the     *)
(* environment into a configuration or refuses to start.  A raw value is   *)
(* known by how it parses; urls, names and defaults are left out.          *)
(***************************************************************************)
EXTENDS Integers, FiniteSets

CONSTANTS Spaces     \* namespaces

Booleans == {"unset", "true", "false", "junk"}     \* "unset": or blank
Numbers  == {"positive", "junk"}                   \* "positive": unset, or begins with a number above zero
Secrets  == [file : {"unset", "unusable", "holds"}, var : {"unset", "set"}]
Missing  == "missing"
Bad      == "bad"                                  \* ConfigError

ProbeEnvs == [mode : {"probe"}, open : Booleans, token : Secrets, active : {"unset", "true"},
              rum : {"unset", "true"}, numbers : Numbers, upstream : BOOLEAN]

NoSecret == [file |-> "unset", var |-> "unset"]

HubAuth   == [transport : {"stdio", "http", "junk"}, open : Booleans, token : Secrets]
HubSpaces == [allow : SUBSET Spaces, default : Spaces \cup {Missing}]
Datadog   == [api : Secrets, app : Secrets]
Splunk    == [url : BOOLEAN, token : Secrets, scheme : {"unset", "bearer", "splunk", "junk"}]

Plain == [mode |-> "hub", auth |-> [transport |-> "stdio", open |-> "unset", token |-> NoSecret],
          spaces |-> [allow |-> {}, default |-> Missing],
          datadog |-> [api |-> NoSecret, app |-> NoSecret],
          splunk |-> [url |-> FALSE, token |-> NoSecret, scheme |-> "unset"]]

\* The groups of a hub's variables do not look at each other: they vary one at a time.
HubEnvs == {[Plain EXCEPT !.auth = a] : a \in HubAuth} \cup {[Plain EXCEPT !.spaces = s] : s \in HubSpaces}
           \cup {[Plain EXCEPT !.datadog = d] : d \in Datadog} \cup {[Plain EXCEPT !.splunk = s] : s \in Splunk}

VARIABLES
  env,
  config      \* Missing before the start, Bad, or what loadConfig returned

ConfigIdle == env = Plain /\ config = [mode |-> Missing]
ConfigInit == env \in ProbeEnvs \cup HubEnvs /\ config = [mode |-> Missing]

-----------------------------------------------------------------------------
\* A boolean, FALSE unless it says otherwise; junk is refused before.
ParseBool(raw) == raw = "true"

\* Slip: a file that cannot be used gives way to the variable.
SecretEither(s) == IF s.file = "holds" THEN "file" ELSE IF s.var = "set" THEN "var" ELSE Missing

\* VAR_FILE goes before VAR; when it is named it must hold something.
Secret(s) ==
  IF s.file = "holds" THEN "file"
  ELSE IF s.file = "unusable" THEN Bad
  ELSE IF s.var = "set" THEN "var" ELSE Missing

LoadProbe ==
  LET token == Secret(env.token)
      open  == ParseBool(env.open)
  IN  IF \/ "junk" \in {env.open, env.numbers}
         \/ token = Bad
         \/ (token = Missing /\ ~open)
      THEN [mode |-> Bad]
      ELSE [mode |-> "probe", token |-> token, open |-> open, active |-> ParseBool(env.active),
            rum |-> ParseBool(env.rum), upstream |-> env.upstream]

\* Two settings that go together: both or none, and neither broken.
Pair(a, b) == a # Bad /\ b # Bad /\ ((a = Missing) = (b = Missing))

\* The providers that are configured; Bad when one is by halves.
ParseProviders ==
  LET api   == Secret(env.datadog.api)
      app   == Secret(env.datadog.app)
      url   == IF env.splunk.url THEN "var" ELSE Missing
      token == Secret(env.splunk.token)
  IN  IF Pair(api, app) /\ Pair(url, token) /\ (url # Missing => env.splunk.scheme # "junk")
      THEN {p \in {"datadog", "splunk"} : (p = "datadog" /\ api # Missing) \/ (p = "splunk" /\ url # Missing)}
      ELSE {Bad}

LoadHub ==
  LET token == Secret(env.auth.token)
      open  == ParseBool(env.auth.open)
      allow == env.spaces.allow
      default == IF env.spaces.default = Missing /\ Cardinality(allow) = 1
                 THEN CHOOSE n \in allow : TRUE ELSE env.spaces.default
  IN  IF \/ "junk" \in {env.auth.transport, env.auth.open}
         \/ token = Bad
         \/ (env.auth.transport = "http" /\ token = Missing /\ ~open)
         \/ (default # Missing /\ allow # {} /\ default \notin allow)
         \/ Bad \in ParseProviders
      THEN [mode |-> Bad]
      ELSE [mode |-> "hub", transport |-> env.auth.transport, token |-> token, open |-> open,
            allow |-> allow, default |-> default, providers |-> ParseProviders]

Load ==
  /\ config.mode = Missing
  /\ config' = IF env.mode = "probe" THEN LoadProbe ELSE LoadHub
  /\ UNCHANGED env

-----------------------------------------------------------------------------
Given(s) == s.file = "holds" \/ (s.file = "unset" /\ s.var = "set")

\* What starts is as closed as its environment asked: no server without a secret
\* of its own unless it was told so in words, no secret from elsewhere than the file
\* that was named, no provider by halves, no default namespace outside the
\* allow-list (config.ts 130-264).
ConfigSafe ==
  /\ config.mode = "probe" =>
       /\ (Given(env.token) \/ env.open = "true")
       /\ env.token.file # "unset" => config.token = "file"
  /\ config.mode = "hub" =>
       /\ config.transport = "http" => (Given(env.auth.token) \/ env.auth.open = "true")
       /\ (config.default # Missing /\ config.allow # {}) => config.default \in config.allow
       /\ ("datadog" \in config.providers) = (Given(env.datadog.api) /\ Given(env.datadog.app))
       /\ ("splunk" \in config.providers) = (env.splunk.url /\ Given(env.splunk.token))
       /\ ~(Given(env.datadog.api) /\ "datadog" \notin config.providers)
=============================================================================
