----------------------------- MODULE ProbeServer -----------------------------
(***************************************************************************)
(* A request to the probe (src/probe/server.ts): the gates of handle(),    *)
(* the body of a beacon, and what each path waits for.  Requests share     *)
(* nothing but the RUM aggregator, which ingests in one turn               *)
(* (RumAggregator), so one request is all requests.                        *)
(***************************************************************************)
EXTENDS Config

CONSTANT BODY_LIMIT    \* rumMaxBodyBytes, in chunks

\* parsePositiveInt() takes nothing else.
ASSUME LimitAssumption == BODY_LIMIT \in Nat \ {0}

Endpoints == {"/rum", "/metrics", "/healthz", "/info", "/rum-summary", "/processes", "/dns", "/connect",
          "/nginx-status", "/actuator", "other"}

VARIABLES
  request,   \* [path, method, token]
  stage,     \* "none", "arrived", "body", "gated", "files", "lookup", "connect", "headers",
             \* "upstream", "answered"
  status,    \* of the answer; 0 before, and for one written to a connection that is gone
  chunks     \* of the body so far

probeServerVars == <<env, config, request, stage, status, chunks>>

Requests  == [path : Endpoints, method : {"GET", "POST"}, token : {"right", "wrong"}]
NoRequest == [path |-> "other", method |-> "GET", token |-> "wrong"]

ServerIdle == request = NoRequest /\ stage = "none" /\ status = 0 /\ chunks = 0

-----------------------------------------------------------------------------
Arrives(r) ==
  /\ config.mode = "probe" /\ stage = "none"
  /\ request' = r /\ stage' = "arrived"
  /\ UNCHANGED <<env, config, status, chunks>>

Answer(s) ==
  /\ stage' = "answered" /\ status' = s
  /\ UNCHANGED <<env, config, request, chunks>>

WaitFor(what) ==
  /\ stage' = what
  /\ UNCHANGED <<env, config, request, status, chunks>>

At(where) == stage = where
IsRum == config.rum /\ request.path = "/rum" /\ request.method = "POST"
Open  == request.path = "/healthz" \/ (request.path = "/metrics" /\ request.method = "GET")

\* What needs no token: a beacon, whose body is read, the metrics and the health.
Public ==
  /\ At("arrived")
  /\ IF IsRum THEN WaitFor("body") ELSE (Open /\ Answer(200))

\* A chunk more of the body; above the limit the connection is destroyed, so that
\* the 413 goes nowhere.
Chunk ==
  /\ At("body")
  /\ \/ chunks = BODY_LIMIT /\ Answer(0)
     \/ /\ chunks < BODY_LIMIT
        /\ chunks' = chunks + 1
        /\ UNCHANGED <<env, config, request, stage, status>>

\* The body ends; ingest() takes it, or it is no JSON or no beacon.
BodyEnds == At("body") /\ \E s \in {204, 400} : Answer(s)

\* The client goes away, or Node's request timeout closes the connection.
BodyBreaks == At("body") /\ Answer(0)

Authorized == config.open \/ (config.token # Missing /\ request.token = "right")

\* Slip: /info needs no token, and the method is looked at first.
GateLate ==
  /\ At("arrived") /\ ~IsRum /\ ~Open
  /\ IF request.method # "GET" THEN Answer(405)
     ELSE IF ~Authorized /\ request.path \notin {"/info"} THEN Answer(401) ELSE WaitFor("gated")

Gate ==
  /\ At("arrived") /\ ~IsRum /\ ~Open
  /\ IF ~Authorized THEN Answer(401) ELSE IF request.method # "GET" THEN Answer(405) ELSE WaitFor("gated")

\* Paths answered at once: what the probe holds itself, and what is switched off.
AtOnce ==
  /\ At("gated")
  /\ \/ request.path \in {"/info", "/rum-summary"} /\ Answer(200)
     \/ request.path \in {"/dns", "/connect"} /\ ~config.active /\ Answer(403)
     \/ request.path \in {"/nginx-status", "/actuator"} /\ ~config.upstream /\ Answer(200)
     \/ request.path \in {"/rum", "other"} /\ Answer(404)

\* An argument that a guard refuses, an endpoint of the Actuator that is not listed.
Refused ==
  /\ At("gated")
  /\ \/ request.path \in {"/dns", "/connect"} /\ config.active /\ Answer(400)
     \/ request.path = "/actuator" /\ config.upstream /\ \E s \in {400, 403} : Answer(s)

\* "/processes" stands for all that read files: connections, static files, access log.
Awaits ==
  /\ At("gated")
  /\ \/ request.path = "/processes" /\ WaitFor("files")
     \/ request.path = "/dns" /\ config.active /\ WaitFor("lookup")
     \/ request.path = "/connect" /\ config.active /\ WaitFor("connect")
     \/ request.path \in {"/nginx-status", "/actuator"} /\ config.upstream /\ WaitFor("headers")

\* Files that cannot be read are left out or make a 500.
FilesRead == At("files") /\ \E s \in {200, 500} : Answer(s)

\* The resolver answers or fails: both are results.
LookedUp == At("lookup") /\ Answer(200)

\* The first of connect, error and timeout: all are results.
Connected == At("connect") /\ Answer(200)

\* The upstream's headers are in; fetchWithTimeout's timer is cleared.
HeadersCome == At("headers") /\ WaitFor("upstream")

\* A failure of nginx is a result, one of the Actuator a 500.
UpstreamFails == At("headers") /\ Answer(IF request.path = "/nginx-status" THEN 200 ELSE 500)

\* Slip: an upstream is fetched without a timer.
TimerLocal == Connected

\* The timer of 3 or 8 seconds aborts what has no headers yet.
TimerFires ==
  \/ Connected
  \/ UpstreamFails

\* The body is in, breaks off or is no JSON.
UpstreamEnds == At("upstream") /\ (Answer(200) \/ (request.path = "/actuator" /\ Answer(500)))

ServerStep == Public \/ BodyEnds \/ BodyBreaks \/ Gate \/ AtOnce \/ Refused \/ Awaits
              \/ FilesRead \/ LookedUp \/ TimerFires \/ UpstreamEnds

ProbeServerNext ==
  \/ Load /\ UNCHANGED <<request, stage, status, chunks>>
  \/ \E r \in Requests : Arrives(r)
  \/ ServerStep \/ Chunk \/ HeadersCome

-----------------------------------------------------------------------------
\* What lies behind the token is told, and what lies behind a switch is done, only
\* to a request that brought the token of a probe that has one, by GET, or where the
\* environment opened the probe in words (server.ts 214-270, config.ts 200-214).
Guarded ==
  /\ (status = 200 /\ ~Open) =>
       /\ request.method = "GET"
       /\ env.open = "true" \/ (request.token = "right" /\ Given(env.token))
  /\ stage \in {"lookup", "connect"} => env.active = "true"
  /\ status = 204 => (env.rum = "true" /\ chunks <= BODY_LIMIT)

\* Whatever a request waits for, a body, a file, the resolver, a peer or an
\* upstream that says nothing, it is answered or its connection gone.
RequestsEnd == (stage = "arrived") ~> (stage = "answered")
=============================================================================
