-------------------------------- MODULE HubHttp --------------------------------
(***************************************************************************)
(* The streamable HTTP transport of the hub                                *)
(* (src/hub/transport/http.ts): requests to /mcp that overlap at their     *)
(* awaits and share the Map of sessions, and a hub that may restart.       *)
(*                                                                         *)
(* The SDK's transport is external: it names its session when it           *)
(* initializes, calls onsessioninitialized before it answers, and onclose  *)
(* when it serves a DELETE.  A session is known by the request that        *)
(* initialized it: randomUUID never repeats an id.                         *)
(***************************************************************************)
EXTENDS FiniteSets

CONSTANTS
  Requests,
  NoSession,    \* no mcp-session-id header; no transport
  MayRestart    \* whether the hub may restart

ASSUME HttpAssumption ==
  /\ NoSession \notin Requests
  /\ MayRestart \in BOOLEAN

VARIABLES
  sessions,   \* the Map's keys
  method,     \* of a request: one of Methods, a POST's by its body
  header,     \* the session it names
  at,         \* "idle", one of Pending, or its outcome
  via,        \* the transport it was handed to
  open,       \* transports that have initialized and not closed
  told,       \* history: sessions whose client has got their id
  ending,     \* history: sessions whose DELETE the hub has begun to serve, or lost
  late        \* history: requests sent after their session's DELETE was answered

vars == <<sessions, method, header, at, via, open, told, ending, late>>

Pending  == {"body", "rejected", "connecting", "handed", "named"}
Methods  == {"initialize", "message", "GET", "DELETE"}
Outcomes == {"ok", "no session", "failed", "lost"}

Init ==
  /\ sessions = {}
  /\ method = [r \in Requests |-> "none"]
  /\ header = [r \in Requests |-> NoSession]
  /\ at = [r \in Requests |-> "idle"]
  /\ via = [r \in Requests |-> NoSession]
  /\ open = {} /\ told = {} /\ ending = {} /\ late = {}

-----------------------------------------------------------------------------
Ended(s) == \E d \in Requests : method[d] = "DELETE" /\ header[d] = s /\ at[d] = "ok"

\* A session the Map knows: hand the request to its transport.
Find(r, s) ==
  IF s \in sessions
    THEN at' = [at EXCEPT ![r] = "handed"] /\ via' = [via EXCEPT ![r] = s]
    ELSE at' = [at EXCEPT ![r] = "no session"] /\ UNCHANGED via

\* A client sends a request, naming no session or one it was told of.  A POST
\* waits for its body, the others are looked up at once.
Arrive(r, m, s) ==
  /\ at[r] = "idle"
  /\ s \in told \cup {NoSession}
  /\ method' = [method EXCEPT ![r] = m]
  /\ header' = [header EXCEPT ![r] = s]
  /\ late' = IF s # NoSession /\ Ended(s) THEN late \cup {r} ELSE late
  /\ IF m \in {"initialize", "message"}
       THEN at' = [at EXCEPT ![r] = "body"] /\ UNCHANGED via
       ELSE Find(r, s)
  /\ UNCHANGED <<sessions, open, told, ending>>

\* readJson rejects: too large, not JSON, or the connection broke.
BodyBreaks(r) ==
  /\ at[r] = "body"
  /\ at' = [at EXCEPT ![r] = "rejected"]
  /\ UNCHANGED <<sessions, method, header, via, open, told, ending, late>>

\* Slip: nobody catches it.
Uncaught(r) ==
  /\ at[r] = "rejected"
  /\ UNCHANGED vars

\* What handle rejects with is caught and answered 500.
Caught(r) ==
  /\ at[r] = "rejected"
  /\ at' = [at EXCEPT ![r] = "failed"]
  /\ UNCHANGED <<sessions, method, header, via, open, told, ending, late>>

\* Slip: an initialize starts a session whatever it names.
BodyAlwaysStarts(r) ==
  /\ at[r] = "body"
  /\ IF method[r] = "initialize"
       THEN at' = [at EXCEPT ![r] = "connecting"] /\ via' = [via EXCEPT ![r] = r]
       ELSE Find(r, header[r])
  /\ UNCHANGED <<sessions, method, header, open, told, ending, late>>

\* The body is in: a known session, a new one, or neither.
Body(r) ==
  /\ at[r] = "body"
  /\ IF header[r] = NoSession /\ method[r] = "initialize"
       THEN at' = [at EXCEPT ![r] = "connecting"] /\ via' = [via EXCEPT ![r] = r]
       ELSE Find(r, header[r])
  /\ UNCHANGED <<sessions, method, header, open, told, ending, late>>

\* server.connect returns.
Connected(r) ==
  /\ at[r] = "connecting"
  /\ at' = [at EXCEPT ![r] = "handed"]
  /\ UNCHANGED <<sessions, method, header, via, open, told, ending, late>>

\* Slip: the callback does not fill the Map.
InitializedUnkept(r) ==
  /\ at[r] = "handed" /\ via[r] = r
  /\ open' = open \cup {r}
  /\ at' = [at EXCEPT ![r] = "named"]
  /\ UNCHANGED <<sessions, method, header, via, told, ending, late>>

\* onsessioninitialized.
Initialized(r) ==
  /\ at[r] = "handed" /\ via[r] = r
  /\ open' = open \cup {r}
  /\ sessions' = sessions \cup {r}
  /\ at' = [at EXCEPT ![r] = "named"]
  /\ UNCHANGED <<method, header, via, told, ending, late>>

\* Its answer carries the id to the client, unless the client has gone.
Named(r) ==
  /\ at[r] = "named"
  /\ \/ at' = [at EXCEPT ![r] = "ok"] /\ told' = told \cup {r}
     \/ at' = [at EXCEPT ![r] = "failed"] /\ UNCHANGED told
  /\ UNCHANGED <<sessions, method, header, via, open, ending, late>>

\* An open transport serves what it was handed.
Serve(r) ==
  /\ at[r] = "handed" /\ via[r] # r
  /\ via[r] \in open /\ method[r] # "DELETE"
  /\ at' = [at EXCEPT ![r] = "ok"]
  /\ UNCHANGED <<sessions, method, header, via, open, told, ending, late>>

\* Slip: nothing tells the Map.
CloseUntold(r) ==
  /\ at[r] = "handed" /\ via[r] # r /\ method[r] = "DELETE"
  /\ open' = open \ {via[r]}
  /\ ending' = ending \cup {via[r]}
  /\ at' = [at EXCEPT ![r] = "ok"]
  /\ UNCHANGED <<sessions, method, header, via, told, late>>

\* A DELETE closes the transport, whose onclose takes the session off the Map.
Close(r) ==
  /\ at[r] = "handed" /\ via[r] # r /\ method[r] = "DELETE"
  /\ open' = open \ {via[r]}
  /\ sessions' = sessions \ {via[r]}
  /\ ending' = ending \cup {via[r]}
  /\ at' = [at EXCEPT ![r] = "ok"]
  /\ UNCHANGED <<method, header, via, told, late>>

\* The transport does not like the request, or rejects.
Refuse(r) ==
  /\ at[r] = "handed"
  /\ \E how \in {"failed", "rejected"} : at' = [at EXCEPT ![r] = how]
  /\ UNCHANGED <<sessions, method, header, via, open, told, ending, late>>

\* Sessions live in memory only, and so do the requests under way.  (Bound: a
\* hub without sessions does not restart.)
Restart ==
  /\ MayRestart
  /\ sessions # {}
  /\ sessions' = {} /\ open' = {}
  /\ ending' = ending \cup sessions
  /\ at' = [r \in Requests |-> IF at[r] \in Pending THEN "lost" ELSE at[r]]
  /\ UNCHANGED <<method, header, via, told, late>>

Handle(r) ==
  \/ Body(r) \/ BodyBreaks(r) \/ Caught(r) \/ Connected(r) \/ Initialized(r) \/ Named(r)
  \/ Serve(r) \/ Close(r) \/ Refuse(r)

Next ==
  \/ \E r \in Requests, m \in Methods, s \in Requests \cup {NoSession} : Arrive(r, m, s)
  \/ \E r \in Requests : Handle(r)
  \/ Restart

Spec == Init /\ [][Next]_vars

\* Node gives up on a body that does not come, awaited promises settle.
FairSpec == Spec /\ \A r \in Requests : WF_vars(Handle(r))

-----------------------------------------------------------------------------
\* The types of the hub's state; whatever is handed over has a transport.
TypeOK ==
  /\ sessions \subseteq Requests /\ open \subseteq Requests
  /\ header \in [Requests -> Requests \cup {NoSession}]
  /\ via \in [Requests -> Requests \cup {NoSession}]
  /\ method \in [Requests -> Methods \cup {"none"}]
  /\ at \in [Requests -> Pending \cup Outcomes \cup {"idle"}]
  /\ told \subseteq Requests /\ ending \subseteq Requests /\ late \subseteq Requests
  /\ \A r \in Requests : at[r] \in {"connecting", "handed", "named"} => via[r] # NoSession

\* A client that was told of its session finds it: it is turned away only when a
\* DELETE of that session is being served or the hub has restarted (http.ts:69-92).
KnownServed ==
  \A r \in Requests :
    at[r] = "no session" /\ header[r] # NoSession => header[r] \in ending

\* A request that names a session is served by that one or by none
\* (http.ts:69-72, 95-101).
OwnSession ==
  \A r \in Requests : header[r] # NoSession /\ via[r] # NoSession => via[r] = header[r]

\* After its DELETE was answered a session serves nothing and is not handed
\* anything (http.ts:84-87).
StaysDeleted == \A r \in late : at[r] \in {"body", "rejected", "no session", "failed", "lost"}

\* Every request the hub has taken up is answered: with finitely many of them, in
\* the end none is under way (http.ts:107-110).
Answered == <>[](\A r \in Requests : at[r] \notin Pending)
=============================================================================
