--------------------------- MODULE HubHttpProofs ---------------------------
(***************************************************************************)
(* No request reaches a session other than its own, none is turned away    *)
(* from a live session and none is served by a deleted one, for every      *)
(* number of requests and every interleaving.                              *)
(***************************************************************************)
EXTENDS HubHttp, TLAPS

-----------------------------------------------------------------------------
\* A client is told of a session once it is in the Map, and no request
\* initializes twice.
Issued ==
  /\ told \subseteq sessions \cup ending
  /\ \A s \in told : at[s] = "ok"
  /\ \A r \in Requests : at[r] = "named" => r \in sessions \cup ending

\* Requests name sessions that were told before they came.
Headers == \A r \in Requests : header[r] \in (told \cup {NoSession}) \ {r}

\* A request is with the session it names or with the one it initializes.
Routed ==
  \A r \in Requests :
    /\ via[r] \in {NoSession, r, header[r]}
    /\ via[r] = r => header[r] = NoSession /\ method[r] = "initialize"
    /\ at[r] \in {"idle", "body"} => via[r] = NoSession
    /\ at[r] \in {"connecting", "named"} => via[r] = r

\* A session whose DELETE was answered is not in the Map.
Deleted ==
  /\ \A d \in Requests :
       method[d] = "DELETE" /\ at[d] = "ok" /\ header[d] # NoSession => header[d] \notin sessions
  /\ \A r \in late : header[r] \in told /\ header[r] \notin sessions

HttpInv ==
  TypeOK /\ Issued /\ Headers /\ Routed /\ Deleted /\ KnownServed /\ StaysDeleted

-----------------------------------------------------------------------------
\* A request moves on and nothing else changes: the shape of most steps.
LEMMA MovesOn ==
  ASSUME HttpInv, NEW r \in Requests, NEW v \in {"rejected", "failed", "handed", "ok"},
         at[r] \in Pending, at' = [at EXCEPT ![r] = v],
         v = "handed" => at[r] = "connecting",
         v = "ok" => at[r] = "handed" /\ via[r] # r /\ method[r] # "DELETE",
         UNCHANGED <<sessions, method, header, via, open, told, ending, late>>
  PROVE  HttpInv'
<1>. USE DEF HttpInv
<1>1. /\ at'[r] = v /\ \A q \in Requests : q # r => at'[q] = at[q]
      /\ DOMAIN at' = Requests
  BY DEF TypeOK
<1>2. TypeOK'
  <2>1. at' \in [Requests -> Pending \cup Outcomes \cup {"idle"}]
    BY DEF TypeOK, Pending, Outcomes
  <2>2. ASSUME NEW q \in Requests, at'[q] \in {"connecting", "handed", "named"}
        PROVE  via[q] # NoSession
    <3>1. at[q] \in {"connecting", "handed", "named"}
      BY <1>1, <2>2
    <3>. QED
      BY <3>1 DEF TypeOK
  <2>. QED
    BY <2>1, <2>2 DEF TypeOK
<1>3. Issued'
  BY <1>1 DEF Issued, Pending
<1>4. Headers'
  BY DEF Headers
<1>5. Routed'
  BY <1>1 DEF Routed
<1>6. Deleted'
  BY <1>1 DEF Deleted
<1>7. KnownServed'
  BY <1>1 DEF KnownServed
<1>8. StaysDeleted'
  <2>. SUFFICES ASSUME NEW q \in late
                PROVE  at'[q] \in {"body", "rejected", "no session", "failed", "lost"}
    BY DEF StaysDeleted
  <2>1. q \in Requests
    BY DEF TypeOK
  <2>2. CASE q # r
    BY <1>1, <2>1, <2>2 DEF StaysDeleted
  <2>3. CASE q = r
    <3>1. at[r] \in {"body", "rejected"}
      BY <2>3 DEF StaysDeleted, Pending
    <3>. QED
      BY <1>1, <2>3, <3>1
  <2>. QED
    BY <2>2, <2>3
<1>. QED
  BY <1>2, <1>3, <1>4, <1>5, <1>6, <1>7, <1>8

\* Readers of a body and of a rejection, connecting, serving and refusing are
\* such steps.
LEMMA QuietSteps ==
  ASSUME HttpInv, NEW r \in Requests,
         BodyBreaks(r) \/ Caught(r) \/ Connected(r) \/ Serve(r) \/ Refuse(r)
  PROVE  HttpInv'
<1>1. CASE BodyBreaks(r)
  BY <1>1, MovesOn DEF BodyBreaks, Pending
<1>2. CASE Caught(r)
  BY <1>2, MovesOn DEF Caught, Pending
<1>3. CASE Connected(r)
  BY <1>3, MovesOn DEF Connected, Pending
<1>4. CASE Serve(r)
  BY <1>4, MovesOn DEF Serve, Pending
<1>5. CASE Refuse(r)
  <2>1. PICK how \in {"failed", "rejected"} : at' = [at EXCEPT ![r] = how]
    BY <1>5 DEF Refuse
  <2>. QED
    BY <1>5, <2>1, MovesOn DEF Refuse, Pending
<1>. QED
  BY <1>1, <1>2, <1>3, <1>4, <1>5

-----------------------------------------------------------------------------
\* Looking a session up hands the request to it or turns the request away.
LEMMA Looked ==
  ASSUME TypeOK, NEW r \in Requests, NEW s \in Requests \cup {NoSession}, Find(r, s)
  PROVE  /\ \A q \in Requests : q # r => at'[q] = at[q] /\ via'[q] = via[q]
         /\ \/ s \in sessions /\ at'[r] = "handed" /\ via'[r] = s
            \/ s \notin sessions /\ at'[r] = "no session" /\ via'[r] = via[r]
         /\ at' \in [Requests -> Pending \cup Outcomes \cup {"idle"}]
         /\ via' \in [Requests -> Requests \cup {NoSession}]
<1>1. CASE s \in sessions
  BY <1>1 DEF Find, TypeOK, Pending, Outcomes
<1>2. CASE s \notin sessions
  BY <1>2 DEF Find, TypeOK, Pending, Outcomes
<1>. QED
  BY <1>1, <1>2

\* The body comes in: the session is looked up or a transport is connected.
LEMMA BodyStep ==
  ASSUME HttpInv, NEW r \in Requests, Body(r)
  PROVE  HttpInv'
<1>. USE DEF HttpInv
<1>1. /\ at[r] = "body" /\ via[r] = NoSession /\ header[r] \in Requests \cup {NoSession}
      /\ NoSession \notin sessions
      /\ UNCHANGED <<sessions, method, header, open, told, ending, late>>
  BY HttpAssumption DEF Body, TypeOK, Routed
<1>2. /\ \A q \in Requests : q # r => at'[q] = at[q] /\ via'[q] = via[q]
      /\ at' \in [Requests -> Pending \cup Outcomes \cup {"idle"}]
      /\ via' \in [Requests -> Requests \cup {NoSession}]
      /\ \/ /\ header[r] = NoSession /\ method[r] = "initialize"
            /\ at'[r] = "connecting" /\ via'[r] = r
         \/ header[r] \in sessions /\ at'[r] = "handed" /\ via'[r] = header[r]
         \/ header[r] \notin sessions /\ at'[r] = "no session" /\ via'[r] = NoSession
  <2>1. CASE header[r] = NoSession /\ method[r] = "initialize"
    <3>1. at' = [at EXCEPT ![r] = "connecting"] /\ via' = [via EXCEPT ![r] = r]
      BY <2>1 DEF Body
    <3>. QED
      BY <2>1, <3>1 DEF TypeOK, Pending
  <2>2. CASE ~(header[r] = NoSession /\ method[r] = "initialize")
    <3>1. Find(r, header[r])
      BY <2>2 DEF Body
    <3>. QED
      BY <1>1, <3>1, Looked
  <2>. QED
    BY <2>1, <2>2
<1>3. TypeOK'
  <2>1. ASSUME NEW q \in Requests, at'[q] \in {"connecting", "handed", "named"}
        PROVE  via'[q] # NoSession
    BY <1>1, <1>2, <2>1, HttpAssumption DEF TypeOK
  <2>. QED
    BY <1>1, <1>2, <2>1 DEF TypeOK
<1>4. Issued'
  BY <1>1, <1>2 DEF Issued, TypeOK
<1>5. Headers'
  BY <1>1 DEF Headers
<1>6. Routed'
  <2>. SUFFICES ASSUME NEW q \in Requests
                PROVE  /\ via'[q] \in {NoSession, q, header[q]}
                       /\ via'[q] = q => header[q] = NoSession /\ method[q] = "initialize"
                       /\ at'[q] \in {"idle", "body"} => via'[q] = NoSession
                       /\ at'[q] \in {"connecting", "named"} => via'[q] = q
    BY <1>1 DEF Routed
  <2>1. CASE q = r
    BY <1>1, <1>2, <2>1, HttpAssumption DEF Headers
  <2>2. CASE q # r
    BY <1>2, <2>2 DEF Routed
  <2>. QED
    BY <2>1, <2>2
<1>7. Deleted'
  BY <1>1, <1>2 DEF Deleted
<1>8. KnownServed'
  <2>. SUFFICES ASSUME NEW q \in Requests, at'[q] = "no session", header[q] # NoSession
                PROVE  header[q] \in ending
    BY <1>1 DEF KnownServed
  <2>1. CASE q = r
    BY <1>1, <1>2, <2>1 DEF Headers, Issued
  <2>2. CASE q # r
    BY <1>2, <2>2 DEF KnownServed
  <2>. QED
    BY <2>1, <2>2
<1>9. StaysDeleted'
  <2>. SUFFICES ASSUME NEW q \in late
                PROVE  at'[q] \in {"body", "rejected", "no session", "failed", "lost"}
    BY <1>1 DEF StaysDeleted
  <2>1. header[q] \in told /\ header[q] \notin sessions
    BY DEF Deleted
  <2>. QED
    BY <1>1, <1>2, <2>1, HttpAssumption DEF StaysDeleted, TypeOK
<1>. QED
  BY <1>3, <1>4, <1>5, <1>6, <1>7, <1>8, <1>9

\* A request comes in: with the session it names, looked up when it has no body.
LEMMA ArriveStep ==
  ASSUME HttpInv, NEW r \in Requests, NEW m \in Methods, NEW s \in Requests \cup {NoSession},
         Arrive(r, m, s)
  PROVE  HttpInv'
<1>. USE DEF HttpInv
<1>1. /\ at[r] = "idle" /\ via[r] = NoSession /\ NoSession \notin sessions /\ s # r
      /\ s \in told \cup {NoSession}
      /\ UNCHANGED <<sessions, open, told, ending>>
  BY HttpAssumption DEF Arrive, TypeOK, Routed, Issued
<1>2. /\ \A q \in Requests : q # r => method'[q] = method[q] /\ header'[q] = header[q]
      /\ method'[r] = m /\ header'[r] = s
      /\ method' \in [Requests -> Methods \cup {"none"}]
      /\ header' \in [Requests -> Requests \cup {NoSession}]
  BY DEF Arrive, TypeOK
<1>3. /\ \A q \in Requests : q # r => at'[q] = at[q] /\ via'[q] = via[q]
      /\ at' \in [Requests -> Pending \cup Outcomes \cup {"idle"}]
      /\ via' \in [Requests -> Requests \cup {NoSession}]
      /\ \/ at'[r] = "body" /\ via'[r] = NoSession
         \/ s \in sessions /\ at'[r] = "handed" /\ via'[r] = s
         \/ s \notin sessions /\ at'[r] = "no session" /\ via'[r] = NoSession
  <2>1. CASE m \in {"initialize", "message"}
    BY <1>1, <2>1 DEF Arrive, TypeOK, Pending
  <2>2. CASE m \notin {"initialize", "message"}
    <3>1. Find(r, s)
      BY <2>2 DEF Arrive
    <3>. QED
      BY <1>1, <3>1, Looked
  <2>. QED
    BY <2>1, <2>2
<1>4. late' \subseteq late \cup {r} /\ (r \in late' => r \in late \/ (s # NoSession /\ Ended(s)))
  BY DEF Arrive
<1>5. r \in late' => s \in told /\ s \notin sessions
  <2>. SUFFICES ASSUME r \in late'
                PROVE  s \in told /\ s \notin sessions
    OBVIOUS
  <2>1. r \notin late
    BY <1>1 DEF StaysDeleted
  <2>2. s # NoSession /\ Ended(s)
    BY <1>4, <2>1
  <2>. QED
    BY <1>1, <2>2 DEF Ended, Deleted
<1>6. TypeOK'
  <2>1. ASSUME NEW q \in Requests, at'[q] \in {"connecting", "handed", "named"}
        PROVE  via'[q] # NoSession
    BY <1>1, <1>3, <2>1, HttpAssumption DEF TypeOK
  <2>2. late' \subseteq Requests
    BY <1>4 DEF TypeOK
  <2>. QED
    BY <1>1, <1>2, <1>3, <2>1, <2>2 DEF TypeOK
<1>7. Issued'
  BY <1>1, <1>3 DEF Issued, TypeOK
<1>8. Headers'
  BY <1>1, <1>2 DEF Headers
<1>9. Routed'
  <2>. SUFFICES ASSUME NEW q \in Requests
                PROVE  /\ via'[q] \in {NoSession, q, header'[q]}
                       /\ via'[q] = q => header'[q] = NoSession /\ method'[q] = "initialize"
                       /\ at'[q] \in {"idle", "body"} => via'[q] = NoSession
                       /\ at'[q] \in {"connecting", "named"} => via'[q] = q
    BY DEF Routed
  <2>1. CASE q = r
    BY <1>1, <1>2, <1>3, <2>1, HttpAssumption
  <2>2. CASE q # r
    BY <1>2, <1>3, <2>2 DEF Routed
  <2>. QED
    BY <2>1, <2>2
<1>10. Deleted'
  <2>1. ASSUME NEW d \in Requests, method'[d] = "DELETE", at'[d] = "ok", header'[d] # NoSession
        PROVE  header'[d] \notin sessions
    BY <1>2, <1>3, <2>1 DEF Deleted
  <2>2. ASSUME NEW q \in late'
        PROVE  header'[q] \in told /\ header'[q] \notin sessions
    <3>1. CASE q = r
      BY <1>2, <1>5, <2>2, <3>1
    <3>2. CASE q # r
      BY <1>2, <1>4, <2>2, <3>2 DEF Deleted, TypeOK
    <3>. QED
      BY <3>1, <3>2
  <2>. QED
    BY <1>1, <2>1, <2>2 DEF Deleted
<1>11. KnownServed'
  <2>. SUFFICES ASSUME NEW q \in Requests, at'[q] = "no session", header'[q] # NoSession
                PROVE  header'[q] \in ending
    BY <1>1 DEF KnownServed
  <2>1. CASE q = r
    BY <1>1, <1>2, <1>3, <2>1 DEF Issued
  <2>2. CASE q # r
    BY <1>2, <1>3, <2>2 DEF KnownServed
  <2>. QED
    BY <2>1, <2>2
<1>12. StaysDeleted'
  <2>. SUFFICES ASSUME NEW q \in late'
                PROVE  at'[q] \in {"body", "rejected", "no session", "failed", "lost"}
    BY DEF StaysDeleted
  <2>1. CASE q = r
    BY <1>3, <1>5, <2>1
  <2>2. CASE q # r
    BY <1>3, <1>4, <2>2 DEF StaysDeleted, TypeOK
  <2>. QED
    BY <2>1, <2>2
<1>. QED
  BY <1>6, <1>7, <1>8, <1>9, <1>10, <1>11, <1>12

\* A session enters the Map before its client knows of it.
LEMMA InitializedStep ==
  ASSUME HttpInv, NEW r \in Requests, Initialized(r)
  PROVE  HttpInv'
<1>. USE DEF HttpInv
<1>1. /\ at[r] = "handed" /\ via[r] = r /\ r \notin told
      /\ open' = open \cup {r} /\ sessions' = sessions \cup {r}
      /\ UNCHANGED <<method, header, via, told, ending, late>>
  BY DEF Initialized, Issued
<1>2. /\ \A q \in Requests : q # r => at'[q] = at[q]
      /\ at'[r] = "named"
      /\ at' \in [Requests -> Pending \cup Outcomes \cup {"idle"}]
  BY DEF Initialized, TypeOK, Pending
<1>3. TypeOK'
  BY <1>1, <1>2, HttpAssumption DEF TypeOK
<1>4. Issued'
  BY <1>1, <1>2 DEF Issued, TypeOK
<1>5. Headers'
  BY <1>1 DEF Headers
<1>6. Routed'
  BY <1>1, <1>2 DEF Routed
<1>7. Deleted'
  <2>1. \A q \in Requests : header[q] # r
    BY <1>1, HttpAssumption DEF Headers
  <2>. QED
    BY <1>1, <1>2, <2>1 DEF Deleted, TypeOK
<1>8. KnownServed'
  BY <1>1, <1>2 DEF KnownServed
<1>9. StaysDeleted'
  BY <1>1, <1>2 DEF StaysDeleted, TypeOK
<1>. QED
  BY <1>3, <1>4, <1>5, <1>6, <1>7, <1>8, <1>9

\* Its client is told, or has gone.
LEMMA NamedStep ==
  ASSUME HttpInv, NEW r \in Requests, Named(r)
  PROVE  HttpInv'
<1>. USE DEF HttpInv
<1>1. CASE at' = [at EXCEPT ![r] = "failed"] /\ UNCHANGED told
  BY <1>1, MovesOn DEF Named, Pending
<1>2. CASE at' = [at EXCEPT ![r] = "ok"] /\ told' = told \cup {r}
  <2>1. /\ at[r] = "named" /\ via[r] = r /\ header[r] = NoSession /\ method[r] = "initialize"
        /\ UNCHANGED <<sessions, method, header, via, open, ending, late>>
    BY DEF Named, Routed
  <2>2. /\ \A q \in Requests : q # r => at'[q] = at[q]
        /\ at'[r] = "ok"
        /\ at' \in [Requests -> Pending \cup Outcomes \cup {"idle"}]
    BY <1>2 DEF TypeOK, Outcomes
  <2>3. TypeOK'
    BY <1>2, <2>1, <2>2 DEF TypeOK
  <2>4. Issued'
    BY <1>2, <2>1, <2>2 DEF Issued, TypeOK
  <2>5. Headers'
    BY <1>2, <2>1 DEF Headers
  <2>6. Routed'
    BY <2>1, <2>2 DEF Routed
  <2>7. Deleted'
    BY <1>2, <2>1, <2>2 DEF Deleted
  <2>8. KnownServed'
    BY <2>1, <2>2 DEF KnownServed
  <2>9. StaysDeleted'
    BY <2>1, <2>2 DEF StaysDeleted, TypeOK
  <2>. QED
    BY <2>3, <2>4, <2>5, <2>6, <2>7, <2>8, <2>9
<1>. QED
  BY <1>1, <1>2 DEF Named

\* A session leaves the Map with its DELETE.
LEMMA CloseStep ==
  ASSUME HttpInv, NEW r \in Requests, Close(r)
  PROVE  HttpInv'
<1>. USE DEF HttpInv
<1>1. /\ at[r] = "handed" /\ via[r] # NoSession /\ via[r] = header[r] /\ via[r] \in Requests
      /\ open' = open \ {via[r]} /\ sessions' = sessions \ {via[r]}
      /\ ending' = ending \cup {via[r]}
      /\ UNCHANGED <<method, header, via, told, late>>
  BY DEF Close, Routed, TypeOK
<1>2. /\ \A q \in Requests : q # r => at'[q] = at[q]
      /\ at'[r] = "ok"
      /\ at' \in [Requests -> Pending \cup Outcomes \cup {"idle"}]
  BY DEF Close, TypeOK, Outcomes
<1>3. TypeOK'
  BY <1>1, <1>2 DEF TypeOK
<1>4. Issued'
  BY <1>1, <1>2 DEF Issued, TypeOK
<1>5. Headers'
  BY <1>1 DEF Headers
<1>6. Routed'
  BY <1>1, <1>2 DEF Routed
<1>7. Deleted'
  BY <1>1, <1>2 DEF Deleted
<1>8. KnownServed'
  BY <1>1, <1>2 DEF KnownServed
<1>9. StaysDeleted'
  BY <1>1, <1>2 DEF StaysDeleted, TypeOK
<1>. QED
  BY <1>3, <1>4, <1>5, <1>6, <1>7, <1>8, <1>9

\* A restart loses the sessions and the requests under way.
LEMMA RestartStep ==
  ASSUME HttpInv, Restart
  PROVE  HttpInv'
<1>. USE DEF HttpInv
<1>1. /\ sessions' = {} /\ open' = {} /\ ending' = ending \cup sessions
      /\ UNCHANGED <<method, header, via, told, late>>
  BY DEF Restart
<1>2. /\ \A q \in Requests : at'[q] = IF at[q] \in Pending THEN "lost" ELSE at[q]
      /\ at' \in [Requests -> Pending \cup Outcomes \cup {"idle"}]
  BY DEF Restart, TypeOK, Outcomes
<1>3. TypeOK'
  BY <1>1, <1>2 DEF TypeOK, Pending
<1>4. Issued'
  <2>1. \A s \in told : at'[s] = "ok"
    BY <1>2 DEF Issued, TypeOK, Pending
  <2>2. \A r \in Requests : at'[r] # "named"
    BY <1>2 DEF Pending
  <2>. QED
    BY <1>1, <2>1, <2>2 DEF Issued
<1>5. Headers'
  BY <1>1 DEF Headers
<1>6. Routed'
  BY <1>1, <1>2 DEF Routed
<1>7. Deleted'
  BY <1>1 DEF Deleted
<1>8. KnownServed'
  BY <1>1, <1>2 DEF KnownServed
<1>9. StaysDeleted'
  BY <1>1, <1>2 DEF StaysDeleted, TypeOK
<1>. QED
  BY <1>3, <1>4, <1>5, <1>6, <1>7, <1>8, <1>9

-----------------------------------------------------------------------------
\* Every step keeps the invariant.
LEMMA HttpInductive ==
  ASSUME HttpInv, [Next]_vars
  PROVE  HttpInv'
<1>1. CASE UNCHANGED vars
  BY <1>1 DEF vars, HttpInv, TypeOK, Issued, Headers, Routed, Deleted, KnownServed, StaysDeleted
<1>2. ASSUME NEW r \in Requests, NEW m \in Methods, NEW s \in Requests \cup {NoSession},
             Arrive(r, m, s)
      PROVE  HttpInv'
  BY <1>2, ArriveStep
<1>3. ASSUME NEW r \in Requests, Handle(r)
      PROVE  HttpInv'
  <2>1. CASE Body(r)
    BY <2>1, BodyStep
  <2>2. CASE BodyBreaks(r) \/ Caught(r) \/ Connected(r) \/ Serve(r) \/ Refuse(r)
    BY <2>2, QuietSteps
  <2>3. CASE Initialized(r)
    BY <2>3, InitializedStep
  <2>4. CASE Named(r)
    BY <2>4, NamedStep
  <2>5. CASE Close(r)
    BY <2>5, CloseStep
  <2>. QED
    BY <1>3, <2>1, <2>2, <2>3, <2>4, <2>5 DEF Handle
<1>4. CASE Restart
  BY <1>4, RestartStep
<1>. QED
  BY <1>1, <1>2, <1>3, <1>4 DEF Next

LEMMA HttpInvariant == Spec => []HttpInv
<1>1. Init => HttpInv
  BY HttpAssumption DEF Init, HttpInv, TypeOK, Issued, Headers, Routed, Deleted, KnownServed,
       StaysDeleted, Pending, Outcomes, Methods
<1>2. HttpInv /\ [Next]_vars => HttpInv'
  BY HttpInductive
<1>. QED
  BY <1>1, <1>2, PTL DEF Spec

\* The hub's state keeps its types, whatever requests overlap (http.ts:48-111).
THEOREM TypeCorrect == Spec => []TypeOK
<1>1. HttpInv => TypeOK
  BY DEF HttpInv
<1>. QED
  BY <1>1, HttpInvariant, PTL

\* A client finds the session it was told of until a DELETE of it is served or
\* the hub restarts (http.ts:69-92).
THEOREM ClientsFindSessions == Spec => []KnownServed
<1>1. HttpInv => KnownServed
  BY DEF HttpInv
<1>. QED
  BY <1>1, HttpInvariant, PTL

\* A request never reaches a session other than the one it names
\* (http.ts:69-72, 95-101).
THEOREM SessionsStayApart == Spec => []OwnSession
<1>1. HttpInv => OwnSession
  BY DEF HttpInv, Routed, OwnSession
<1>. QED
  BY <1>1, HttpInvariant, PTL

\* A session whose DELETE was answered is never handed a request again
\* (http.ts:84-87).
THEOREM DeletedStaysDeleted == Spec => []StaysDeleted
<1>1. HttpInv => StaysDeleted
  BY DEF HttpInv
<1>. QED
  BY <1>1, HttpInvariant, PTL
=============================================================================
