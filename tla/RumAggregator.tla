---------------------------- MODULE RumAggregator ----------------------------
(***************************************************************************)
(* The probe's in-memory RUM aggregator (src/probe/rum.ts) behind the      *)
(* POST /rum handler of src/probe/server.ts.                               *)
(*                                                                         *)
(* ingest() runs to completion on the event loop.  It is modelled by the   *)
(* iterations of its loop: Receive is the code before the loop, one action *)
(* per kind of event is the loop body, Return is the code after the loop   *)
(* with the handler's reply.  While "busy" nothing else of the process is  *)
(* enabled, and "now" (the parameter of ingest) stands still.              *)
(*                                                                         *)
(* A Map is a total function: a key of vitals or nav is in the Map when    *)
(* its buffer has been pushed to (bucket() is always followed by push),    *)
(* a key of views, resources or errors when its count is not 0.            *)
(***************************************************************************)
EXTENDS RollingSamples

CONSTANTS
  Routes,            \* routes after normalizeRoute that events may carry
  Other,             \* the route "(other)"
  Vitals, Phases,    \* VITALS, NAV_PHASES
  Urls, Sigs,        \* resource keys and error signatures
  Sessions, NoSession,
  Devices,
  Kinds,             \* kinds of events that pages send (bounds a run)
  MAX_ROUTES, MAX_RESOURCES, MAX_ERRORS,
  MAX_ENTRY_ROUTES,  \* 20: routes remembered per resource or error
  MAX_EVENTS,        \* 200: events read per beacon
  RETENTION,         \* retentionMs
  PRUNE_PERIOD,      \* 60 s
  MaxTime,           \* bound on the clock
  MaxBeacons,        \* bound on the beacons of each device class
  MaxLength          \* bound on the events array of a beacon

ASSUME BoundsAssumption ==
  /\ {MAX_ROUTES, MAX_RESOURCES, MAX_ERRORS, MAX_ENTRY_ROUTES} \subseteq Nat \ {0}
  /\ {MAX_EVENTS, RETENTION, PRUNE_PERIOD} \subseteq Nat
  /\ {MaxTime, MaxBeacons, MaxLength} \subseteq Nat

ASSUME NoSessionAssumption == NoSession \notin Sessions

VARIABLES
  vitals, nav,       \* route -> metric or phase -> samples
  views, resources, errors, devices, sessions,
  lastPrune,
  now,               \* Date.now()
  busy, left,        \* inside ingest(), and the events it has yet to read
  accepted,          \* ingest()'s counter
  reply              \* status the handler answered the latest beacon with

maps == <<vitals, nav, views, resources, errors>>
vars == <<vitals, nav, views, resources, errors, devices, sessions, lastPrune,
          now, busy, left, accepted, reply>>

AnyRoute == Routes \cup {Other}

NoView     == [views |-> 0, entries |-> 0, durations |-> Empty]
NoResource == [count |-> 0, errors |-> 0, times |-> Empty, routes |-> {}]
NoError    == [count |-> 0, first |-> 0, last |-> 0, routes |-> {}]

\* The keys of vitals or nav.
Present(map) == {r \in AnyRoute : \E k \in DOMAIN map[r] : map[r][k].pushed > 0}

\* The keys of views, of resources and of errors.
Viewed == {r \in Routes : views[r].views > 0}
Loaded == {u \in Urls : resources[u].count > 0}
Raised == {g \in Sigs : errors[g].count > 0}

Init ==
  /\ vitals    = [r \in AnyRoute |-> [v \in Vitals |-> Empty]]
  /\ nav       = [r \in AnyRoute |-> [p \in Phases |-> Empty]]
  /\ views     = [r \in Routes |-> NoView]
  /\ resources = [u \in Urls |-> NoResource]
  /\ errors    = [g \in Sigs |-> NoError]
  /\ devices   = [d \in Devices |-> 0]
  /\ sessions  = {}
  /\ lastPrune = 0
  /\ now = 0
  /\ busy = FALSE /\ left = 0 /\ accepted = 0
  /\ reply = "none"

-----------------------------------------------------------------------------
\* A body over the limit, or one that is no beacon with an events array:
\* answered at once, nothing is touched.
Malformed ==
  /\ ~busy
  /\ reply' \in {"400", "413"}
  /\ UNCHANGED <<maps, devices, sessions, lastPrune, now, busy, left, accepted>>

\* The code before the loop: the device and the session are counted before
\* any event has been looked at.
Receive(device, session, length) ==
  /\ ~busy
  /\ devices[device] < MaxBeacons
  /\ devices' = [devices EXCEPT ![device] = @ + 1]
  /\ sessions' = IF session = NoSession THEN sessions
                 ELSE {s \in sessions : s.id # session} \cup {[id |-> session, t |-> now]}
  /\ busy' = TRUE
  /\ left' = IF length > MAX_EVENTS THEN MAX_EVENTS ELSE length
  /\ accepted' = 0
  /\ reply' = "none"
  /\ UNCHANGED <<maps, lastPrune, now>>

\* The loop goes on to the next event; the current one was accepted or not.
Consume(counted) ==
  /\ busy /\ left > 0
  /\ left' = left - 1
  /\ accepted' = IF counted THEN accepted + 1 ELSE accepted
  /\ UNCHANGED <<devices, sessions, lastPrune, now, busy, reply>>

\* A field that Number() or String() cannot convert throws out of the loop:
\* the handler answers 400 and prune() is not run.  What earlier events, and
\* the fields before this one, have recorded stays.
Broken ==
  /\ busy /\ left > 0
  /\ busy' = FALSE /\ left' = 0 /\ accepted' = 0
  /\ reply' = "400"
  /\ UNCHANGED <<devices, sessions, lastPrune, now>>

\* Slips: the size test off by one in either direction.
BucketRouteLate(map, route) ==
  IF route \in Present(map) \/ Cardinality(Present(map)) <= MAX_ROUTES THEN route ELSE Other
BucketRouteEarly(map, route) ==
  IF route \in Present(map) \/ Cardinality(Present(map)) < MAX_ROUTES - 1 THEN route ELSE Other

\* bucket: a route that does not fit the Map shares the overflow route.
BucketRoute(map, route) ==
  IF route \in Present(map) \/ Cardinality(Present(map)) < MAX_ROUTES THEN route ELSE Other

\* Slip: the size test off by one.
AddRouteEarly(S, route) == IF Cardinality(S) < MAX_ENTRY_ROUTES - 1 THEN S \cup {route} ELSE S

\* if (routes.size < 20) routes.add(route)
AddRoute(S, route) == IF Cardinality(S) < MAX_ENTRY_ROUTES THEN S \cup {route} ELSE S

\* An event of no known type or with invalid fields.
Skip ==
  /\ Consume(FALSE)
  /\ UNCHANGED maps

Vital(route, name) ==
  /\ "vital" \in Kinds
  /\ Consume(TRUE)
  /\ vitals' = [vitals EXCEPT ![BucketRoute(vitals, route)][name] = Push(@, now)]
  /\ UNCHANGED <<nav, views, resources, errors>>

\* The phases P of a navigation timing are valid.
RecordNav(route, P) ==
  /\ "nav" \in Kinds
  /\ nav' = [nav EXCEPT ![BucketRoute(nav, route)] =
              [p \in Phases |-> IF p \in P THEN Push(@[p], now) ELSE @[p]]]
  /\ UNCHANGED <<vitals, views, resources, errors>>

\* Accepted even when no phase is valid.
Nav(route, P) == RecordNav(route, P) /\ Consume(TRUE)

\* A phase after P cannot be converted.
NavThrows(route, P) == P # Phases /\ RecordNav(route, P) /\ Broken

ViewFits(route) == route \in Viewed \/ Cardinality(Viewed) < MAX_ROUTES

RecordView(route, entry, timed) ==
  /\ "view" \in Kinds
  /\ views' = [views EXCEPT ![route] =
       [views     |-> @.views + 1,
        entries   |-> IF entry THEN @.entries + 1 ELSE @.entries,
        durations |-> IF timed THEN Push(@.durations, now) ELSE @.durations]]
  /\ UNCHANGED <<vitals, nav, resources, errors>>

View(route, entry, timed) ==
  ViewFits(route) /\ RecordView(route, entry, timed) /\ Consume(TRUE)

\* The duration cannot be converted, after the entry of a known route has been
\* counted up; the entry of a new route is not in the Map yet.
ViewThrows(route, entry) ==
  route \in Viewed /\ RecordView(route, entry, FALSE) /\ Broken

ResourceFits(url) == url \in Loaded \/ Cardinality(Loaded) < MAX_RESOURCES

RecordResource(url, failed, routes) ==
  /\ "resource" \in Kinds
  /\ resources' = [resources EXCEPT ![url] =
       [count  |-> @.count + 1,
        errors |-> IF failed THEN @.errors + 1 ELSE @.errors,
        times  |-> Push(@.times, now),
        routes |-> routes]]
  /\ UNCHANGED <<vitals, nav, views, errors>>

Resource(url, route, failed) ==
  /\ ResourceFits(url)
  /\ RecordResource(url, failed, AddRoute(resources[url].routes, route))
  /\ Consume(TRUE)

\* The status cannot be converted, after a known url's hit has been recorded
\* and before its route is.
ResourceThrows(url) ==
  url \in Loaded /\ RecordResource(url, FALSE, resources[url].routes) /\ Broken

ErrorFits(sig) == sig \in Raised \/ Cardinality(Raised) < MAX_ERRORS

\* Slip: every sighting restamps the first one.
ErrorRestamps(sig, route) ==
  /\ "error" \in Kinds /\ ErrorFits(sig) /\ Consume(TRUE)
  /\ errors' = [errors EXCEPT ![sig] =
       [count  |-> @.count + 1,
        first  |-> now,
        last   |-> IF sig \in Raised THEN @.last ELSE now,
        routes |-> AddRoute(@.routes, route)]]
  /\ UNCHANGED <<vitals, nav, views, resources>>

Error(sig, route) ==
  /\ "error" \in Kinds
  /\ ErrorFits(sig)
  /\ Consume(TRUE)
  /\ errors' = [errors EXCEPT ![sig] =
       [count  |-> @.count + 1,
        first  |-> IF sig \in Raised THEN @.first ELSE now,
        last   |-> now,
        routes |-> AddRoute(@.routes, route)]]
  /\ UNCHANGED <<vitals, nav, views, resources>>

\* A new key that no longer fits its Map is skipped.
Full ==
  /\ \/ "view" \in Kinds /\ \E r \in Routes : ~ViewFits(r)
     \/ "resource" \in Kinds /\ \E u \in Urls : ~ResourceFits(u)
     \/ "error" \in Kinds /\ \E g \in Sigs : ~ErrorFits(g)
  /\ Consume(FALSE)
  /\ UNCHANGED maps

PruneRow(row, cutoff) == [k \in DOMAIN row |-> Prune(row[k], cutoff)]

\* prune(): views and their durations are not in it, and no key of vitals,
\* nav or resources is ever removed.
PruneAll ==
  LET cutoff == now - RETENTION
  IN  /\ vitals' = [r \in AnyRoute |-> PruneRow(vitals[r], cutoff)]
      /\ nav' = [r \in AnyRoute |-> PruneRow(nav[r], cutoff)]
      /\ resources' = [u \in Urls |-> [resources[u] EXCEPT !.times = Prune(@, cutoff)]]
      /\ sessions' = {s \in sessions : s.t >= cutoff}
      /\ errors' = [g \in Sigs |-> IF errors[g].last < cutoff THEN NoError ELSE errors[g]]
      /\ lastPrune' = now
      /\ UNCHANGED views

\* Slip: a beacon without an accepted event returns before the prune.
ReturnSkipsPrune ==
  /\ busy /\ left = 0
  /\ IF accepted > 0 /\ now - lastPrune > PRUNE_PERIOD
       THEN PruneAll
       ELSE UNCHANGED <<maps, sessions, lastPrune>>
  /\ reply' = IF accepted > 0 THEN "204" ELSE "400"
  /\ busy' = FALSE /\ accepted' = 0
  /\ UNCHANGED <<devices, now, left>>

\* The code after the loop, and the handler's answer.
Return ==
  /\ busy /\ left = 0
  /\ IF now - lastPrune > PRUNE_PERIOD
       THEN PruneAll
       ELSE UNCHANGED <<maps, sessions, lastPrune>>
  /\ reply' = IF accepted > 0 THEN "204" ELSE "400"
  /\ busy' = FALSE /\ accepted' = 0
  /\ UNCHANGED <<devices, now, left>>

\* An event that throws before it has recorded anything.
Throw ==
  /\ Broken
  /\ UNCHANGED maps

Tick ==
  /\ ~busy /\ now < MaxTime
  /\ now' = now + 1
  /\ UNCHANGED <<maps, devices, sessions, lastPrune, busy, left, accepted, reply>>

Next ==
  \/ Malformed
  \/ \E d \in Devices, s \in Sessions \cup {NoSession}, n \in 0 .. MaxLength : Receive(d, s, n)
  \/ Skip
  \/ \E r \in Routes, v \in Vitals : Vital(r, v)
  \/ \E r \in Routes, P \in SUBSET Phases : Nav(r, P)
  \/ \E r \in Routes, e, t \in BOOLEAN : View(r, e, t)
  \/ \E u \in Urls, r \in Routes, f \in BOOLEAN : Resource(u, r, f)
  \/ \E g \in Sigs, r \in Routes : Error(g, r)
  \/ Full
  \/ Return
  \/ Throw
  \/ \E r \in Routes, P \in SUBSET Phases : NavThrows(r, P)
  \/ \E r \in Routes, e \in BOOLEAN : ViewThrows(r, e)
  \/ \E u \in Urls : ResourceThrows(u)
  \/ Tick

Spec == Init /\ [][Next]_vars
-----------------------------------------------------------------------------
ViewEntry     == [views : Nat, entries : Nat, durations : Rolling]
ResourceEntry == [count : Nat, errors : Nat, times : Rolling, routes : SUBSET Routes]
ErrorEntry    == [count : Nat, first : Nat, last : Nat, routes : SUBSET Routes]

\* The types of the aggregator's fields and of ingest()'s locals.
TypeOK ==
  /\ vitals \in [AnyRoute -> [Vitals -> Rolling]]
  /\ nav \in [AnyRoute -> [Phases -> Rolling]]
  /\ views \in [Routes -> ViewEntry]
  /\ resources \in [Urls -> ResourceEntry]
  /\ errors \in [Sigs -> ErrorEntry]
  /\ devices \in [Devices -> Nat]
  /\ sessions \subseteq [id : Sessions, t : Nat]
  /\ now \in Nat /\ lastPrune \in Nat /\ lastPrune <= now
  /\ busy \in BOOLEAN /\ left \in Nat /\ accepted \in Nat
  /\ reply \in {"none", "204", "400", "413"}

\* The sample buffers prune() visits, and all of them.
PrunedBuffers == {vitals[r][v] : r \in AnyRoute, v \in Vitals}
                 \cup {nav[r][p] : r \in AnyRoute, p \in Phases}
                 \cup {resources[u].times : u \in Urls}
Buffers == PrunedBuffers \cup {views[r].durations : r \in Routes}

\* No buffer ever holds more than MAX_SAMPLES_PER_KEY samples, whatever mix of
\* pushes and prunes it went through (rum.ts:26-32, "bounded rolling samples").
SamplesBounded == \A s \in Buffers : Within(s)

\* Every buffer holds the newest samples of its key, in order and without a
\* hole: cutting the front by count and filtering by age never keep a sample
\* while a newer one is gone (rum.ts:28, 31).
SamplesNewest == \A s \in Buffers : Ordered(s, now) /\ Newest(s)

\* The Maps keep to their limits: MAX_ROUTES named routes for vitals, nav and
\* views, the overflow route besides, MAX_RESOURCES urls, MAX_ERRORS signatures,
\* and at most MAX_ENTRY_ROUTES routes on each of these (rum.ts:118, 133, 149, 176).
MapsBounded ==
  /\ \A map \in {vitals, nav} : Cardinality(Present(map) \ {Other}) <= MAX_ROUTES
  /\ Cardinality(Viewed) <= MAX_ROUTES
  /\ Cardinality(Loaded) <= MAX_RESOURCES
  /\ Cardinality(Raised) <= MAX_ERRORS
  /\ \A u \in Urls : Cardinality(resources[u].routes) <= MAX_ENTRY_ROUTES
  /\ \A g \in Sigs : Cardinality(errors[g].routes) <= MAX_ENTRY_ROUTES

\* Samples are filed under "(other)" only once the Map holds MAX_ROUTES routes
\* of its own, as long as no page calls a route of its own "(other)"
\* (rum.ts:176-182).
OverflowOnlyWhenFull ==
  Other \notin Routes =>
    \A map \in {vitals, nav} :
      Other \in Present(map) => Cardinality(Present(map) \ {Other}) >= MAX_ROUTES

\* Everything prune() looks after is inside the retention window as of the
\* latest prune; beacons that threw half-way leave nothing older behind
\* (rum.ts:192-199).
Retained ==
  LET cutoff == lastPrune - RETENTION
  IN  /\ \A s \in PrunedBuffers : Since(s, cutoff)
      /\ \A s \in sessions : s.t >= cutoff
      /\ \A g \in Raised : errors[g].last >= cutoff

\* What /metrics and /rum-summary say of errors and resources hangs together
\* across evictions and deletions: an error's first sighting is not after its
\* last, a signature seen once has one time, none is without a route, and a
\* resource has at least as many hits as samples and failures (rum.ts:127-156).
ReportCoherent ==
  /\ \A g \in Raised :
       LET e == errors[g]
       IN  /\ e.first <= e.last /\ e.last <= now
           /\ e.count = 1 => e.first = e.last
           /\ Cardinality(e.routes) \in 1 .. e.count
  /\ \A u \in Urls :
       LET r == resources[u]
       IN  /\ Cardinality(r.times.kept) <= r.count /\ r.errors <= r.count
           /\ u \in Loaded => Cardinality(r.routes) \in 1 .. r.count

StaysFresh ==
  Return =>
    LET cutoff == now - RETENTION - PRUNE_PERIOD
    IN  /\ \A s \in PrunedBuffers' : Since(s, cutoff)
        /\ \A s \in sessions' : s.t >= cutoff
        /\ \A g \in Raised' : errors'[g].last >= cutoff

\* When a beacon has been ingested to its end, nothing prune() looks after is
\* older than the retention plus the pause between prunes (rum.ts:169).
FreshAfterReturn == [][StaysFresh]_vars

LosesOnlyTheOld ==
  LET cutoff == now - RETENTION
  IN  /\ \A r \in AnyRoute, v \in Vitals : LosesOnlyOld(vitals[r][v], vitals'[r][v], cutoff)
      /\ \A r \in AnyRoute, p \in Phases : LosesOnlyOld(nav[r][p], nav'[r][p], cutoff)
      /\ \A r \in Routes : LosesOnlyOld(views[r].durations, views'[r].durations, cutoff)
      /\ \A u \in Urls : LosesOnlyOld(resources[u].times, resources'[u].times, cutoff)
      /\ \A s \in sessions : s.t >= cutoff => \E s2 \in sessions' : s2.id = s.id
      /\ \A g \in Raised : errors[g].last >= cutoff => errors'[g].count >= errors[g].count

\* Nothing is forgotten early: a sample goes when it is older than the
\* retention or a full buffer of newer ones has arrived, a session or an error
\* when its latest beacon is older than the retention (rum.ts:28, 31, 196-197).
NoEarlyLoss == [][LosesOnlyTheOld]_vars
=============================================================================
