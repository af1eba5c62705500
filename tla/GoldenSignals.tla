---------------------------- MODULE GoldenSignals ----------------------------
(***************************************************************************)
(* The golden signals of a service (src/providers/native, prometheus,      *)
(* datadog, splunk: goldenSignals): each provider asks a fixed series of   *)
(* queries, one after the other, while requests go on being served, JVMs   *)
(* restart and queries fail.  A query names the meters it adds up and what *)
(* its failure costs; all else is common to the four.                      *)
(*                                                                         *)
(* Rates, latencies, units and the texts of the queries are left out.      *)
(***************************************************************************)
EXTENDS Integers, Sequences, FiniteSetsExt, SequencesExt

CONSTANTS
  PodList, UriList,   \* the service's pods with a probe; the uris of its meter (at most 25)
  MAX_REQUESTS        \* bound on the requests served

Outcomes == {"ok", "client", "server"}
Uris     == Range(UriList)
GPods    == Range(PodList)
Cells    == Uris \X Outcomes

\* What a query adds up: the requests of some outcomes at one uri, or at all.
AllUris  == "all uris"
Of(u, O) == <<u, O>>
Hits     == Of(AllUris, Outcomes)
ErrorsOf(O) == Of(AllUris, O)
Bad      == {"client", "server"}

Sums == {Hits} \cup {ErrorsOf(O) : O \in {{"client"}, {"server"}, Bad}}
        \cup {Of(u, O) : u \in Uris, O \in {Outcomes, {"server"}, Bad}}

\* No pod and no uri is listed twice.
ASSUME GoldenAssumption ==
  /\ PodList \in Seq(Range(PodList)) /\ UriList \in Seq(Range(UriList))
  /\ \A i, j \in DOMAIN PodList : PodList[i] = PodList[j] => i = j
  /\ \A i, j \in DOMAIN UriList : UriList[i] = UriList[j] => i = j
  /\ AllUris \notin Uris

\* The cells of a meter that a sum takes in.
CellsOf(s) == (IF s[1] = AllUris THEN Uris ELSE {s[1]}) \X s[2]

VARIABLES
  meter,      \* http.server.requests of each pod, by uri and outcome
  provider,   \* "none" before the call
  plan,       \* the queries that are left
  got,        \* what the answers added up to
  answered,   \* anyProbe: some query for the totals was answered
  outcome,    \* "idle", "asking", "signals", "undefined" or "error"
  served,     \* history: requests served during the call
  calm        \* history: nothing was served, restarted or failed during it

goldenVars == <<meter, provider, plan, got, answered, outcome, served, calm>>

\* What the meters of some pods say of a sum.
Count(P, s) == MapThenSumSet(LAMBDA pc : meter[pc[1]][pc[2]], P \X CellsOf(s))

Nothing == [s \in Sums |-> 0]

GoldenIdle ==
  /\ meter = [p \in GPods |-> [c \in Cells |-> 0]]
  /\ provider = "none" /\ plan = <<>> /\ got = Nothing
  /\ answered = FALSE /\ outcome = "idle" /\ served = 0 /\ calm = TRUE

-----------------------------------------------------------------------------
\* A query over the pods P for some sums; when it fails, so many of the
\* queries behind it are dropped, or all of them and the call throws.
Throws == -1
Query(P, sels, drop) == [pods |-> P, sels |-> sels, drop |-> drop]

\* Micrometer through one pod's probe: totals, uptime, the two error classes (in
\* one try), then for every uri its count and its errors.
NativePlan(p) ==
  LET n == Len(UriList) IN
  <<Query({p}, {Hits}, 2 * n + 3), Query({p}, {}, 0),
    Query({p}, {ErrorsOf({"server"})}, 1), Query({p}, {ErrorsOf({"client"})}, 0)>>
  \o FlattenSeq([i \in 1 .. n |-> <<Query({p}, {Of(UriList[i], Outcomes)}, 1),
                                    Query({p}, {Of(UriList[i], {"server"})}, 0)>>])

EachUri(O) == {Of(u, O) : u \in Uris}
AskAll(sels, drop) == Query(GPods, sels, drop)

\* Prometheus: rate, 5xx, 4xx and 5xx, by endpoint twice, three quantiles; any
\* failure throws.  Metrics without a namespace label answer the second round only.
PrometheusPlans ==
  LET round == <<AskAll({Hits}, Throws), AskAll({ErrorsOf({"server"})}, Throws),
                 AskAll({ErrorsOf(Bad)}, Throws), AskAll(EachUri(Outcomes), Throws),
                 AskAll(EachUri({"server"}), Throws), AskAll({}, Throws)>>
  IN  {round, <<AskAll({}, Throws)>> \o round}

\* Datadog: what comes after hits and errors may fail and is empty then.
DatadogPlan == <<AskAll({Hits}, Throws), AskAll({ErrorsOf(Bad)}, Throws), AskAll({ErrorsOf({"server"})}, 0),
                 AskAll(EachUri(Outcomes), 0), AskAll(EachUri(Bad), 0), AskAll({}, 0)>>

\* Splunk: all totals by one search, all paths by another.
SplunkPlan == <<AskAll({Hits, ErrorsOf({"server"}), ErrorsOf(Bad)}, Throws),
                AskAll(EachUri(Outcomes) \cup EachUri({"server"}), Throws)>>

Plans(pr) == CASE pr = "native"     -> {FlattenSeq([i \in DOMAIN PodList |-> NativePlan(PodList[i])])}
               [] pr = "prometheus" -> PrometheusPlans
               [] pr = "datadog"    -> {DatadogPlan}
               [] pr = "splunk"     -> {SplunkPlan}

-----------------------------------------------------------------------------
Asking == outcome = "asking"

GoldenCall(pr) ==
  /\ outcome = "idle"
  /\ provider' = pr /\ plan' \in Plans(pr) /\ outcome' = "asking"
  /\ UNCHANGED <<meter, got, answered, served, calm>>

\* No request in the totals.
NoTraffic == Count(GPods, Hits) = 0

\* The totals are asked for and there is nothing in them.
MayEnd == plan # <<>> /\ Hits \in Head(plan).sels /\ NoTraffic

\* Slip: the last pod's answer in place of the sum.
QueryAnsweredLast ==
  /\ Asking /\ plan # <<>>
  /\ ~(MayEnd /\ provider \in {"datadog", "splunk"})
  /\ LET q == Head(plan)
     IN  /\ got' = [s \in Sums |-> IF s \in q.sels THEN Count(q.pods, s) ELSE got[s]]
         /\ answered' = (answered \/ Hits \in q.sels)
  /\ plan' = Tail(plan)
  /\ UNCHANGED <<meter, provider, outcome, served, calm>>

\* A query is answered from the meters as they are now.
QueryAnswered ==
  /\ Asking /\ plan # <<>>
  /\ ~(MayEnd /\ provider \in {"datadog", "splunk"})
  /\ LET q == Head(plan)
     IN  /\ got' = [s \in Sums |-> got[s] + IF s \in q.sels THEN Count(q.pods, s) ELSE 0]
         /\ answered' = (answered \/ Hits \in q.sels)
  /\ plan' = Tail(plan)
  /\ UNCHANGED <<meter, provider, outcome, served, calm>>

\* Slip: no `continue` when a pod's totals fail.
QueryFailsOne ==
  /\ Asking /\ plan # <<>>
  /\ IF Head(plan).drop = Throws
       THEN plan' = <<>> /\ outcome' = "error"
       ELSE plan' = Tail(plan) /\ UNCHANGED outcome
  /\ calm' = FALSE
  /\ UNCHANGED <<meter, provider, got, answered, served>>

QueryFails ==
  /\ Asking /\ plan # <<>>
  /\ IF Head(plan).drop = Throws
       THEN plan' = <<>> /\ outcome' = "error"
       ELSE plan' = SubSeq(plan, 2 + Head(plan).drop, Len(plan)) /\ UNCHANGED outcome
  /\ calm' = FALSE
  /\ UNCHANGED <<meter, provider, got, answered, served>>

\* Totals of zero end the call for Datadog and Splunk; Prometheus knows a rate of
\* zero from one without a series, which ends it.
Empty ==
  /\ Asking /\ MayEnd /\ provider # "native"
  /\ plan' = <<>> /\ outcome' = "undefined"
  /\ UNCHANGED <<meter, provider, got, answered, served, calm>>

GoldenReturn ==
  /\ Asking /\ plan = <<>>
  /\ outcome' = IF answered THEN "signals" ELSE "undefined"
  /\ UNCHANGED <<meter, provider, plan, got, answered, served, calm>>

\* A request is served and counted, at any time.
Request(p, c) ==
  /\ outcome \in {"idle", "asking"}
  /\ MapThenSumSet(LAMBDA q : MapThenSumSet(LAMBDA d : meter[q][d], Cells), GPods) + served < MAX_REQUESTS
  /\ meter' = [meter EXCEPT ![p][c] = @ + 1]
  /\ IF Asking THEN served' = served + 1 /\ calm' = FALSE ELSE UNCHANGED <<served, calm>>
  /\ UNCHANGED <<provider, plan, got, answered, outcome>>

\* A JVM starts over; for the other providers, the window has moved on.
JvmRestart(p) ==
  /\ Asking /\ meter[p] # [c \in Cells |-> 0]
  /\ meter' = [meter EXCEPT ![p] = [c \in Cells |-> 0]]
  /\ calm' = FALSE
  /\ UNCHANGED <<provider, plan, got, answered, outcome, served>>

GoldenNext ==
  \/ \E pr \in {"native", "prometheus", "datadog", "splunk"} : GoldenCall(pr)
  \/ QueryAnswered \/ QueryFails \/ Empty \/ GoldenReturn
  \/ \E p \in GPods, c \in Cells : Request(p, c)
  \/ \E p \in GPods : JvmRestart(p)

-----------------------------------------------------------------------------
Signals == outcome = "signals"

\* The numerator of errorRate.
Errors == IF provider = "native" THEN got[ErrorsOf({"client"})] + got[ErrorsOf({"server"})]
                                 ELSE got[ErrorsOf(Bad)]

\* However queries, restarts and failures fall between each other, the errors
\* of the result exceed its requests by no more than was served during the call,
\* nor do those of the server, nor an endpoint's (native 94-114, datadog 172-189).
ErrorsWithinRequests ==
  Signals =>
    /\ Errors <= got[Hits] + served
    /\ got[ErrorsOf({"server"})] <= got[Hits] + served
    /\ provider \in {"native", "prometheus", "splunk"} =>
         \A u \in Uris : got[Of(u, {"server"})] <= got[Of(u, Outcomes)] + served

\* A call that nothing disturbed says exactly what the meters say, in total and
\* per endpoint, and answers undefined only when there was nothing to count
\* (native 71-133, prometheus 92-123, datadog 172-203, splunk 110-136).
CalmExact ==
  calm =>
    /\ Signals => /\ got[Hits] = Count(GPods, Hits) /\ Errors = Count(GPods, ErrorsOf(Bad))
                  /\ got[ErrorsOf({"server"})] = Count(GPods, ErrorsOf({"server"}))
                  /\ \A u \in Uris : got[Of(u, Outcomes)] = Count(GPods, Of(u, Outcomes))
    /\ outcome = "undefined" => NoTraffic /\ (provider = "native" => PodList = <<>>)
    /\ outcome # "error"
=============================================================================
