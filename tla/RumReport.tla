------------------------------ MODULE RumReport ------------------------------
(***************************************************************************)
(* What the aggregator says of itself (src/probe/rum.ts, summary and       *)
(* prometheusText): the answers to GET /rum-summary and to Prometheus'     *)
(* scrapes of GET /metrics, interleaved with beacons.  Percentiles, sorts  *)
(* and the cut at 50 rows are left out; which entries are listed for a     *)
(* route, and the counters, are kept.                                      *)
(***************************************************************************)
EXTENDS RumAggregator, FiniteSetsExt

CONSTANT NoFilter   \* summary() without a routeFilter

ASSUME NoFilterAssumption == NoFilter \notin Routes

VARIABLES
  hits, raisers,    \* history: the routes whose accepted events made each entry
  scraped           \* rum_frontend_errors_total in the latest scrape

reportVars == <<vars, hits, raisers, scraped>>

\* rum_frontend_errors_total
ErrorsTotal == MapThenSumSet(LAMBDA g : errors[g].count, Sigs)

\* The rows of summary(filter).
SummaryResources(filter) ==
  {u \in Loaded : filter = NoFilter \/ filter \in resources[u].routes}
SummaryErrors(filter) ==
  {g \in Raised : filter = NoFilter \/ filter \in errors[g].routes}

ReportInit ==
  /\ Init
  /\ hits = [u \in Urls |-> {}]
  /\ raisers = [g \in Sigs |-> {}]
  /\ scraped = 0

\* GET /metrics; the reply is built in one turn of the event loop.
Scrape ==
  /\ ~busy
  /\ scraped' = ErrorsTotal
  /\ UNCHANGED <<vars, hits, raisers>>

Hit(u, r, f) ==
  /\ Resource(u, r, f)
  /\ hits' = [hits EXCEPT ![u] = @ \cup {r}]
  /\ UNCHANGED <<raisers, scraped>>

Raise(g, r) ==
  /\ Error(g, r)
  /\ raisers' = [raisers EXCEPT ![g] = @ \cup {r}]
  /\ UNCHANGED <<hits, scraped>>

\* An error deleted by prune() starts over.
Answer ==
  /\ Return
  /\ raisers' = [g \in Sigs |-> IF errors'[g].count = 0 THEN {} ELSE raisers[g]]
  /\ UNCHANGED <<hits, scraped>>

\* A url's hit recorded without its route: the event was not accepted.
HitThrows(u) == ResourceThrows(u) /\ UNCHANGED <<hits, raisers, scraped>>

\* Everything that touches neither resources nor errors.
Elsewhere ==
  /\ UNCHANGED <<resources, errors, hits, raisers, scraped>>
  /\ Next

ReportNext ==
  \/ Scrape
  \/ \E u \in Urls, r \in Routes, f \in BOOLEAN : Hit(u, r, f)
  \/ \E g \in Sigs, r \in Routes : Raise(g, r)
  \/ \E u \in Urls : HitThrows(u)
  \/ Answer
  \/ Elsewhere

ReportSpec == ReportInit /\ [][ReportNext]_reportVars

-----------------------------------------------------------------------------
\* Asked for one route, the summary lists exactly the resources and errors
\* that route's accepted events made since the entry exists, unless the entry's route
\* list is full, and then only true ones (rum.ts:138, 151, 197, 226, 234).
FilterExact ==
  \A r \in Routes :
    /\ \A u \in Loaded : LET listed == u \in SummaryResources(r)
                         IN  /\ listed => r \in hits[u]
                             /\ Cardinality(resources[u].routes) < MAX_ENTRY_ROUTES =>
                                  (r \in hits[u] => listed)
    /\ \A g \in Raised : LET listed == g \in SummaryErrors(r)
                         IN  /\ listed => r \in raisers[g]
                             /\ Cardinality(errors[g].routes) < MAX_ENTRY_ROUTES =>
                                  (r \in raisers[g] => listed)

\* rum.ts:265 declares rum_frontend_errors_total a counter and README.md:378-380
\* exports it for long-term retention: it never decreases while the probe runs.
ErrorsOnlyGrow == [][scraped' >= scraped]_reportVars
=============================================================================
