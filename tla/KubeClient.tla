----------------------------- MODULE KubeClient -----------------------------
(***************************************************************************)
(* The read-only Kubernetes client (src/k8s/client.ts): one call of any of *)
(* its methods, the requests it fans out to while the cluster changes, the *)
(* timer around it, and the allow-list of namespaces.  Objects are known   *)
(* by their namespace; selectors, names and kinds are left out.            *)
(***************************************************************************)
EXTENDS Integers, FiniteSets

CONSTANTS
  Namespaces,
  Cluster,       \* the target of a cluster-wide request
  Objects,
  MAX_CHANGES    \* bound on the changes of the cluster during a call

ASSUME KubeAssumption == Cluster \notin Namespaces

VARIABLES
  allow,         \* DIAG_NAMESPACES; empty: whatever RBAC permits
  present,       \* the objects there are, as <<namespace, object>>
  method,        \* how the call's method asks; "none" before the call
  asked,         \* the targets of its requests
  taken,         \* what the answered ones returned
  reply,         \* "pending", "ok", "absent", "refused", "timeout" or "error"
  items,
  moments,       \* history: what the cluster has been during the call
  churn

kubeVars == <<allow, present, method, asked, taken, reply, items, moments, churn>>

Within(n) == {o \in present : o[1] = n}
Unasked   == [t \in {} |-> {}]

KubeIdle ==
  /\ allow = {} /\ present = {} /\ method = "none" /\ asked = {} /\ taken = Unasked
  /\ reply = "none" /\ items = {} /\ moments = {} /\ churn = 0

KubeInit ==
  /\ allow \in SUBSET Namespaces
  /\ present \in SUBSET (Namespaces \X Objects)
  /\ method = "none" /\ asked = {} /\ taken = Unasked
  /\ reply = "none" /\ items = {} /\ moments = {present} /\ churn = 0

-----------------------------------------------------------------------------
\* The call's requests go out at once, behind its timer.
Call(how, targets) ==
  /\ reply = "none"
  /\ method' = how /\ asked' = targets /\ reply' = "pending"
  /\ UNCHANGED <<allow, present, taken, items, moments, churn>>

\* ns(): the allow-list, if there is one.
Allowed(n) == allow = {} \/ n \in allow

\* A method that lists one kind in one namespace.
ListIn(n) == Allowed(n) /\ Call("namespace", {n})

\* getPod, getConfigMap, readPodLog read one object of one namespace.
ReadIn(n) == Allowed(n) /\ Call("namespace", {n})

\* assertNamespaceAllowed throws inside call(): nothing is asked.
RefuseIn(n) ==
  /\ reply = "none" /\ ~Allowed(n)
  /\ reply' = "refused"
  /\ UNCHANGED <<allow, present, method, asked, taken, items, moments, churn>>

\* listPodsAll, listDeploymentsAll: with an allow-list one request for each of
\* its namespaces, all at once, else one for the cluster.
Across == Call("across", IF allow = {} THEN {Cluster} ELSE allow)

\* listNamespaces, which alone filters what is cluster-wide by the allow-list;
\* nodes, roles of the cluster and its version belong to no namespace.
ListNamespaces == Call("namespaces", {Cluster})

\* podMetrics, nodeMetrics: a call whose 404 and 503 mean "not installed".
Metrics(n) == Allowed(n) /\ Call("metrics", {n})

-----------------------------------------------------------------------------
Waiting == reply = "pending"

Served(t) ==
  /\ Waiting /\ t \in asked \ DOMAIN taken
  /\ taken' = [u \in DOMAIN taken \cup {t} |->
                 IF u # t THEN taken[u] ELSE IF t = Cluster THEN present ELSE Within(t)]
  /\ UNCHANGED <<allow, present, method, asked, reply, items, moments, churn>>

\* Slip: whatever has been answered will do (Promise.allSettled).
SettleSome ==
  /\ Waiting /\ DOMAIN taken # {}
  /\ reply' = "ok" /\ items' = UNION {taken[t] : t \in DOMAIN taken}
  /\ UNCHANGED <<allow, present, method, asked, taken, moments, churn>>

\* Promise.all has every answer.
Settle ==
  /\ Waiting /\ DOMAIN taken = asked
  /\ reply' = "ok"
  /\ items' = LET all == UNION {taken[t] : t \in asked}
              IN  IF method = "namespaces" THEN {o \in all : Allowed(o[1])} ELSE all
  /\ UNCHANGED <<allow, present, method, asked, taken, moments, churn>>

\* One request that fails rejects the call; the others go on unheard.
RequestFails(absent) ==
  /\ Waiting /\ asked \ DOMAIN taken # {}
  /\ reply' = IF absent /\ method = "metrics" THEN "absent" ELSE "error"
  /\ UNCHANGED <<allow, present, method, asked, taken, items, moments, churn>>

\* The timer of withTimeout; a 504 of its own, which is no "not installed".
TimesOut ==
  /\ Waiting /\ DOMAIN taken # asked
  /\ reply' = "timeout"
  /\ UNCHANGED <<allow, present, method, asked, taken, items, moments, churn>>

\* Objects come and go one at a time.
Churn(o) ==
  /\ Waiting /\ churn < MAX_CHANGES
  /\ present' = (present \ {o}) \cup ({o} \ present)
  /\ moments' = moments \cup {present'} /\ churn' = churn + 1
  /\ UNCHANGED <<allow, method, asked, taken, reply, items>>

KubeNext ==
  \/ \E n \in Namespaces : ListIn(n) \/ ReadIn(n) \/ RefuseIn(n) \/ Metrics(n)
  \/ Across \/ ListNamespaces
  \/ \E t \in asked : Served(t)
  \/ Settle \/ TimesOut
  \/ \E absent \in BOOLEAN : RequestFails(absent)
  \/ \E o \in Namespaces \X Objects : Churn(o)

-----------------------------------------------------------------------------
\* Nothing from outside the allow-list, and never a part in silence: of every
\* namespace a list speaks for, it has all the objects of some one moment of the
\* call, whatever fails or changes meanwhile (k8s/client.ts 160-193, 204-208).
ListWhole ==
  reply = "ok" =>
    /\ \A o \in items : Allowed(o[1])
    /\ \A n \in Namespaces :
         Allowed(n) /\ (method \in {"across", "namespaces"} \/ n \in asked) =>
           \E w \in moments : {o \in items : o[1] = n} = {o \in w : o[1] = n}
=============================================================================
