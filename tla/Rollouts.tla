------------------------------ MODULE Rollouts ------------------------------
(***************************************************************************)
(* The history of a deployment (src/hub/tools/health.ts, getRolloutHistory)*)
(* put together from two lists, one after the other, while the deployment  *)
(* is rolled out, rolled back, deleted and created again.                  *)
(***************************************************************************)
EXTENDS Integers, Sequences, FiniteSetsExt

CONSTANTS
  Templates,      \* [images, resources: <<container, what>>; env: <<container, key, value>>]
  References,     \* values of env that refer to a secret or a config map
  Limits,         \* revisions a caller may ask for
  MAX_ROLLOUTS    \* bound on the changes of the deployment

\* The containers of a pod have names of their own, and an image each.
OneImageEach ==
  \A t \in Templates :
    /\ {x[1] : x \in t.images} = {x[1] : x \in t.resources}
    /\ \A x, y \in t.images : x[1] = y[1] => x = y

ASSUME RolloutsAssumption == OneImageEach /\ Limits \subseteq Int

VARIABLES
  uid,            \* of the deployment of that name; 0: there is none
  annotated,      \* its revision, as its annotation says
  replicaSets,    \* [owner, template, revision]
  rolled,
  results,        \* of the tool's lists so far
  revisions,      \* of the answer, replica sets with the newest first
  diffs,          \* between neighbours
  history         \* "none", "told" or "error"

rolloutVars == <<uid, annotated, replicaSets, rolled, results, revisions, diffs, history>>
clusterVars == <<uid, annotated, replicaSets, rolled>>

RolloutsIdle ==
  /\ uid = 0 /\ annotated = 0 /\ replicaSets = {} /\ rolled = 0
  /\ results = <<>> /\ revisions = <<>> /\ diffs = <<>> /\ history = "none"

OwnedBy(u, all) == {r \in all : r.owner = u}
Latest == Max({r.revision : r \in OwnedBy(uid, replicaSets)} \cup {0})

-----------------------------------------------------------------------------
\* The deployment controller: a template gets a replica set with the next revision,
\* its old one if it has been rolled out before; then the annotation follows.
Rollout(t) ==
  /\ uid > 0 /\ annotated = Latest
  /\ ~\E r \in OwnedBy(uid, replicaSets) : r.template = t /\ r.revision = Latest
  /\ replicaSets' = {r \in replicaSets : r.owner # uid \/ r.template # t}
                      \cup {[owner |-> uid, template |-> t, revision |-> Latest + 1]}
  /\ UNCHANGED <<uid, annotated>>

Annotate == uid > 0 /\ annotated # Latest /\ annotated' = Latest /\ UNCHANGED <<uid, replicaSets>>

\* Old revisions go, and the replica sets of a deployment that is gone.
Collect(r) ==
  /\ r.owner # uid \/ r.revision < annotated
  /\ replicaSets' = replicaSets \ {r}
  /\ UNCHANGED <<uid, annotated>>

\* Deleted and created again: another uid, revisions from one.
Recreate == uid' = uid + 1 /\ annotated' = 0 /\ UNCHANGED replicaSets

Changes ==
  /\ history = "none" /\ rolled < MAX_ROLLOUTS /\ rolled' = rolled + 1
  /\ \/ \E t \in Templates : Rollout(t)
     \/ \E r \in replicaSets : Collect(r)
     \/ Annotate \/ Recreate
  /\ UNCHANGED <<results, revisions, diffs, history>>

-----------------------------------------------------------------------------
\* Slip: the replica sets are listed first.
ListsBack == <<"replicaSets", "deployments">>

Lists == <<"deployments", "replicaSets">>

\* The next list; no deployment of that name throws.
TakeList ==
  /\ history = "none" /\ Len(results) < Len(Lists)
  /\ LET what == Lists[Len(results) + 1]
     IN  /\ results' = Append(results, IF what = "replicaSets" THEN replicaSets ELSE [uid |-> uid, revision |-> annotated])
         /\ history' = IF what = "deployments" /\ uid = 0 THEN "error" ELSE "none"
  /\ UNCHANGED <<clusterVars, revisions, diffs>>

ListFails == history = "none" /\ history' = "error" /\ UNCHANGED <<clusterVars, results, revisions, diffs>>

ResultOf(list) == results[CHOOSE i \in DOMAIN Lists : Lists[i] = list]

\* A value by reference shows as its kind; the containers are run together.
Shown(v)  == IF v \in References THEN "<ref>" ELSE v
EnvOf(t)  == {<<e[2], Shown(e[3])>> : e \in t.env}
KeysIn(s) == {x[1] : x \in s}

Diff(newer, older) ==
  [images    |-> newer.images \ older.images,
   env       |-> KeysIn(EnvOf(newer) \ EnvOf(older)) \cup (KeysIn(EnvOf(older)) \ KeysIn(EnvOf(newer))),
   resources |-> newer.resources # older.resources]

Newer(r, all)    == {s \in all : s.revision > r.revision}
NewestFirst(all) ==
  [i \in 1 .. Cardinality(all) |-> CHOOSE r \in all : Cardinality(Newer(r, all)) = i - 1]

\* slice(0, limit): a negative limit counts from the end.
Sliced(seq, limit) ==
  SubSeq(seq, 1, IF limit < 0 THEN Max({0, Len(seq) + limit}) ELSE Min({Len(seq), limit}))

RolloutTell(limit) ==
  /\ history = "none" /\ Len(results) = Len(Lists)
  /\ LET own == OwnedBy(ResultOf("deployments").uid, ResultOf("replicaSets"))
     IN  revisions' = Sliced(NewestFirst(own), limit)
  /\ diffs' = [i \in 1 .. Len(revisions') - 1 |-> Diff(revisions'[i].template, revisions'[i + 1].template)]
  /\ history' = "told"
  /\ UNCHANGED <<clusterVars, results>>

RolloutsNext == Changes \/ TakeList \/ ListFails \/ \E n \in Limits : RolloutTell(n)

-----------------------------------------------------------------------------
\* What a container is given for a key, as it shows.
GivenTo(t, c, k) == {Shown(e[3]) : e \in {e \in t.env : e[1] = c /\ e[2] = k}}

\* No key is in two containers, or moves to another, and no container is given one
\* twice: the diff does not tell them apart.
Apart(t, u) ==
  /\ \A e, f \in t.env \cup u.env : e[2] = f[2] => e[1] = f[1]
  /\ \A s \in {t, u} : \A e, f \in s.env : e[2] = f[2] => e = f

\* A history is of one deployment, each revision once, newest first, and goes up to
\* the revision it calls the current one unless the deployment was replaced
\* meanwhile, or the caller asked for none; where containers keep their keys apart, its diffs name the keys whose
\* value has changed, and a diff without a word is one of revisions that look the
\* same (health.ts 66-115).
HistoryExact ==
  history = "told" =>
    LET current == ResultOf("deployments")
    IN  /\ \A i \in 1 .. Len(revisions) - 1 : revisions[i].revision > revisions[i + 1].revision
        /\ (uid = current.uid /\ current.revision > 0) =>
             /\ Limits \subseteq Nat \ {0} => revisions # <<>>
             /\ revisions # <<>> => revisions[1].revision >= current.revision
        /\ \A i \in DOMAIN diffs :
             LET new == revisions[i].template
                 old == revisions[i + 1].template
             IN  /\ Apart(new, old) =>
                      diffs[i].env = {e[2] : e \in {e \in new.env \cup old.env :
                                                     GivenTo(new, e[1], e[2]) # GivenTo(old, e[1], e[2])}}
                 /\ (diffs[i].images = {} /\ ~diffs[i].resources) => new.images = old.images
=============================================================================
