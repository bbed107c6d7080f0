# A TLA+ model of kube-sre-mcp

kube-sre-mcp is an MCP server, in Go, with which an assistant diagnoses Kubernetes
clusters and, when `ACTIONS_ENABLED` is set, makes five kinds of changes to them. This
directory holds TLA+ modules translated from the code under `src/internal/`, the TLC
configurations that check them on small instances, and proofs checked by TLAPS.

## The system

| Component | Code | State it keeps | Operations |
|---|---|---|---|
| Confirmation store | `action/confirmation.go` | map id -> planned write and deadline, behind a mutex | `Put`, `Take`, the sweep both start with |
| Action engine | `action/engine.go`, `action/authorization.go` | none of its own; the locals of each running tool call | `RestartDeployment`, `Scale`, `DeletePod`, `Cordon` (both ways) |
| Diagnostic engine | `diagnostic/engine.go`, `bounded.go`, `cache.go`, `assemble.go` | a cache that lives for one request | `Diagnose` of eleven kinds, fan-out over dependents |
| Analyzers | `diagnostic/pod.go`, `deployment.go`, ... | none | signals from what was read |
| Cluster health | `health/cluster.go`, `health/health.go` | none between calls | inventory, candidates, bounded deep diagnosis, the combined state |
| Correlation | `correlation/engine.go`, `signal/confidence.go` | none | hypotheses from signals, their confidence and rank |
| Resource graph | `graph/*.go` | the graph being built | nodes and edges, with a cap on nodes |
| Kube access | `kube/*.go` | clients, discovery mapper cache | contexts, resolution of names, error classes, visibility |
| Events, logs, metrics | `events/`, `logs/`, `metrics/` | none | list, limit, aggregate; failing container and patterns; usage |
| MCP server | `mcp/handlers.go`, `cmd/kube-sre-mcp` | the process: one engine, one store | the tools |

An MCP request is served by a goroutine. A read tool goes to the diagnostic engine or to
cluster health, which fan out to the API server, evaluate what came back and hand it to
correlation. A write tool goes to the action engine. Its first call plans a write and is
answered `confirmation_required` with an id; its second call brings the id, redeems it in
the confirmation store, reads the cluster again and makes the change. All handlers share
one store. Nothing is kept on disk: a restart forgets every confirmation.

### What is hard

* Two calls with the same id, or the retry of a call whose answer was lost.
* The clock passing a deadline in the middle of a store method.
* The cluster changing between the plan, the confirmation, the re-read and the mutation.
* A request failing at any of these points, the id being spent already.
* A restart between `Take` and the mutation, with or without `ACTIONS_ENABLED`.
* For the read tools: fan-out inside fan-out, cancelled halfway; a cache that is not
  single-flight; evidence that could not be read being taken for evidence of health; caps.
* For every tool that names an object: the name is looked for by a dozen requests in several
  namespaces, each of which may be refused or fail, while objects come and go.

`PROJECT.json` lists each of these at its line, with the properties that cover it, or why
none does.

### What makes each component correct

* Store: an id buys one write, the one planned, by its deadline; a live offer is not lost
  to anybody's failed call; nothing stale accumulates.
* Engine: no write without its confirmation; one write for a confirmation; a write meets
  every check, as long as the cluster did not change after the last read; no writes when
  disabled; a call always ends.
* Diagnosis: nested fan-out ends and respects its bound; a call reads only answers of its
  own time; what it says is what it would say with everything read, or it says less; an
  unhealthy pod and the newest Event are never lost to a cap, a tie or a skip.
* Cluster health: healthy only if everything was read; a problem is not dropped silently by
  a limit; the most urgent are diagnosed first; a cause meets its own issue, in any order of
  completion; the report ends.
* Correlation: only the API server's own word is "confirmed"; what is unhealthy has a root
  cause, and nothing is ranked above it.
* Graph: what a cap leaves out is announced.
* Resolver: its requests come to the object the name stands for, or to the right refusal; a
  refused request is never answered as "not found".

## Modules

| Module | What it is |
|---|---|
| `ConfirmationStore` | the store: its map, the clock, one action per outcome of each method |
| `OneShotGrant` | what the store promises: an offer that is spent once or voided |
| `ConfirmationStoreProps` | the store's properties, inductive invariant and refinement mapping |
| `ConfirmationStoreProofs` | the TLAPS proofs about the store |
| `ConfirmationAnswers` | the store together with the error each call returns |
| `ActionEngine` | the write tools over the store, in clusters that change; EXTENDS `ConfirmationStore` |
| `ConfirmedWrite` | what the write path promises: offered, claimed by one, written once or never |
| `ActionEngineProps` | the engine's properties, inductive invariants and refinement mapping |
| `ActionEngineProofs` | the TLAPS proofs about the engine |
| `DiagnosisFanout` | how a diagnosis fans out to pods and jobs, and what its tasks read through the call's cache |
| `DiagnosisFanoutProps` | its properties and inductive invariant |
| `DiagnosisFanoutProofs` | the TLAPS proofs about it |
| `Health` | the health contract: `Evaluate`, `Combine`, and health from counts |
| `ClusterHealth` | one cluster health report: lists, issues, candidates, gated deep diagnoses |
| `ClusterHealthProps` | its properties and inductive invariants |
| `ClusterHealthProofs` | the TLAPS proofs about it |
| `Resolver` | how a name becomes an object, and what k8s_find, k8s_get and k8s_diagnose do with it |
| `Correlation` | signals, their classification, the confidence and rank of a hypothesis, the assembly of an answer |
| `Evidence` | what Events and logs say; EXTENDS `Correlation` |
| `PodAnalysis` | what is read about a pod and made of it; EXTENDS `Evidence` |
| `ResourceGraph` | the graph builder of each kind; EXTENDS `PodAnalysis` |
| `KindAnalysis` | what is read about each kind and made of it; EXTENDS `ResourceGraph` |
| `Diagnosis` | a k8s_diagnose call from the name to the answer; EXTENDS `Resolver` and `KindAnalysis` |
| `DiagnosisProps` | its properties |
| `ResolverProofs` | the TLAPS proofs about the resolution |
| `DiagnosisProofs` | the TLAPS proofs about what a diagnosis reads, its graph and its answer; EXTENDS `ResolverProofs` |
| `ExplanationProofs` | those about hypotheses: root causes and confirmations; EXTENDS `DiagnosisProofs` |
| `SightProofs` | those that compare an answer with the one given with everything read; EXTENDS `ExplanationProofs` |
| `MC*` | instances for TLC |

A definition whose comment says "Mutant of X" stands just before X. It is X with a bug put
in, and is used only to see that the properties notice.

### ConfirmationStore

`items` is `Store.items`. `Put`, `PutFails` (no entropy), `TakeMissing`, `TakeExpired`,
`TakeMismatch` and `TakeOK` are the ways `Put` and `Take` end. Every method holds
`Store.mu` throughout, so a call is one step. What the mutex does not stop is the clock.
Each method reads it twice, in `gcLocked` and then to stamp or check, and the second
reading may be up to `Drift` later. `Restart` is a new process with a new map.

`issued`, `uses`, `grant` and `sweptAt` are history variables: no action reads them except
`Put`, whose `issued[id] = Absent` says that `newID`'s 128 random bits do not repeat.

A plan's identity is (action, object key, context, UID, parameters, HPA seen). The replica
count, grace period and cordon flag of `Pending` are one field `args`, because an action
uses one of them. `Risk`, `Reason`, `force` and the restart category are not in `bindMatch`
and are not in the plan.

### ActionEngine

A handler goes through `idle -> ssar -> get -> preflight -> confirm -> reread -> recheck ->
mutate`. Each step is one request to the API server (or one call of the store) with the
conditions the code tests on its answer. The four functions of `engine.go` share this order.
What differs between them is in operators of the action: `ArgsRefused`, `NotRecommended`,
`PDBBlocks`, `OwnedByHPA`, `LastNode`, `NewHPA`, `Changed`. `job[h]` holds the locals the
code carries from one request to the next: the UID of the first GET, whether the node was
schedulable, whether an HPA was seen, the stored plan.

`objs`, `hpa`, `pdb` and `denied` are the clusters. They are changed by `Mutate` and by
`ClusterMoves`, that is by everyone else, at any point, `MaxMoves` times. A name that is
recreated gets a new UID. Any request may fail (`error` or `preflight_failed`); a mutation
may be applied and its answer lost. `ServerRestarts` ends every handler, empties the store
and may change `ACTIONS_ENABLED`.

`changes` (what was written under each id) and `calm` (`<<h, p>>` while no cluster has
changed since handler h was at p) are history; no action reads them.

What is simplified: the risk, blast radius and wording of answers are left out. `uncordon`
has no check, as in the code. Scaling and restarting leave the modelled object as it is,
since no later check reads the replica count or the annotation. A deletion takes effect at
once, without a grace period. HPAs and PDBs are kept by the name of their target; the two
HPA lists (v2, then v1) and the PDB list with its selector match are each one read. RBAC is
a set of refused (context, action) pairs. The pods `inferRestartCategory` reads are a free
choice of its result in `Preflight`. The refusal for a new HPA is folded into
`preflight_failed`. The kind of `Engine.Cluster` being nil (tests only) is left out.

### DiagnosisFanout

A `Diagnose` call is a tree of tasks: the call, the jobs of a CronJob (`diagnoseCron`), the
pods of a job or workload (`deepPodSignals`). A task lists its children (`list`), waits for
them in `runBounded` (`wait`), then reads through `apiCache.get` (`read`, `load`, `check`,
`store`), and is `done`. `Spawn` starts a goroutine per child; an only child runs in its
parent's goroutine, with no semaphore and no look at the context. `Enter` is the second case
of the `select` and `Skip` the first; when both are ready either may be taken, so a child may
still start after the context is done. `Children` is what is left after `MaxDeepPods`.

`LookUp`, `Load`, `Check` and `Store` are the pieces of `get` between its two critical
sections. `Store` replaces what another task stored in the meantime, as the code does. An
answer's kind is where it comes from, finer than what `get` tells apart: the API server's
answer ("not found", refusals and its other errors included), the one error of the server's
that `apierrors.IsTimeout` knows, the REST client's timeout or a lost connection while the
call goes on (`unreached`), or the error of a cancelled request (possible only when the
context is done). `version` counts the changes of the object behind a key. `began` and `got`
are history.

What is simplified: a task reads after its children end, though some analyzers read their
node or graph before; keys read twice by one task are read once (the maps of `loadPodDeps`
do the same); reads that bypass the cache (the first GET, the lists of the analyzers) only
matter as `ListFails`.

### ClusterHealth

`Cluster` goes through `list -> rank -> launch -> done`. `ListNext` is one of its seven list
requests with all that is done with the answer: `ListError` (`kube.Record`, an unknown part)
or `Walk` (`pushIssue`, `pushHealthy`, the candidates). `RankAll` is everything between the
last list and the first goroutine: the combined health, the sort, the cap, the cut. `Launch`
is one turn of the loop that takes a place in `gate`; `Deep`, `Send` and `Release` are the
goroutine; `Receive` and `Enrich` are the two loops after it. `over` is `ctx.Err() != nil`.

The cluster may change between two lists, so each list shows any of the states of its
objects, or not the object at all; `shown` is what it showed. The items of a list come in an
order of the server's, so the issues that fit are any of the right number. `HealthOf` starts
from the severities of an object's status signals. `Rank` stands for the comparison of kind,
namespace and name. `worker` and `result` are the goroutines and their locals; `shown` is
only kept in the code as counts, issues and candidates.

What is simplified: a result's health and confidence go where its category goes and are left
out. `deep` is nil only in tests; the branch of line 385, which needs that test to fail and
then to hold, is never taken. A succeeded pod is skipped by the walk and is here not shown.
The counts of the report are the cardinalities `Part` uses.

### Resolver

`at` is the place in `ResolveFilter`, and each of its requests is a step of its own:
`GetThere` and `ListThere` (a cluster-scoped kind, or an explicit namespace), `ListEverywhere`,
`TryPriority` (the context's namespace, then "default"), `ListNamespaces`, `Search` and
`SearchPrefix` (every other namespace; `todo` is what is left of the loop and `hits` the
slice it fills). `GetAnswers` and `ListAnswers` are what `Classify` tells apart: found or
absent as the world is *now*, forbidden, or failed. Between any two requests `OtherClient`
may create or delete an object. `found` is the `ResolveResult`; `Refused` and `Fetch` are
the tools' handling of it, with the second Get of the object resolved. `seen` is history.

A prefix is a relation between names. Normalisation of a kind's spelling is left out. A kind
that is not in `knownGVR` is looked up by discovery; the mapper cache in front of it is held
under one mutex for a whole look-up, so all that shows of it is an answer or a failure
(`MappingTold`, `Errors`).

### Correlation, Evidence, PodAnalysis, ResourceGraph, KindAnalysis

The pure part of a diagnosis, as operators. A text is the set of those keywords it contains
that the code looks for (`ReasonText`, `Rules`); everything else of a message is left out.
`Category` is `classify`, with its rules in their order, `Confidence` is `build`, `Leading`
the ranking, `Assemble` the assembly of a response.

An object is a record of the fields the code reads, with `there`: what the API server has for
each of the reads. A graph is its set of nodes, its set of edges and its mark of truncation;
a loop that the cap may leave early keeps those of its items that the cap let in (`AddPods`),
and the loop over the ReplicaSets, which has more ways out, is a recursive function of the turn
(`SetsLoop`). `PodPlan` and `Plan` say what is read, in order; `Answers` what each may
come to: its contents, "absent", or a failure, and after the context ended only a failure.
`GraphAnswer` is all of a Builder's requests, of which any set may fail; whether the graph
that was being built is kept, and whether the error counts, differs from request to request
as it does in the code. A read `<<"diagnosis", pod>>` is the diagnosis of a dependent; its
value is any evidence that diagnosis may give (`PodEvidence`, `JobEvidence`), or nothing if
`runBounded` skipped it. How these interleave, and that they share a cache, is
`DiagnosisFanout`.

`Responses` puts an answer together, in the order of the code: the analyzer's signals, the
Events, the assembly, then for some kinds `partial`, a doubt about `healthy`, or an analyzer
that knows better. It is a set, as the winner of a tie of pod reasons is decided by the
iteration of a map (`deployment.go:75`), and what client-go returns beside an error of a
claim's volume is either an empty object or none.

### Diagnosis

`stage` goes `resolve -> read -> answered`. `Resolve` is the resolution and the answers that
need no diagnosis; `Dispatch` the switch on the kind of what was fetched, which may be any of
`Objects` of the scope asked for; `Read` the next read of `Plan`; `Analyze` the answer, with
`demoteConfirmed` for what was found by a prefix. `ContextEnds` may come between any two
reads. `Dispatch` forgets what only the resolution used.

What is simplified: the object and what there is around it stay as they are during one
diagnosis (that answers of one call are of its own time is `DiagnosisFanout`'s subject). The
notes about older ReplicaSets and their Events that are added to a Deployment's evidence
after the analysis, impact and summary texts, recommendations, and the text of the graph are
left out.

## Properties and runs

| Run | Instance | What it shows |
|---|---|---|
| `store` | 2 ids, 4 requests (an object, its successor, its UID unknown, the same name in another cluster), clock to 3, `Drift` 1, ttl 0 -> default 1, 1 restart | the invariants of the store, `OnlySpentOrLapsedLeaves`, and that it implements `OneShotGrant` |
| `answers` (violation) | 2 ids, ttl 1 | `Take` does not answer `confirmation_expired` to an expired id |
| `engine` | 2 handlers, 1 id, 10 calls over every tool, 1 change of the cluster | writes are the confirmed ones, once, and safe when calm |
| `engine_life` | 2 handlers, 1 id, 3 clusters (one out of reach), clock to 2, 1 restart, `ACTIONS_ENABLED` on or off | types, refinement of `ConfirmedWrite`, `StoreSpec`, `DisabledWritesNothing`, `CallsReturn` |
| `recreated` (violation) | 1 handler, 1 change of the cluster | an object recreated after the re-read is written |
| `last_node` (violation) | 2 handlers, 2 ids, 2 nodes | two concurrent cordons leave no schedulable node |
| `fanout` | a CronJob of 2 jobs (2 pods, 1 pod) and a second call; 1 slot; 1 key, 1 change of its object | `FanoutsBounded` (children and their children), joins, `EndNotKept`, `AnswersOfThisCall`, `CallsEnd` |
| `cluster` | 6 objects (2 pods of one name in two namespaces, a Deployment of that name too), 3 issues of room, cap 3, gate 2, 1 failed list | `HealthyOnlyIfRead`, `NothingUnlisted`, `WorstFirst`, `EnrichedAsDiagnosed`, `ReportEnds` |
| `masked` (violation) | the same | a failed workload list makes the cluster unknown although a Deployment is critical |
| `unexplained` (violation) | the same | the cause found for a claim never meets its issue |
| `diagnosis` | 3 namespaces, 3 names (two begin with the third), 11 questions, 39 worlds, 1 change by another client; 47 objects of eleven kinds; 2 Events, graph depth 2 and 6 nodes, 2 deep diagnoses | `AnswerTrue`, `RefusalIsTold`; `HealthyIsTrue`, `NothingInvented`, `TruncationTold`, `UnhealthyPodSurfaces`, `UnhealthyIsExplained`, `ConfirmedHasProof`, `LatestEventTold` |
| `unseen` (violation) | the Jobs and CronJobs of these | an active Job whose pods cannot be listed is healthy, with status success |

**Bounds.** `MaxTime`, `Drift`, `MaxEpoch`, `MaxMoves` and the sets of calls and ids are
bounds. Time to 3 with a ttl of 1 lets an offer be made, redeemed at its deadline, and found
lapsed by the sweep and by the check. Two ids let a sweep in a call about one drop the
other. Two handlers and one id are the smallest race for an id; `last_node` has two ids,
since its race is between two confirmed writes. One change of the cluster, which may fall
between any two requests, is enough for each check to be overtaken; what more changes do
is covered by the proofs, which bound nothing. Symmetry is used on handlers and ids, only
in runs without a liveness property. Deadlock is not checked: past the bounds, an idle
server with nothing to do is a state the system may stop in.

In `fanout` one slot per fan-out makes children queue, so that a nested fan-out at the limit
is reached, and a job with one pod takes the inline path. One key read by pods of both jobs
and by the other call is enough for two tasks to load it at once and for one to replace the
answer of the other; one change of its object tells the two answers apart.

In `cluster` more objects can be unhealthy (6) than there is room for (3) and than the cap
takes (3), and more are diagnosed than the gate admits (2), so that each limit bites and the
handler waits at the gate while results wait in the channel. One failed list is enough to
make a part unknown; the proofs bound the failures by any number.

In `diagnosis` three namespaces are the context's, "default" and one that only the search
reaches; the worlds have the name in none, one or several of them, alone or beside a longer
one. Every read of every object may fail, in any combination, and the context may end
between any two. The caps are small enough that Deployments, sets and Services exceed each
of them, and that there are more Events than are kept. The properties compare an answer with
the one the same analysis gives with everything read (`Everything`): `HealthyIsTrue` for
the kinds whose visibility the code keeps for all but logs and metrics (Pod, Deployment,
Service), `NothingInvented` for those whose failed reads are no findings. `HealthyIsTrue`
takes as they were read what is no part of that visibility (`Unjudged`): logs, metrics and, for
a Service, its pods' diagnoses, whose failed reads are not in the Service's own visibility.
The objects' messages use the words that confirm a category for nothing else
(`MCPlainlyWorded`, evaluated with the run), which `ConfirmedHasProof` needs.

**Fairness.** `FairSpec` asks weak fairness of each handler's `Serve`, and nothing of
clients, the clock or the cluster. The code justifies it: each tool call runs under
`kube.WithTimeout`, so that a request is answered or fails, and the store's mutex is never
held over a request. In `DiagnosisFanout` it asks the same of each task's `Step`, which a
blocked goroutine does not have; whether the context ends is left open. In `ClusterHealth`
it asks it of the handler and of each goroutine: the lists and diagnoses are made of
requests that are answered or time out, and a send or a wait at the gate is not
enabled while it blocks. `Diagnosis` states none: a call is a loop over a finite plan, and
its one chance of blocking, the fan-out, is `CallsEnd` of `DiagnosisFanout`.

**Findings.** Six things the documentation says do not hold of the code; see
`PROJECT.json`. The two about writes have one cause: the last mutation is made by name,
with no UID or resource version, so that what was checked may have changed.
`CalmWriteIsSafe` says exactly how much of the promise is kept: everything but that window.

## Proofs

The theorems hold for every value of the constants that meets the named assumptions of the
modules: well-typed constants; special values that are not members of the sets they are used
beside; an upper bound on moves that makes the set of UIDs large enough; of the objects
(`ObjectAssumption`), that lists are sequences; that every pod is in one of the five phases and
refers to objects of the sorts a pod spec can name; that the pods of a list of one namespace
differ in name, as the API server sees to; that a Deployment has a list of ReplicaSets, empty
or not, and that a CronJob's jobs are Jobs.

* `ConfirmationStoreProofs`. `StoreInv` is inductive: the type invariant, `HistoryInv` (an
  id never issued has no trace; no id is from a future process) and the six properties.
  `SingleUse` is not inductive alone. It needs `EntriesGenuine`: what the map still holds has
  not been spent. It is a theorem of its own, `EntriesGenuineHolds`, as is
  `NothingStaleKeptHolds`. `LiveOfferKept` needs `NothingStaleKept`'s facts about the sweep. One lemma
  per method, a QED by `PTL`. `StoreImplementsGrant` maps each method to `Offer`, `Spend` or
  `Void` of the ids its sweep dropped.
* `ActionEngineProofs`. `UsesTheStoreHolds`: every step of the engine is a step of the store
  or leaves it alone, so what is proved of the store holds of the engine. `ClaimInv` adds
  what a handler knows between `Take` and the mutation: its id is spent, was issued for this
  call, is held by nobody else and has not been written under. `WritesAsConfirmed` follows.
  `CalmInv` says what a handler has read is still so while the cluster is calm;
  `CalmWriteIsSafe` and `CalmDeleteSparesProtected` follow from it.
  `EngineImplementsConfirmedWrite` is the refinement.
* `DiagnosisFanoutProofs`, for every tree of tasks and every limit, zero included.
  `JoinedBeforeReading` and `SlotsBounded` (of one fan-out) are inductive with the types; they
  rest on each task having one parent. `FanoutsBounded` follows by counting: a child whose own
  children are at work is at work itself (`AtWorkUnderWork`), so there are at most
  `MaxConcurrentK8s` such children with at most as many below each (`ProductBound`). `HeldInv` says that what the cache holds, and what a task holds
  between its request and the return of `get`, is of the time of the call; `EndNotKept`
  and `AnswersOfThisCall` follow by an induction of their own.
* `ClusterHealthProofs`, for every set of objects and every limit. `InventoryInv` says that
  the candidates are the unhealthy objects shown so far, kinds not yet listed show nothing,
  and the issues fit; with `RankInv` (health and candidates are what ranking makes of that)
  it gives `NothingUnlisted`, `HealthyOnlyIfRead` and, by counting what comes before an
  object in the sorted list, `WorstFirst`. `ResultsInv` says that a result is with its
  goroutine, in the channel or taken, in one place only, and that the handler's counter is
  the number taken; so when the counter reaches the number of candidates all are in, and
  `EnrichedAsDiagnosed` follows since kind, namespace and name tell objects apart. That
  exactly `Cap` candidates are taken of more than `Cap` needs an induction on the sorted
  list and is not stated.
* `ResolverProofs`, for any namespaces, names, questions and worlds. `ResolverInv` has the
  types, what the question must be for the call to be where it is, that nothing is found
  before the resolution has ended, and that a refusal ends it as permission_denied;
  `RefusalIsTold` follows. `SearchInv` is about calls that are calm (every request answered,
  no other client in between): the way that was taken, where the name was looked for in
  vain, and that the hits are those of the namespaces passed. With it each state of
  ResolveFilter that ends the call ends it with what the name stands for, which is
  `AnswerTrue`.
* `DiagnosisProofs`, for any objects, limits and failures. `ReadingInv` says that what was
  found is what there is, and that nested evidence is all warnings; `AnswerInv`, that the
  answer is one the analysis comes to of it; `DeepInv` and `AllReadInv`, that a nested diagnosis
  is one its item may come to, that the item is of a list that was read, and that no answer is
  given before the plan is read (`SeenInvHolds`). The rest is about operators.
  `DiagnosisTypes` is the type invariant.
  * `Upheld` says that the marks of a partial view, a truncation and a prefix keep the signals
    and any health but "healthy", so what the signals say reaches the client.
    `UnhealthyPodSurfaces` follows since a majority reason is a critical signal, and without
    one some unhealthy pod has a diagnosis, as the reason of a pod without one is never empty
    (`WaitingIsSaid`; it needs the phase).
  * `LatestEventTold` follows since the limit is at least one and keeps the end of the list.
  * `TruncationTold`. `GraphInv`: what was read as the graph is what its builder makes without
    some of its requests. `Grown` says that a graph only gains nodes and edges and never loses
    its mark. `AddPods` without a mark has added every pod (`PodsTold`): the first that the cap
    keeps out leaves one. So has each turn of the loop over ReplicaSets (`TurnIsSound`), and
    then the whole loop, by the least turn at which that fails; that the recursive function
    exists is proved the same way (`LoopIs`). The cap on diagnoses is a count: the first
    `MaxDeepPods` unhealthy pods are all of them unless there are more (`AllAreTaken`; it needs
    that pods differ in name, since a diagnosis is kept by its pod's name).
* `ExplanationProofs`, about hypotheses.
  * `UnhealthyIsExplained`. The objects that signals are about are finitely many
    (`FiniteAbout`, through every kind and every nested diagnosis), so the ranking, which
    compares numbers and then names, leaves a hypothesis that nothing is above (`OneLeads`,
    by a least element); and a signal worse than informational always has a category
    (`BadHasCategory`), so there is a hypothesis to rank.
  * `ConfirmedByStatus`, a property of its own with no hypothesis on the objects: what is
    confirmed was found by its full name (`HowInv`) and a signal taken from a status or a
    condition is why.
  * `ConfirmedHasProof`. Every signal from a status or a condition is `Backed`: the words in it
    that confirm a category stand for a reason that the status of a pod below gives. That is
    proved kind by kind and for nested evidence at both depths. It assumes that messages are
    `PlainlyWorded`. Without that it is false of the code: `classify` and `build` look for
    substrings, so the message of a Deployment's condition that names a container
    "crashloop-exporter" confirms a crash loop. The theorem names the hypothesis; the
    run evaluates it of its objects.
* `SightProofs`, the answer against the one with everything read.
  * `HealthyIsTrue`, for Pods, Deployments and Services. A healthy answer has no bad
    signal (a pod's has none at all) and no read that the visibility records has failed
    (`HealthyPodSeen`, `DeploymentHealthy`, `ServiceHealthy`); a failed list of Events is itself
    a bad signal. So what was read is what there is
    (`UnfailedIsThere`), the reads `Everything` asks for are those that were made (`PodOnlyInv`,
    `SeenAgain`), and the analysis comes to the same. A healthy Deployment has no unhealthy pod,
    and so no diagnosis that could have missed something.
  * `NothingInvented`, for Pods, StatefulSets, DaemonSets, Jobs and CronJobs. `Within` says that
    one reading fails where another does not and agrees with it elsewhere; signals other than
    of Events and scheduling (`Sure`) grow with the reading (`PodSure`, `OwnerSure`), first for a
    pod, then for the pods of a job, then for the jobs of a CronJob.

Only model-checked: `CallsReturn`, `CallsEnd` and `ReportEnds`, as liveness under fairness is
out of TLAPS's reach. Every invariant, action property and refinement of a passing run has a
theorem. The prover has no induction over data; where a proof needs one (a least hypothesis,
the turns of a loop) it takes the least of the counterexamples instead (`LeastOf`).

## Plan

1. done: `ConfirmationStore`, `OneShotGrant`, their properties and proofs.
2. done: `ActionEngine`, `ConfirmedWrite`, their properties and proofs.
3. done: `DiagnosisFanout`, its properties and proofs. What bounds a whole call is the
   product of the limits of nested fan-outs, not `MaxConcurrentK8s` itself
   (`docs/architecture.md:160` speaks of one bound).
4. done: `Health`, `ClusterHealth`, its properties and proofs.
5. done: `Correlation`, `Evidence`, `PodAnalysis`, `ResourceGraph`, `KindAnalysis`,
   `Resolver`, `Diagnosis`, their properties, and the proofs about the resolution, the
   reading, the graph and the answer.
6. next: an abstract specification of a diagnosis, that is, a reading that only grows and
   an answer given once, with `Diagnosis` shown to implement it; and that ranking takes exactly
   `Cap` candidates of more than `Cap`.

## Modelled as it is

Some of what the code does is not what a reader of its documentation or of a name expects.
The model does it as well; where a property would otherwise say something else, its
definition says what it leaves out.

* Resolution. If listing the namespaces fails, the fallback may name one namespace twice, and
  an object found there by a prefix is "ambiguous" (`resolver.go:121`). A namespace whose
  request fails for the moment is passed over; the list over all namespaces answers
  permission_denied to any error; an explicit namespace that cannot be read for the moment
  is not_found. A custom kind the discovery does not tell is searched in every namespace, and
  a cluster-scoped object found in each is "ambiguous". To k8s_get every error of the second
  Get is not_found.
* Reads that fail. An Ingress's Service, Secret or class that may not be read is missing. A
  Service whose pods cannot be listed has none, which is critical; what its pods' diagnoses
  could not see is not in its visibility. A claim bound to a volume
  that is gone is healthy. Unread logs leave a pod healthy.
* Caps. Unhealthy pods of a StatefulSet or a DaemonSet beyond the cap are not told. The graph
  of a Service or a CronJob, and the objects a pod spec refers to, exceed `MaxGraphNodes` with
  `truncated` false. Of a Deployment's graph, a failed list of HPAs is ignored; any other
  failed list ends the building of it.
* The cache of a call. `apierrors.IsTimeout` knows neither the REST client's own timeout
  (`client.go:100`, 15 s by default of the 45 s of a call, which `kube/errors.go:76` calls
  TIMEOUT) nor a lost connection. With the call still alive both are kept, and every later
  reader of the key is given the error without a request; `EndNotKept` is of the errors
  that come of the call's end and says so. `MaxConcurrentK8s` bounds each fan-out by itself, and
  what runs below a CronJob by its square (`FanoutsBounded`).
* Evidence. Nested evidence loses its reason and its category and becomes a warning: a
  CronJob that owns any job is never healthy, and a job's signals are classified by the words
  of their messages. The status of any job is classified as BACKOFF_LIMIT_EXCEEDED, as its
  message says "backoffLimit=" (`job.go:38`), and a CronJob's own signals are not of the
  category Job (`job.go:74`). That a CronJob was never scheduled is kept from a client who is
  told of a failed job, and told when its jobs could not be listed: `NothingInvented` leaves
  it out. The pods with a diagnosis count under the empty reason, which suppresses the
  majority. A status condition whose message holds a confirming word in a name confirms
  (`PlainlyWorded`). Informational signals are classified: a Ready condition, a job's status.
  Events are cut to the newest before the harmless ones are filtered out. An ExternalName
  Service tells no Events (`service.go:41`). A pod evicted from the current ReplicaSet makes
  a Deployment with all its replicas critical.
* Scheduling. The operators Gt and Lt match no node, nodes of unknown readiness are eligible,
  a toleration without operator tolerates any value, and a cordoned node shows as
  NO_ELIGIBLE_NODE.

## Not modelled

Redaction (regular expressions), configuration parsing, the MCP transport, the tools that
are one list and its formatting (events, logs, resources, contexts), the scan of log lines,
wording of summaries and recommendations, kubeconfig loading and the choice of a context
(`kube/client.go`), the mapper cache's reload (one mutex for a whole look-up), owner chains
(`graph/owners.go`, called by no builder), metrics and logging of the server itself, version.
