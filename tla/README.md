# A formal model of kube-janitor

kube-janitor is a Kubernetes controller that looks for ConfigMaps and Namespaces
nobody needs any more and reports or deletes them. A wrong deletion is not
undone, and whether one happens depends on interleavings a test hardly reaches:
the janitor decides about a *cached copy* with several separate remote reads,
and the cluster moves between any two of them. This directory holds TLA+ modules
of the janitor's pipeline, TLC configurations that check them on small instances
and TLAPS proofs of what matters most for every instance.

Paths below are relative to the repository (`src/` in `PROJECT.json`).

## 1. Inventory

| component | state | operations |
|---|---|---|
| domain types, policy API (`internal/domain`, `api/v1alpha1`) | none | – |
| classifier (`internal/classifier`) | none | six strategies and the chain that asks them in order |
| resolvers (`internal/resolver`) | the registry, fixed at start | find the workloads that refer to an object, by live reads |
| policy engine (`internal/policy`) | the global dry-run flag | `Evaluate(finding, policies)` |
| executor (`internal/action`) | none of its own; it writes to the cluster | `Execute`: checks, re-GET, more checks, DELETE by name |
| reporter (`internal/report`) | none | one Event per finding |
| reconcilers (`internal/controller`) | the request in progress | `Reconcile`: fetch, classify, list policies, evaluate, execute, report, requeue |
| configuration (`internal/config`) | settings, fixed at start | `Default`, `Validate` |
| manager (`cmd/manager`) | wiring | builds the chain, starts both controllers |
| metrics, tracing, logging (`pkg`) | counters | – |
| *external*: API server, users | objects, owners, workloads, policies, the clock | create, edit, delete, the cascade from a Namespace |
| *external*: informers, work queue, leases | the caches; the queue, its dirty and waiting keys | watch events, `Add`, `Get`, `Done`, timers |

**Interaction.** A watch event, the scan interval (`RequeueAfter`) or a retry puts
a key in a controller's queue. The one worker of the controller calls
`Reconcile`. It copies the object from the informer's cache, and the classifier
asks the strategies in the order *protection, finalizer, TTL, expires-at,
ownerReference, resolver*; the last two read the API server directly, one GET per
owner, then a list of Pods and (Namespaces only) one of Deployments. The
reconciler lists the policies from the cache and keeps those of its kind, the
engine turns the finding into a decision, the executor carries it out and the
reporter emits an Event. An error anywhere ends the reconcile; the queue retries.

**What is hard, and what makes each part correct.**

| component | hard behaviour | correct when |
|---|---|---|
| classifier | the order of the chain is what makes protection win; boundaries of TTL and dates; malformed annotations | the class is the one the specification asks for; time alone never takes a finding back |
| policy engine | dry run decided in three places; several policies, order of the list; thresholds | a deletion was asked for; a rehearsal is faithful; a foreign policy has no say |
| executor | check-then-act over two calls; replicas; lost answers | a deletion passed every check on the object that is then hit; it is counted once |
| reconcilers | stale copy, stale policies, reads at different times, failures, crashes, retries | no deletion of what the cache knew protected, before its time, of owned objects, or under dry run; a finding is what the API server's answers make of the copy; an expired object reported deleted is gone, one reported rehearsed untouched |
| resolvers | several reads that are no snapshot; some of them fail | what something referred to all the while is found; nothing is called abandoned on an unanswered question |
| queue, informers | expiry, policies and finalizers cause no event; missing objects; retries of what always fails; restarts | no key is lost; what has expired goes at last |

`PROJECT.json` lists every hazard at its line with the properties that cover it.

## 2. Modules

```
Domain ── Classifier ─┬── Classification                   PipelineProofs, StageProofs
   │                  ├── Resolver                         ResolverProofs
   │                  └──────────────┐
   ├───── PolicyEngine ──────────────┤
   │            └──────── Evaluation │                     PipelineProofs, StageProofs
   ├───── Reporter ──────────────────┼─ Janitor            JanitorProofs, ReportProofs,
   └───── Cluster ──── Executor ─────┘     │               FindingProofs
                          │                └─ Controller   ControllerProofs
                     SafeDeletion              │    │
                     (abstract)            Config  WorkQueue   ExecutorProofs
```

`MCClassifier`, `MCPolicyEngine`, `MCResolver`, `MCExecutor`, `MCJanitor` and
`MCController` are the instances TLC checks.

- **Domain**: keys, metadata, objects, findings, decisions, policies, reduced to
  what the code looks at. Confidences are percentages, times are ticks, UIDs are
  numbers in creation order.
- **Classifier**: the strategies as operators with what they read as parameters,
  and `FirstDecisive`, the loop of `classifier.go:57-79`. `ClassifyLocally` is the
  part before the first remote read, `ClassifyWith` the whole chain once its reads are
  answered, `Classify` the whole chain had it one instant for all its reads.
- **Classification**: one object in front of the whole chain while the clock ticks and
  the owners and workloads around it change; the chain classifies it in every state.
- **PolicyEngine**: `Evaluate` with the override annotation, the choice of the
  policy, modes and default thresholds.
- **Evaluation**: one finding in front of the engine while policies are created and
  deleted and the cache lists them anew, in any order; the engine decides in every state.
- **Reporter**: the reason of the Event.
- **Cluster** (external): users create, edit and delete objects, finalizers
  delay removal, a terminating Namespace admits nothing new and takes what is in it
  along (`Cascade`), owners die and return under another UID, workloads and
  policies change, the clock ticks. Written from what the janitor's client calls
  rely on.
- **SafeDeletion**: what a caller of the executor may rely on, without keys,
  metadata or calls: nothing is struck without a warrant, a warrant is issued for an
  object that is free to go and in no sanctuary, and it never reaches an older
  object. `Executor` implements it (`ImplementsSafeDeletion`): the warrant is the
  object the re-GET saw.
- **Executor**: `Execute` as `Execute`, `ReGet`, `SendDelete`, `Return`. Each
  remote call may fail; the answer of a carried-out DELETE may be lost. `Die`
  forgets everything and undoes nothing. `ExecutorSpec` closes it with callers
  that hand in *any* finding ever made and any decision.
- **Janitor**: both reconcilers. `cache` and `listing` are the informers' stores,
  `snap` the copy being reconciled, `pc` the position in `Reconcile`:

| action | code |
|---|---|
| `Fetch`, `FetchMissing`, `FetchFails` | `configmap_reconciler.go:43-51`, `namespace_reconciler.go:54-69` |
| `ClassifyCopy` | the first four strategies on the copy |
| `LookUpOwner` | one `Get` of `ownerref_strategy.go:56-82` |
| `ListPods`, `ListDeployments` | `configmap_resolver.go`, `namespace_resolver.go` |
| `ReadFails` | the error returns of the reads |
| `Act` | list the policies, `Evaluate`, `Execute` up to its first remote call |
| `ExecutorStep` | `ReGet`, `SendDelete` |
| `Finish` | the error of `Execute` or the report |
| `Forget` in `Requeue`, `Crash` | the return of `Reconcile`; the end of the process: its locals are gone |
| `SyncObject`, `SyncPolicies` | an informer catches up |

  `live` and `answers` remember what the API server answered to this reconcile: the
  owners it found alive (a set the strategy keeps too), and for each list of workloads
  whether it was asked and came back with one. `answers` is a history variable, which
  no action reads: the finding is taken from the answer of the last list alone, as in
  the code, and `Referenced` and `FindingsAreOfTheChain` compare it with all of them.

- **Resolver**: `ResolveAll` as a walk over the three resolvers in the order of
  their registration. `GetOwner`, `ListPodsOfConfigMap`, `ListPodsOfNamespace` and
  `ListDeploymentsOfNamespace` are one remote call each, `ResolverFails` is any of
  them failing, `Judge` is `ResolverStrategy.Classify`. `WorkloadsMove` may come
  between any two. Three history variables remember which references held
  throughout, which held at some time and which questions were answered. In
  `main.go`'s chain the `OwnerRefResolver` never gets an object with owners, because
  the ownerReference strategy always decides first; the registry is modelled as
  the API it is.
- **Config**: the settings, their defaults and `Validate`.
- **WorkQueue** (external): client-go's queue for one worker: a key that is dirty
  or in process is not queued twice, and is queued again when it is done.
- **Controller**: `Janitor` fed by the queue. `Deliver` is a watch event with the
  cache's update and the event filter, `Take` and `Begin` start a reconcile with the
  key the queue gives, `Proceed` are Janitor's steps, `End` is the return of
  `Reconcile` and what the queue does with it, `Fire` a timer of `RequeueAfter` or a
  backoff, `Restart` a new process with new settings, an empty queue and the first
  list. It implements `Janitor`: what is shown of the janitor with keys taken at
  any moment holds of the controllers.

### Abstractions

- *Caches.* A cache entry jumps to the server's present version at any time and
  stays behind for any time. An informer may also pass through versions in
  between; the jump to such a version taken at the moment it was current is the
  same behaviour. `List` on a cache returns its map in any order.
- *Workers.* One worker per kind and manager (`MaxConcurrentReconciles` is not
  set), each with a cache of its own. In one process the two controllers share
  the process and the policies' cache; letting each crash and lag by itself only
  adds behaviours. `--dry-run` belongs to the process: a restart may change it, and
  replicas may disagree. Leader election is off by default, so replicas may overlap.
- *Queue.* In `Janitor` a key may be taken at any time: more behaviours than the
  queue admits, sound for safety. In `Controller` the queue decides; its timers have
  no times and may fire at any moment, early or late.
- *Two events in one.* `Deliver` goes from the cached version to the present one.
  When the object was deleted and created again in between, the filter compares the
  two, and no event is queued for a recreation with the same labels and
  annotations: fewer events than the informer gives, so that what is shown to be
  found is found without them.
- *Metadata.* The protection annotation is missing, `true`, or true in another
  case; the override one of the known values or another; finalizers are the
  janitor's or foreign; TTLs and dates are integers, absent or malformed.
- *References.* "A Pod refers to the ConfigMap" stands for all the fields
  `configmap_resolver.go` looks at; "a Pod is in the Namespace" for one running or
  pending. `Resolver` has the Pods one by one with their phase and the ways they use
  the ConfigMap. What more than one Pod or Deployment would add to the list of
  references is wording.
- *Cached copies know their kind.* The resolvers' `Handles` and the reporter read
  the kind from the object that `Client.Get` filled; that it is set is a property of
  controller-runtime's cache the models rely on.
- *Re-GET.* It replaces the copy it decodes into; no field of the copy survives.
- *Clock.* One clock; a TTL check reads it in `ClassifyCopy`.
- *Termination.* Edits of a terminating object that matter are those that end
  it, `FinishTermination`. A deleted Namespace stays, terminating, until then.
- *Constants.* The default TTL is zero and the protection strategy has no labels
  in `main.go`; both stay parameters. A policy's mode is one of the enum's values,
  which the CRD validates.
- *Unread fields.* No code reads a policy's `selector` beyond its kinds, nor `ttl`,
  `protection`, `orphan`, `prNamespace`, `reporting`; the models leave them out. Nor is
  `DefaultDeleteConfidenceThreshold` passed to the engine: `Config` validates it and
  nothing else uses it.

## 3. Runs

The bounds of every run are in its `.cfg`. `MaxUid` bounds the objects (and
owners) ever created, `MaxTime` the clock, `MaxPolicies` the list.

### Runs that pass

| run | question | instance, and why it is enough |
|---|---|---|
| `classifier` | does the chain give the class the specification asks for, and does time never take a finding back? | every combination of the metadata, for a ConfigMap, one in a protected namespace and a protected Namespace; the clock crosses every boundary (TTL -1, 0, 1, date 2, clock 1..3) |
| `policy_engine` | are deletions asked for, rehearsals faithful, foreign policies without influence? | every finding the chain gives, every override, lists of up to two policies in either order, made, changed and emptied, with thresholds below, at and above the confidences; a third policy can only be one the first two already stand for (before or after the match) |
| `executor` | do the checks cover the deletion, is it counted once, is it a safe deletion? | two symmetric replicas, a ConfigMap and the protected Namespace, two UIDs: enough for delete, recreate and for both replicas between re-GET and DELETE; the refinement of SafeDeletion is checked on the same instance |
| `resolver` | is what refers to an object all the while found, is the evidence real, is every question answered before an object is called abandoned? | a ConfigMap, one with a live and an unparsable ownerReference and a Namespace, looked at one after the other; two symmetric Pods that use the ConfigMap in a way that counts or in one that does not, a Deployment, an owner: one workload may come and another go between any two reads, and a reference of one look be there in the next |
| `janitor_expiry` | no early expiry, no deletion of a protected copy, honest reports; is a finding what the chain makes of *all* the answers it got? | a Namespace with four manifests (TTL, date, protected with TTL, malformed), a ConfigMap in it and a Deployment that comes and goes between the lists, two UIDs, two ticks: the times of both manifests are crossed, and the object may be replaced once, or be deleted by a user between any two steps |
| `janitor_references` | deletions justified, owned objects left alone; no deletion under `--dry-run`; does the chain in steps find what it finds in one piece; the inductive invariants; the refinement of Executor | a process starts with either value of the flag and may change it when it restarts; plain, owned and self-deleting manifests, an owner that dies and returns, Pods, two policies that replace each other |
| `controller` | is a key ever lost, is a reconcile of what has expired ever diverted, does what has expired stay, is a terminating Namespace deleted again? | a Namespace that expires, with a foreign finalizer or without, and one whose date never parses, in one queue; a policy that is edited from Report to Delete and back; two UIDs, so that either may be missing and come back; settings with a scan interval of zero are on offer and refused |

`TerminatingIsLeftAlone` speaks of the copy: while the cache lags, a Namespace
that terminates may be sent a second, harmless DELETE.
`DeletionFromCleanCopy` speaks of the copy for the same reason, and the
run `janitor_protected` shows what that leaves open. `FindingsAreOfTheChain` compares
the chain as the reconcilers run it, with the cluster, the clock and the caches moving
between its reads, with `ClassifyWith`: the same strategies in one piece, at some time
not later than now, over the owners recorded in `live` and the workloads recorded in
`answers`, so that a list that is skipped or whose answer is turned round breaks it. It
adds that a finding *abandoned* means that every list the resolvers have for that kind
was asked and came back empty. One run has the Namespaces with their second list, the
other the ConfigMaps with Pods and owners. `ReportsAreHonest` says what an Event lets its
reader conclude. *Deleted*: an expired object, to be deleted for real, and the object
the finding was about is gone or terminating, at that moment and as long as the Event
is the worker's last word; not that it was the janitor who deleted it (see below).
*DryRunDelete*: an expired object that was to be deleted, and no deletion. The other
way round, who deletes an expired object says *Deleted*, who rehearses it says
*DryRunDelete*, and a reconcile that fails says nothing, with a deletion behind it only
when the answer of the DELETE was lost. Objects of other classes are announced by
their class (`reporter.go:96-105`), deleted, rehearsed or left alone alike, and active
ones not at all.
`RipeGoesOn` is what `RipeIsDeleted` needs besides fairness: a reconcile
that sets out for a ripe object from caches that are up to date ends in its DELETE,
whatever events, edits, ticks and other workers do in between, unless a call fails, the
process dies or the object is ripe no more. `DryRunPolicyAnnounces`
needs the threshold written down or left out in both modes *alike*; it holds
because the default for DryRun is the lower one. `SteadyReferenceIsFound` speaks of
a reference that holds throughout: a Namespace whose only workload moves from the
Deployments to the Pods between the two lists, so that it was never empty, can be
found empty (`namespace_resolver.go:71`, `:97`).

The bounds on UIDs, ticks and policies are those of the instances; the theorems of
section 4 lift them for every property of these runs but liveness.

Deadlock is checked in every run.

### Findings: runs that must fail

Each run has one property that states what a comment or document says.

| run | what happens | what is written |
|---|---|---|
| `janitor_active` | a Delete policy deletes a ConfigMap a Pod mounts: the engine looks at the confidence (0.9), not at the class | `types.go:38`, `engine.go:286` |
| `janitor_protected` | protection added after the cached copy is seen by the re-GET and ignored | `docs/adr/0001-use-controller-runtime.md:30`, `types.go:49` |
| `executor_recreated` | an object recreated between re-GET and DELETE is deleted: no UID precondition | `executor.go:29` |
| `janitor_orphan` | an orphan is refused because of the references that make it one, and fails on each reconcile | `executor.go:30` |
| `janitor_cascade` | the janitor deletes an expired Namespace, and a protected ConfigMap in it goes with it | `types.go:49` |

Divergences that show when code and comment are read side by side, without a run:
the protection annotation is compared exactly although the comment says
case-insensitively (`protection_strategy.go:82` against `:17`); a policy's label
selector limits nothing (`engine.go:186` against `janitorpolicy_types.go:42`);
StatefulSets do not keep a Namespace (`namespace_resolver.go:69-119` against `:16`); a
Pod's projected volumes do not hold a ConfigMap, nor does the controller look at them
(`configmap_resolver.go:78-92` against `:12`);
the first listed policy of a kind wins, not the most specific one (`engine.go:7`
against `:174`); the deletion of an object found active emits no Event
(`namespace_reconciler.go:106` against `:25`), and the rehearsal of one found orphaned
or abandoned is announced as the finding alone (`reporter.go:87`);
a policy may lower the confidence for deletions below the 0.9 of
`README.md:77` (`engine.go:274`); mode DryRun compares the threshold that
`janitorpolicy_types.go:131` says it ignores (`engine.go:209`); the Event says
*Deleted expired resource* also when somebody else had deleted the object
(`executor.go:125`, `:161`, `reporter.go:90` against `docs/plans/implementation-gaps.md:22`); a failed DELETE counts two
reconcile errors (`executor.go:164`, `configmap_reconciler.go:78`, `metrics.go:74`).

Every property of a passing run also has a mutant: a definition changed as a
plausible bug would change it, kept beside the original under the name
`Original_Change`, for which TLC finds the property violated.

### Fairness

Only `ControllerSpec` states fairness, all of it weak:

- `WorkerStep(w)`: controller-runtime runs each worker in a loop that ends with the
  process, and every client call returns (an error, if need be, by its deadline).
- `Deliver(w, key)`, `DeliverPolicies(w)`: informers watch, and list again when a
  watch breaks.
- `Fire(w, key)`: a timer that was set goes off.
- the clock ticks up to its bound.

Nothing is assumed of users, administrators, restarts or of failing calls: an API
server that fails each time, or a process that dies again and again, deletes nothing.
`RipeIsDeleted` therefore says: an object does not stay *ripe* (expired, free of
holds, all policies asking for its deletion, no dry run) for ever, or there are
faults without end. A failure that is the object's own, like an annotation that
does not parse, is no such excuse for another object.

## 4. Proofs

All theorems hold for every value of the constants that satisfies the named
`ASSUME`s: well-formed keys and manifests, finite sets of policies, sentinels that
are no values, settings of the right type, and for the queues finitely many keys.
They hold for any number of keys, workers and policies and any bounds.

- **ExecutorProofs**: `ExecutorInvariant`, `ExecutorTypeCorrect`, `ExecutorDeletionsAreCovered`.
  `DeletionsAreCovered` speaks of the moment after the DELETE and is not inductive.
  `ExecutorInv` adds what holds on the way there: the decision and the namespace
  were looked at before the re-GET (`DeletionsAreMeant`), the checked copy is
  remembered and the server holds that object, an edit, a younger one or none
  (`PreflightHolds`), which rests on UIDs being given out once (`UidsAreGivenOut`).
  `ClusterStep` says what any step of the environment may do to the UIDs, so that
  the proof does not depend on what users do. `ExecutorCountsOnce` needs an
  invariant over pairs of workers (`CountingInv`): an object somebody deleted is on
  the server only under its key and only while its deletion lingers, so that no
  other worker can hit it again. `ExecutorImplementsSafeDeletion` maps each action to
  a step of `SafeDeletion` or a stutter, under `ExecutorInv`: `ReGet` issues, `SendDelete`
  strikes or withdraws, what users do is the world.
- **PipelineProofs**: lemmas about the operators. The first decisive verdict and
  the first matching policy are what they are called; `ChainCases` and `LocalCases` say
  for each class which strategies passed before the one that gave it, so that no other
  proof unfolds the chain; `ChainGoesOn` joins the local strategies to the remote ones;
  `ExpiredStays` says that what the local strategies call expired they call expired at
  any later time. Then `ChainGuardsProtection`, `RehearsalIsFaithful` and
  `DeletionsAreAskedFor` for lists of policies of any length.
- **StageProofs**: the properties of the runs `classifier` and `policy_engine` for any
  metadata, owners and clock, and for any policies in any order: six theorems over
  the type invariants of the two modules. `ChainMeetsItsSpecification` goes through the
  classes by `ChainCases`. `ChainFindingsOnlyExpire` compares the verdicts at two ticks:
  only a TTL or a date that runs out can change one, and both stay run out. For
  `EngineIgnoresForeignPolicies` the index of the first matching policy is followed
  through the removal of another (`RemovalShifts`, `RemovalKeepsFirst`);
  `EngineAnnouncesDeletions` rests on the default threshold for DryRun being the lower.
- **JanitorProofs**: `JanitorInv` extends `ExecutorInv` with the order of the steps,
  the finding that is about the copy and the job that is about the finding
  (`JanitorInvariant`). From it follow `JanitorTypeCorrect`, `JanitorDryRunDeletesNothing`,
  `JanitorDeletesFromCleanCopies`, `JanitorDeletionsAreJustified` and
  `JanitorLeavesOwnedObjects`. `JanitorImplementsExecutor` shows that every step
  of the janitor is a step of `ExecutorSpec` or leaves its variables alone (the
  refinement mapping is the identity on the executor's and the cluster's
  variables), and `JanitorDeletionsAreCovered` carries the executor's theorem over.
- **ReportProofs**: `JanitorImplementsSafeDeletion` and `JanitorCountsOnce` by
  refinement; `JanitorLeavesTerminating` and `JanitorReportsAreHonest` from `ReportInv`.
  It says what the result tells of the decision, of the victim and of the object the
  job is about, and that the Event is the reporter's word on that job. Its conjunct on
  *deleted* and *gone* speaks of the server, which everyone changes: `StepKeepsGone`
  shows that an object once gone or terminating stays so, because a UID is given
  out once, and `RestingStaysHonest` that a worker's report therefore stays true while
  others move.
- **FindingProofs**: `JanitorNothingExpiresEarly`. The copy may be older than the
  object that is deleted; the proof needs that objects of one UID have one creation
  time wherever they are seen: on the server, in a cache, in a copy (`BirthsAgree`),
  and that a finding "expired" stays true of its copy (`FindingsHaveElapsed`).
  `JanitorFindsWhatTheChainFinds`: `FindingsAreOfTheChain` speaks of the end of the
  chain; `ChainInv` adds what holds on the way, that a worker asks the API server only
  what the local strategies left open at some moment, for the owners only of a copy
  that names some, for the workloads only of one that names none, for the Deployments only of a
  Namespace whose Pods were found to be none, and that no question and no answer of
  an earlier reconcile is left over.
- **ControllerProofs**: `ControllersImplementJanitor`: the queue only decides when a
  reconcile happens. By it every theorem about `Spec` holds of the controllers:
  `ControllersDeleteSafely` and `ControllersLeaveTerminating` spell that out.
  `ControllerInvariant` and `ControllersLoseNoKey`: `KeyNeverLost` is inductive
  together with `QueueInOrder`, whose last conjunct is the delicate one (an object
  that comes back while its key is found missing has been added again).
  `ControllersGoOn` is the action property `RipeGoesOn`, without fairness: a step of the
  worker itself carries `OnTheWay` to the next position (policies that all ask for a
  deletion decide for it, `AskingPoliciesDelete`; the local strategies already decide,
  so that no remote read intervenes), a step of anyone else leaves the copy in place and
  the object the same one (`SamePlaceSameObject`), and the clock only makes an expired
  object older (`ExpiredStays`).
- **ResolverProofs**: `ResolverInv` says of each reference that held all the while
  where it still is to be found, and of each question that is behind that it was
  answered. `ResolversFindSteadyReferences`, `ResolversAwaitAnswers` and
  `ResolversGiveRealEvidence` follow when the last turn is over.

**Only model-checked**: the liveness property `RipeIsDeleted`. Its two safety halves
are proved: the key is never lost (`ControllersLoseNoKey`) and a reconcile that sets out
arrives (`ControllersGoOn`); that one sets out at last is what fairness adds.
**Out of the prover's reach**: liveness under fairness and `ENABLED`, induction
over data, and recursive operators; the modules with theorems use none.

## 5. Not modelled

- *Tracing, logging, metrics*: nothing reads them back. A failed DELETE counts two
  reconcile errors (above); the counter has no influence on what is done.
- *CRD registration and generated deep copies.* A deep copy of a policy is the policy.
- *Policy fields no code reads.*
- *Leader election.* It is off by default, and replicas overlap in the models. With
  `--leader-elect` there is one active manager most of the time, and the same overlap
  for the length of a lease.
- *Times of the queue*: the length of the scan interval and of the backoff. The
  timers fire at last, which is what the liveness property needs; how soon is not
  said.
- *Flag parsing, health checks, signals, the wording of Events and of errors.*
- *Owners of kinds that are no longer served.* Their GET fails with another error than
  NotFound; the models let any read fail, also each time, and do not tell this
  reason from others.
