------------------------------- MODULE Janitor -------------------------------
(***************************************************************************)
(* internal/controller: the reconcilers of kube-janitor over a changing    *)
(* cluster.  A worker is the one goroutine of one controller (Namespace or *)
(* ConfigMap) in one manager process.  It takes a key, copies the object   *)
(* from its informer's cache, classifies the copy with direct reads of the *)
(* API server, evaluates the cached policies and executes the decision;    *)
(* every remote read and write is a step of its own, and between any two   *)
(* of them the cluster, the clock and the other workers move.              *)
(*                                                                         *)
(* A key may be taken at any time: that covers every order in which watch  *)
(* events, RequeueAfter and the rate-limited retries can deliver it.       *)
(***************************************************************************)
EXTENDS Executor, Classifier, PolicyEngine, Reporter

CONSTANT KindOf  \* KindOf[w]: the kind the controller of worker w is For

ASSUME JanitorAssumption == KindOf \in [Workers -> Kinds] /\ Absent \notin EventReasons

VARIABLES
    dryRun,    \* dryRun[w]: --dry-run of the process of worker w
    cache,     \* cache[w][key]: the object in the informer's cache, or Absent
    listing,   \* listing[w]: the policies in the cache, in the order List returns them
    pc,        \* pc[w]: where worker w is in Reconcile
    task,      \* task[w]: the key of the request
    snap,      \* snap[w]: the copy of the cached object being reconciled
    todo,      \* todo[w]: the ownerReferences not looked up yet
    live,      \* live[w]: those found live
    answers,   \* answers[w][kind]: what the list of the workloads answered in this reconcile
    finding,   \* finding[w]: what the classifier found
    event      \* event[w]: the reason of the Event emitted, or Absent

processVars == <<dryRun, cache, listing>>
reconcileVars == <<pc, task, snap, todo, live, answers, finding, event>>
janitorVars == <<processVars, reconcileVars>>
vars == <<clusterVars, executorVars, janitorVars>>

KeysOf(w) == {key \in Keys : key.kind = KindOf[w]}

\* The informer's store is a map: List returns it in any order.
Listings(set) == {list \in [1..Cardinality(set) -> set] :
                    \A policy \in set : \E i \in DOMAIN list : list[i] = policy}

Steps == {"idle", "classify", "owners", "pods", "deployments", "decide",
          "executing", "done", "missing", "failed"}

NoFinding == Verdict("unknown", Low)

Unasked == [kind \in {"pod", "deployment"} |-> "unasked"]

JanitorTypeOK ==
    /\ ExecutorTypeOK
    /\ dryRun \in [Workers -> BOOLEAN]
    /\ cache \in [Workers -> [Keys -> Object \cup {Absent}]]
    /\ listing \in [Workers -> Seq(Policy)]
    /\ pc \in [Workers -> Steps]
    /\ task \in [Workers -> Keys \cup {Absent}]
    /\ snap \in [Workers -> Object \cup {Absent}]
    /\ todo \in [Workers -> SUBSET OwnerRef]
    /\ live \in [Workers -> SUBSET OwnerRef]
    /\ answers \in [Workers -> [{"pod", "deployment"} -> {"unasked", "none", "some"}]]
    /\ finding \in [Workers -> Finding]
    /\ event \in [Workers -> EventReasons \cup {Absent}]

\* A manager starts its controllers when its caches have synced.
Init ==
    /\ ClusterInit
    /\ ExecutorInit
    /\ dryRun \in [Workers -> BOOLEAN]
    /\ cache = [w \in Workers |-> server]
    /\ listing \in [Workers -> Listings(policies)]
    /\ pc = [w \in Workers |-> "idle"]
    /\ task = [w \in Workers |-> Absent]
    /\ snap = [w \in Workers |-> Absent]
    /\ todo = [w \in Workers |-> {}]
    /\ live = [w \in Workers |-> {}]
    /\ answers = [w \in Workers |-> Unasked]
    /\ finding = [w \in Workers |-> NoFinding]
    /\ event = [w \in Workers |-> Absent]

Goto(w, step) == pc' = [pc EXCEPT ![w] = step]

-----------------------------------------------------------------------------
(* The caches: each follows the API server in its own time *)

SyncObject(w, key) ==
    /\ cache' = [cache EXCEPT ![w][key] = server[key]]
    /\ UNCHANGED <<clusterVars, executorVars, dryRun, listing, reconcileVars>>

SyncPolicies(w) ==
    /\ \E list \in Listings(policies) : listing' = [listing EXCEPT ![w] = list]
    /\ UNCHANGED <<clusterVars, executorVars, dryRun, cache, reconcileVars>>

-----------------------------------------------------------------------------
(* Reconcile: fetch *)

\* Mutant: terminating Namespaces are not skipped.
Skips_Nothing(w, obj) == FALSE

\* Only the Namespace reconciler skips what is already being deleted.
Skips(w, obj) == KindOf[w] = "Namespace" /\ obj.terminating

Fetch(w, key) ==
    /\ pc[w] = "idle"
    /\ cache[w][key] # Absent
    /\ task' = [task EXCEPT ![w] = key]
    /\ snap' = [snap EXCEPT ![w] = cache[w][key]]
    /\ Goto(w, IF Skips(w, cache[w][key]) THEN "done" ELSE "classify")
    /\ UNCHANGED <<clusterVars, executorVars, processVars, todo, live, answers, finding, event>>

\* The cache does not know the object: it is gone, there is nothing to do.
FetchMissing(w, key) ==
    /\ pc[w] = "idle"
    /\ cache[w][key] = Absent
    /\ task' = [task EXCEPT ![w] = key]
    /\ Goto(w, "missing")
    /\ UNCHANGED <<clusterVars, executorVars, processVars, snap, todo, live, answers, finding, event>>

FetchFails(w) ==
    /\ pc[w] = "idle"
    /\ Goto(w, "failed")
    /\ UNCHANGED <<clusterVars, executorVars, processVars, task, snap, todo, live, answers, finding, event>>

-----------------------------------------------------------------------------
(* Reconcile: classify *)

Classified(w, verdict) ==
    /\ finding' = [finding EXCEPT ![w] = verdict]
    /\ Goto(w, "decide")

\* Mutant: the ownerReferences are not looked at.
Unanswered_Pods(meta) == "pods"

\* The first strategy that needs an answer of the API server.
Unanswered(meta) == IF meta.owners = {} THEN "pods" ELSE "owners"

\* The strategies up to expires-at need the object and the clock.
ClassifyCopy(w) ==
    LET verdict == ClassifyLocally(task[w], snap[w], now)
    IN  /\ pc[w] = "classify"
        /\ \/ verdict.class = "error" /\ Goto(w, "failed") /\ UNCHANGED <<todo, live, finding>>
           \/ /\ verdict.class \notin {"error", "unknown"}
              /\ Classified(w, verdict)
              /\ UNCHANGED <<todo, live>>
           \/ /\ verdict.class = "unknown"
              /\ Goto(w, Unanswered(snap[w].meta))
              /\ todo' = [todo EXCEPT ![w] = snap[w].meta.owners]
              /\ live' = [live EXCEPT ![w] = {}]
              /\ UNCHANGED finding
        /\ UNCHANGED <<clusterVars, executorVars, processVars, task, snap, answers, event>>

\* One GET per ownerReference, in any order; the last one decides.
LookUpOwner(w) ==
    /\ pc[w] = "owners"
    /\ \E ownerRef \in todo[w] :
         LET left  == todo[w] \ {ownerRef}
             found == IF IsLive(ownerRef, ownerUid) THEN live[w] \cup {ownerRef} ELSE live[w]
         IN  /\ todo' = [todo EXCEPT ![w] = left]
             /\ live' = [live EXCEPT ![w] = found]
             /\ IF left = {}
                THEN Classified(w, OwnerRefVerdict(snap[w].meta, found))
                ELSE UNCHANGED <<pc, finding>>
    /\ UNCHANGED <<clusterVars, executorVars, processVars, task, snap, answers, event>>

Answered(w, kind, referenced) ==
    answers' = [answers EXCEPT ![w][kind] = IF referenced THEN "some" ELSE "none"]

\* Mutant: a Namespace without Pods is taken for empty.
LooksFurther_Never(w, referenced) == FALSE

\* NamespaceResolver goes on to the Deployments when it found no Pod.
LooksFurther(w, referenced) == KindOf[w] = "Namespace" /\ ~referenced

ListPods(w) ==
    LET referenced == "pod" \in workloads[task[w]]
    IN  /\ pc[w] = "pods"
        /\ Answered(w, "pod", referenced)
        /\ IF LooksFurther(w, referenced)
           THEN Goto(w, "deployments") /\ UNCHANGED finding
           ELSE Classified(w, ResolverVerdict(referenced))
        /\ UNCHANGED <<clusterVars, executorVars, processVars, task, snap, todo, live, event>>

ListDeployments(w) ==
    LET referenced == "deployment" \in workloads[task[w]]
    IN  /\ pc[w] = "deployments"
        /\ Answered(w, "deployment", referenced)
        /\ Classified(w, ResolverVerdict(referenced))
        /\ UNCHANGED <<clusterVars, executorVars, processVars, task, snap, todo, live, event>>

\* The API server, or for the policies the cache, answers with an error.
ReadFails(w) ==
    /\ pc[w] \in {"owners", "pods", "deployments", "decide"}
    /\ Goto(w, "failed")
    /\ UNCHANGED <<clusterVars, executorVars, processVars, task, snap, todo, live, answers, finding, event>>

-----------------------------------------------------------------------------
(* Reconcile: evaluate, execute, report *)

DecisionOf(w) ==
    Evaluate(dryRun[w], snap[w].meta.override, finding[w], KindOf[w], listing[w])

Act(w) ==
    /\ pc[w] = "decide"
    /\ Execute(w, task[w], snap[w].uid, DecisionOf(w))
    /\ Goto(w, "executing")
    /\ UNCHANGED <<clusterVars, processVars, task, snap, todo, live, answers, finding, event>>

\* Mutant: the cached copy stands in for the re-GET.
ExecutorStep_TrustsCache(w) ==
    /\ \/ SendDelete(w)
       \/ /\ epc[w] = "reget"
          /\ PassesPreflight(job[w].uid, snap[w])
          /\ epc' = [epc EXCEPT ![w] = "delete"]
          /\ fresh' = [fresh EXCEPT ![w] = snap[w]]
          /\ UNCHANGED <<clusterVars, job, victim, result>>
    /\ UNCHANGED janitorVars

ExecutorStep(w) == (ReGet(w) \/ SendDelete(w)) /\ UNCHANGED janitorVars

\* An error of Execute ends the reconcile before the report.
Reported(w) == result[w] \notin Errors /\ finding[w].class \notin {"active", "unknown"}

Finish(w) ==
    /\ pc[w] = "executing"
    /\ Return(w)
    /\ Goto(w, IF result[w] \in Errors THEN "failed" ELSE "done")
    /\ event' = [event EXCEPT ![w] =
                   IF Reported(w) THEN EventReason(finding[w], job[w].decision) ELSE Absent]
    /\ UNCHANGED <<processVars, task, snap, todo, live, answers, finding>>

Forget(w) ==
    /\ Goto(w, "idle")
    /\ task' = [task EXCEPT ![w] = Absent]
    /\ snap' = [snap EXCEPT ![w] = Absent]
    /\ todo' = [todo EXCEPT ![w] = {}]
    /\ live' = [live EXCEPT ![w] = {}]
    /\ answers' = [answers EXCEPT ![w] = Unasked]
    /\ finding' = [finding EXCEPT ![w] = NoFinding]
    /\ event' = [event EXCEPT ![w] = Absent]
    /\ Abandon(w)

\* Reconcile returns: RequeueAfter, nothing, or an error and the queue's backoff.
Requeue(w) ==
    /\ pc[w] \in {"done", "missing", "failed"}
    /\ Forget(w)
    /\ UNCHANGED <<clusterVars, processVars>>

\* The manager's process dies and comes back, maybe with other flags; its
\* caches list anew.
Crash(w) ==
    /\ Forget(w)
    /\ \E flag \in BOOLEAN : dryRun' = [dryRun EXCEPT ![w] = flag]
    /\ cache' = [cache EXCEPT ![w] = server]
    /\ \E list \in Listings(policies) : listing' = [listing EXCEPT ![w] = list]
    /\ UNCHANGED clusterVars

WorkerNext(w) ==
    \/ \E key \in KeysOf(w) : SyncObject(w, key) \/ Fetch(w, key) \/ FetchMissing(w, key)
    \/ SyncPolicies(w)
    \/ FetchFails(w)
    \/ ClassifyCopy(w) \/ LookUpOwner(w) \/ ListPods(w) \/ ListDeployments(w)
    \/ ReadFails(w)
    \/ Act(w) \/ ExecutorStep(w) \/ Finish(w)
    \/ Requeue(w) \/ Crash(w)

Next ==
    \/ ClusterNext /\ UNCHANGED <<executorVars, janitorVars>>
    \/ \E w \in Workers : WorkerNext(w)

Spec == Init /\ [][Next]_vars

-----------------------------------------------------------------------------
(* Properties *)

\* No worker of a process under --dry-run deletes anything, whatever its
\* predecessor was about to delete without the flag (config.go:21-23,
\* engine.go:149-158, 205-252, executor.go:87-91).
DryRunDeletesNothing == \A w \in Workers : dryRun[w] => victim[w] = Absent

\* Whatever is deleted was classified from a copy that carried no protection
\* and no foreign finalizer, and with a class that admits a deletion: an
\* object whose protection the cache knew is not deleted
\* (engine.go:69-100 on top of the strategy chain of main.go:124-135).
DeletionFromCleanCopy ==
    \A w \in Workers :
      victim[w] # Absent =>
        /\ finding[w].class \notin {"protected", "blocked", "unknown"}
        /\ ~IsProtected(task[w], snap[w].meta)
        /\ ~HasForeignFinalizer(snap[w].meta)

\* A worker goes from its decision to a deletion only if the copy asks for it
\* or a Delete policy in its cache does, for this kind and this confidence;
\* so a heuristic finding (abandoned, 0.6) needs a threshold written down
\* (engine.go:117-168, 248-258, 273-283).
DeletionIsJustified ==
    [][\A w \in Workers :
         pc[w] = "decide" /\ epc'[w] = "reget" =>
           \/ snap[w].meta.override = "delete"
           \/ \E i \in DOMAIN listing[w] :
                LET policy == listing[w][i]
                IN  /\ policy.mode = "Delete"
                    /\ KindOf[w] \in policy.kinds
                    /\ IF policy.threshold = Absent THEN finding[w].confidence >= 90
                       ELSE finding[w].confidence >= policy.threshold]_vars

\* A list of this reconcile answered a workload that refers to the object.
Referenced(w) == \E kind \in WorkloadKinds(task[w]) : answers[w][kind] = "some"

\* The chain is cut into steps, between which the cluster moves, and still it
\* finds what the chain taken in one piece finds at some moment up to now of
\* the owners the lookups found and the workloads the lists answered; and it
\* finds an object abandoned only when each list that could show a workload of
\* it has answered none.  No later read overrides what an earlier strategy
\* decided, and none is left out, inverted or carried over from another object
\* (classifier.go:57-79, ownerref_strategy.go:56-104, resolver_strategy.go:38-66,
\* namespace_resolver.go:69-119).
FindingsAreOfTheChain ==
    \A w \in Workers :
      pc[w] = "decide" \/ job[w] # Absent =>
        /\ todo[w] = {}
        /\ \E time \in 0..now :
             finding[w] = ClassifyWith(task[w], snap[w], time, live[w], Referenced(w))
        /\ finding[w].class = "abandoned" =>
             \A kind \in WorkloadKinds(task[w]) : answers[w][kind] = "none"

\* The object's time is up: its TTL, or the default one, or its expires-at.
Elapsed(obj, time) ==
    LET ttl == IF obj.meta.ttl = Absent THEN DefaultTTL ELSE obj.meta.ttl
    IN  \/ ttl \in Int \ {0} /\ time > obj.created + ttl
        \/ obj.meta.expiresAt \in Int /\ time >= obj.meta.expiresAt

\* An expired object that is deleted is still expired when it goes: neither
\* the lag of the cache nor the time the pipeline takes deletes an object
\* before its time, unless its user moved the time after the copy was taken
\* (ttl_strategy.go:52-55, expiresat_strategy.go:49-52).
NothingExpiresEarly ==
    \A w \in Workers :
      /\ victim[w] # Absent
      /\ finding[w].class = "expired"
      /\ victim[w].uid = snap[w].uid
      /\ victim[w].meta = snap[w].meta
      => Elapsed(victim[w], now)

\* An object that had ownerReferences when it was copied, dead or live, gets
\* past the pre-flight checks only if somebody has edited it since
\* (ownerref_strategy.go:38-104 against executor.go:147-149).
OwnedObjectsAreLeftToGC ==
    [][\A w \in Workers :
         epc[w] = "reget" /\ epc'[w] = "delete" =>
           (server[task[w]] = snap[w] => snap[w].meta.owners = {})]_vars

\* A Namespace the cache shows terminating is never sent another DELETE
\* (namespace_reconciler.go:65-69).
TerminatingIsLeftAlone ==
    \A w \in Workers :
      victim[w] # Absent /\ KindOf[w] = "Namespace" => ~snap[w].terminating

\* The object the finding is about is gone, or its deletion is under way.
IsGone(w) ==
    Exists(task[w]) /\ server[task[w]].uid = snap[w].uid => server[task[w]].terminating

\* What an Event tells is so.  "Deleted" is told of an expired object that was
\* to be deleted for real and is gone or going, though not by whom: the janitor
\* may have found it gone (executor.go:125, 161).  "DryRunDelete" is told of an
\* expired object that was to be deleted, when nothing was.  Conversely, who
\* deletes an expired object or rehearses it says so, unless the reconcile
\* failed; then no Event is emitted, and if the object is deleted nevertheless
\* the DELETE has lost its answer
\* (reporter.go:77-106, configmap_reconciler.go:77-86).
ReportsAreHonest ==
    \A w \in Workers :
      /\ event[w] = "Deleted" => /\ finding[w].class = "expired"
                                 /\ ~job[w].decision.dryRun
                                 /\ result[w] \in {"deleted", "gone"}
                                 /\ IsGone(w)
      /\ event[w] = "DryRunDelete" => /\ finding[w].class = "expired"
                                      /\ job[w].decision.dryRun
                                      /\ victim[w] = Absent
      /\ pc[w] = "done" /\ job[w] # Absent /\ finding[w].class = "expired" =>
           /\ victim[w] # Absent => event[w] = "Deleted"
           /\ result[w] = "simulated" => event[w] = "DryRunDelete"
      /\ pc[w] = "failed" => /\ event[w] = Absent
                             /\ victim[w] # Absent => result[w] = "undeleted"

\* Under the reconcilers the executor does nothing that it would not do by
\* itself, called with findings and decisions of any origin: each step of the
\* janitor is one of Executor.tla or leaves its variables alone
\* (configmap_reconciler.go:77, namespace_reconciler.go:100).
ImplementsExecutor == ExecutorSpec

-----------------------------------------------------------------------------
(* Claims of the repository that the code does not keep *)

\* ADR 0001, line 30: stale reads of the cache are mitigated by the
\* pre-deletion re-GET; types.go:49: a protected object must not be deleted.
ReGetCatchesProtection ==
    \A w \in Workers : epc[w] = "delete" => ~IsProtected(task[w], fresh[w].meta)

\* types.go:38: an active object is confirmed to be referenced or in use, and
\* engine.go:286 does not count it among the classes that call for action.
ActiveObjectsSurvive ==
    \A w \in Workers :
      victim[w] # Absent /\ snap[w].meta.override # "delete" => finding[w].class # "active"

\* executor.go:30: the check is for live ownerReferences.
DeadOwnersDoNotRefuse ==
    \A w \in Workers :
      /\ pc[w] = "failed"
      /\ result[w] = "refused"
      /\ finding[w].class = "orphaned"
      /\ server[task[w]] = snap[w]
      => LiveOwners(snap[w].meta, ownerUid) # {}

\* types.go:49: an object marked protected must not be deleted; but the
\* deletion of its Namespace takes it along.
ProtectedObjectsAreKept ==
    [][\A w \in Workers, key \in Keys :
         /\ victim[w] # Absent
         /\ ~victim[w].terminating
         /\ Encloses(job[w].key, key)
         /\ Cascade(key)
         => ~IsProtected(key, server[key].meta)]_vars

-----------------------------------------------------------------------------
(* What the properties rest on: the invariant that JanitorProofs shows to  *)
(* be inductive, together with ExecutorInv.                                *)

\* A class that lets Evaluate ask for a deletion.
Deletable(class) == class \notin {"protected", "blocked", "unknown"}

IsClean(w) == ~IsProtected(task[w], snap[w].meta) /\ ~HasForeignFinalizer(snap[w].meta)

\* Every UID the janitor has seen was given out before.
CopiesAreOfThePast ==
    LET Past(obj) == obj # Absent => 1 <= obj.uid /\ obj.uid < nextUid
    IN  /\ nextUid >= 1
        /\ \A key \in Keys : Past(server[key])
        /\ \A w \in Workers : Past(snap[w]) /\ \A key \in Keys : Past(cache[w][key])

\* Between the fetch and the end of Execute there are a key and a copy; only
\* then is Execute running, and only from then on is there a job.
StepsAreInOrder ==
    \A w \in Workers :
      /\ pc[w] \notin {"idle", "done", "missing", "failed"} => task[w] \in Keys /\ snap[w] \in Object
      /\ pc[w] \notin {"executing", "done", "failed"} => job[w] = Absent
      /\ epc[w] # "idle" => pc[w] = "executing"

\* The finding is about the copy.
FindingsFollowCopies ==
    \A w \in Workers :
      /\ pc[w] \in {"owners", "pods", "deployments"} => IsClean(w)
      /\ pc[w] = "decide" \/ job[w] # Absent => (Deletable(finding[w].class) => IsClean(w))

\* The job is about the finding.
JobsFollowFindings ==
    \A w \in Workers :
      job[w] # Absent =>
        /\ job[w].key = task[w]
        /\ job[w].uid = snap[w].uid
        /\ job[w].decision.action = "delete" => Deletable(finding[w].class)
        /\ dryRun[w] => job[w].decision.dryRun

JanitorInv ==
    /\ JanitorTypeOK
    /\ ExecutorInv
    /\ CopiesAreOfThePast
    /\ StepsAreInOrder
    /\ FindingsFollowCopies
    /\ JobsFollowFindings

\* What TerminatingIsLeftAlone and ReportsAreHonest rest on, on top of
\* JanitorInv: a Namespace that is being reconciled was not terminating; the
\* result tells what became of the decision, of the victim and of the object the
\* job is about; and the Event is the last thing a reconcile does.
ReportInv ==
    \A w \in Workers :
      /\ KindOf[w] = "Namespace" =>
           (pc[w] \notin {"idle", "done", "missing", "failed"} \/ job[w] # Absent
              => ~snap[w].terminating)
      /\ victim[w] # Absent => result[w] \in {"deleted", "undeleted"}
      /\ job[w] # Absent =>
           /\ snap[w] # Absent
           /\ result[w] = "simulated" <=>
                job[w].decision.action = "delete" /\ job[w].decision.dryRun
           /\ result[w] \in {"noop", "reported"} <=> job[w].decision.action # "delete"
           /\ result[w] = "none" => epc[w] \in {"reget", "delete"}
           /\ result[w] \in {"deleted", "gone"} => IsGone(w)
      /\ pc[w] = "failed" /\ job[w] # Absent => result[w] \in Errors
      /\ pc[w] = "done" /\ job[w] # Absent =>
           /\ result[w] \notin Errors
           /\ event[w] = IF Reported(w) THEN EventReason(finding[w], job[w].decision)
                         ELSE Absent
      /\ event[w] # Absent => pc[w] = "done" /\ job[w] # Absent

\* What NothingExpiresEarly rests on, on top of JanitorInv: objects of one UID
\* were created at one time, wherever they are seen, and a finding that says
\* "expired" is about a copy whose time is up.
Sightings ==
    ({server[key] : key \in Keys} \cup {cache[w][key] : w \in Workers, key \in Keys}
       \cup {snap[w] : w \in Workers} \cup {victim[w] : w \in Workers}) \ {Absent}

BirthsAgree ==
    /\ \A obj \in Sightings : obj.uid < nextUid
    /\ \A obj, other \in Sightings : obj.uid = other.uid => obj.created = other.created

FindingsHaveElapsed ==
    \A w \in Workers :
      /\ pc[w] = "decide" \/ job[w] # Absent
      /\ finding[w].class = "expired"
      => snap[w] # Absent /\ Elapsed(snap[w], now)

ExpiryInv == BirthsAgree /\ FindingsHaveElapsed

\* What FindingsAreOfTheChain rests on, on top of JanitorInv: a worker asks
\* the API server only what the strategies before left open at some moment, for
\* the owners only if there are some and for the workloads only if there are
\* none, for the Deployments only of a Namespace and when no Pod was found, and
\* starts from no question and no answer of an earlier reconcile.
ChainInv ==
    /\ \A w \in Workers :
         /\ pc[w] \in {"idle", "classify", "pods", "deployments"} => todo[w] = {}
         /\ pc[w] \in {"idle", "classify", "owners", "pods"} => answers[w] = Unasked
         /\ pc[w] \in {"classify", "owners", "pods", "deployments"} =>
              task[w].kind = KindOf[w]
         /\ pc[w] = "deployments" => KindOf[w] = "Namespace" /\ answers[w]["pod"] = "none"
         /\ pc[w] \in {"owners", "pods", "deployments"} =>
              /\ \E time \in 0..now : ClassifyLocally(task[w], snap[w], time).class = "unknown"
              /\ pc[w] = "owners" <=> snap[w].meta.owners # {}
    /\ FindingsAreOfTheChain

=============================================================================
