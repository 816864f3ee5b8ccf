------------------------------ MODULE Controller ------------------------------
(***************************************************************************)
(* The controllers of cmd/manager/main.go:172-180: the reconcilers of      *)
(* Janitor.tla, each fed by a work queue that watch events, the scan       *)
(* interval and the retries fill.  Janitor.tla lets a worker take any key  *)
(* at any time; here it takes the keys the queue gives it, so that the     *)
(* question is no longer only what a reconcile does but whether it ever    *)
(* happens.                                                                *)
(***************************************************************************)
EXTENDS Janitor, Config

VARIABLES
    queue, dirty, processing, waiting,  \* the work queues, see WorkQueue
    settings  \* settings[w]: the settings of the process of worker w

INSTANCE WorkQueue

controllerVars == <<queue, dirty, processing, waiting, settings>>
allVars == <<vars, controllerVars>>

\* A cluster has finitely many objects; no key is none of them.
ASSUME ControllerAssumption == IsFiniteSet(Keys) /\ Absent \notin Keys

ControllerTypeOK ==
    /\ JanitorTypeOK
    /\ QueueTypeOK
    /\ settings \in [Workers -> ValidSettings]

\* Nothing exists yet, so that the first list is empty.
ControllerInit ==
    /\ Init
    /\ queue = [w \in Workers |-> <<>>]
    /\ dirty = [w \in Workers |-> {}]
    /\ processing = [w \in Workers |-> Absent]
    /\ waiting = [w \in Workers |-> {}]
    /\ settings \in [Workers -> ValidSettings]
    /\ \A w \in Workers : dryRun[w] = settings[w].dryRun

-----------------------------------------------------------------------------
(* Watch events *)

\* The generation of a Namespace or ConfigMap never changes; labels and
\* annotations count, finalizers, ownerReferences and termination do not.
Changed(old, new) ==
    \/ old.meta.labels # new.meta.labels
    \/ old.meta.protected # new.meta.protected
    \/ old.meta.ttl # new.meta.ttl
    \/ old.meta.expiresAt # new.meta.expiresAt
    \/ old.meta.override # new.meta.override

\* Mutant: only updates are let through.
Passes_Updates(old, new) == old # Absent /\ new # Absent /\ Changed(old, new)

\* Creations and deletions pass the filter, updates when they changed something.
Passes(old, new) == old = Absent \/ new = Absent \/ Changed(old, new)

Deliver(w, key) ==
    /\ cache[w][key] # server[key]
    /\ SyncObject(w, key)
    /\ IF Passes(cache[w][key], server[key]) THEN Add(w, key) ELSE UNCHANGED <<queue, dirty>>
    /\ UNCHANGED <<processing, waiting, settings>>

\* The JanitorPolicies have a cache and no controller: nothing is queued.
DeliverPolicies(w) ==
    /\ listing[w] \notin Listings(policies)
    /\ SyncPolicies(w)
    /\ UNCHANGED controllerVars

-----------------------------------------------------------------------------
(* The worker *)

Take(w) ==
    /\ pc[w] = "idle"
    /\ Get(w)
    /\ UNCHANGED <<vars, settings>>

Begin(w) ==
    /\ processing[w] # Absent
    /\ Fetch(w, processing[w]) \/ FetchMissing(w, processing[w]) \/ FetchFails(w)
    /\ UNCHANGED controllerVars

Proceed(w) ==
    /\ \/ ClassifyCopy(w) \/ LookUpOwner(w) \/ ListPods(w) \/ ListDeployments(w)
       \/ ReadFails(w)
       \/ Act(w) \/ ExecutorStep(w) \/ Finish(w)
    /\ UNCHANGED controllerVars

\* Mutant: only what failed is looked at again.
Requeues_Failures(w) == pc[w] = "failed"

\* An error is retried, a reconcile that ended well comes back after the scan
\* interval (an interval of zero means never), a missing object does not.
Requeues(w) ==
    \/ pc[w] = "failed"
    \/ pc[w] = "done" /\ settings[w].scanInterval > 0

End(w) ==
    /\ Requeue(w)
    /\ Done(w, Requeues(w))
    /\ UNCHANGED settings

Fire(w, key) ==
    /\ TimerFires(w, key)
    /\ UNCHANGED <<vars, settings>>

\* The process dies; the next one lists the objects and queues them all.
Restart(w) ==
    /\ Crash(w)
    /\ \E list \in Listings({key \in KeysOf(w) : Exists(key)}) : Refill(w, list)
    /\ \E config \in ValidSettings : /\ config.dryRun = dryRun'[w]
                                     /\ settings' = [settings EXCEPT ![w] = config]

WorkerStep(w) == Take(w) \/ Begin(w) \/ Proceed(w) \/ End(w)

ControllerNext ==
    \/ ClusterNext /\ UNCHANGED <<executorVars, janitorVars, controllerVars>>
    \/ \E w \in Workers :
         \/ \E key \in KeysOf(w) : Deliver(w, key) \/ Fire(w, key)
         \/ DeliverPolicies(w)
         \/ WorkerStep(w)
         \/ Restart(w)

\* The goroutine of the worker, the informers, the timers and the clock go on.
Fairness ==
    /\ \A w \in Workers :
         /\ WF_allVars(WorkerStep(w))
         /\ WF_allVars(DeliverPolicies(w))
         /\ \A key \in KeysOf(w) : WF_allVars(Deliver(w, key)) /\ WF_allVars(Fire(w, key))
    /\ WF_allVars(Tick /\ UNCHANGED <<executorVars, janitorVars, controllerVars>>)

ControllerSafetySpec == ControllerInit /\ [][ControllerNext]_allVars

ControllerSpec == ControllerSafetySpec /\ Fairness

-----------------------------------------------------------------------------
(* Properties *)

\* No object a controller knows is forgotten: its key is in the queue, has a
\* timer or is in process.  Expiry, a policy and a finalizer that goes cause no
\* event, so that a key once lost would stay lost until somebody edits the
\* object (configmap_reconciler.go:27-31, 45-47, 88, namespace_reconciler.go:66-69,
\* validation.go:11).
KeyNeverLost ==
    \A w \in Workers :
      \A key \in KeysOf(w) :
        cache[w][key] # Absent => key \in Queued(w) \cup waiting[w] \cup {processing[w]}

\* The policy asks for the deletion of objects of the kind that have expired.
Asks(policy, kind) ==
    /\ policy.mode = "Delete"
    /\ kind \in policy.kinds
    /\ policy.threshold = Absent \/ policy.threshold <= High

\* The object is expired, nothing protects or holds it, and every policy asks
\* for its deletion, so that the process of w ought to delete it.
Ripe(w, key) ==
    /\ Exists(key)
    /\ ~server[key].terminating
    /\ server[key].meta.override = "absent"
    /\ server[key].meta.finalizers = {}
    /\ server[key].meta.owners = {}
    /\ ClassifyLocally(key, server[key], now).class = "expired"
    /\ ~dryRun[w]
    /\ policies # {}
    /\ \A policy \in policies : Asks(policy, key.kind)

\* A call of the API server that failed, or the death of the process.
Fault(w) ==
    \/ FetchFails(w) \/ ReadFails(w)
    \/ epc[w] = "reget" /\ result'[w] = "unread"
    \/ epc[w] = "delete" /\ result'[w] = "undeleted"
    \/ Restart(w)

\* Worker w reconciles the object of key as it was copied, and what it has read
\* and decided so far leads to its deletion.
OnTheWay(w, key) ==
    /\ task[w] = key
    /\ snap[w] # Absent
    /\ snap[w].uid = server[key].uid
    /\ \/ /\ pc[w] \in {"classify", "decide"}
          /\ snap[w].meta.override = "absent"
          /\ listing[w] # <<>>
          /\ \A i \in DOMAIN listing[w] : Asks(listing[w][i], key.kind)
          /\ pc[w] = "classify" => ClassifyLocally(key, snap[w], now).class = "expired"
          /\ pc[w] = "decide" => finding[w] = Verdict("expired", High)
       \/ pc[w] = "executing" /\ epc[w] \in {"reget", "delete"}

\* Worker w begins with the object from caches that are up to date.
SetsOut(w, key) ==
    /\ pc[w] = "idle" /\ pc'[w] # "idle"
    /\ processing[w] = key
    /\ cache[w][key] = server[key]
    /\ listing[w] \in Listings(policies)

\* A reconcile that sets out for a ripe object leads to its deletion: no event,
\* edit, tick, change of policies or step of another controller makes it skip,
\* only report, spare or refuse the object while that stays ripe; only a failed
\* call or the death of the process stops it (configmap_reconciler.go:36-89,
\* namespace_reconciler.go:48-113, executor.go:86-171).
RipeGoesOn ==
    [][\A w \in Workers : \A key \in KeysOf(w) :
         /\ Ripe(w, key) /\ Ripe(w, key)'
         /\ OnTheWay(w, key) \/ SetsOut(w, key)
         /\ ~Fault(w)
         => OnTheWay(w, key)']_allVars

\* An object does not stay ripe for ever, unless the calls of the API server or
\* the process itself fail again and again: the scan interval brings it back
\* although nothing tells the janitor that it expired, that its last foreign
\* finalizer went or that a policy was changed, and another object whose
\* reconcile always fails does not keep the worker from it
\* (configmap_reconciler.go:88, namespace_reconciler.go:112).
RipeIsDeleted ==
    \A w \in Workers : \A key \in KeysOf(w) : []<>~Ripe(w, key) \/ []<><<Fault(w)>>_allVars

-----------------------------------------------------------------------------
(* What KeyNeverLost rests on: the invariant that ControllerProofs shows   *)
(* to be inductive.                                                        *)

\* A dirty key is queued or will be when the worker is done with it; a worker
\* in Reconcile has a key; and a key found missing that is back in the cache
\* was added again.
QueueInOrder ==
    \A w \in Workers :
      /\ Queued(w) \subseteq KeysOf(w)
      /\ processing[w] \in KeysOf(w) \cup {Absent}
      /\ dirty[w] \subseteq Queued(w) \cup {processing[w]}
      /\ pc[w] # "idle" => processing[w] # Absent
      /\ pc[w] = "missing" => cache[w][processing[w]] = Absent \/ processing[w] \in dirty[w]

ControllerInv == ControllerTypeOK /\ QueueInOrder /\ KeyNeverLost

=============================================================================
