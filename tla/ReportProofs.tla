----------------------------- MODULE ReportProofs -----------------------------
(***************************************************************************)
(* What the janitor inherits from the executor, and what its Events and    *)
(* errors tell of what became of an object: for any cluster, any number of *)
(* workers of any kind, any policies and any bounds.                       *)
(***************************************************************************)
EXTENDS JanitorProofs

-----------------------------------------------------------------------------
(* Inherited through ImplementsExecutor *)

\* Under the reconcilers, whatever the lag of the caches, every DELETE that
\* reaches an object follows a look at one of its name that was free to go, and
\* none strikes twice (executor.go:107-171, configmap_reconciler.go:77).
THEOREM JanitorImplementsSafeDeletion == Spec => ImplementsSafeDeletion
  BY JanitorImplementsExecutor, ExecutorImplementsSafeDeletion, PTL DEF ImplementsExecutor

\* Two replicas, or a retry, do not count the deletion of one object twice
\* unless it lingered (executor.go:159-168, namespace_reconciler.go:100).
THEOREM JanitorCountsOnce == Spec => []DeletionsAreCountedOnce
  BY JanitorImplementsExecutor, ExecutorCountsOnce, PTL DEF ImplementsExecutor

-----------------------------------------------------------------------------
(* What is gone stays gone *)

\* The object of that key and UID is gone, or its deletion is under way.
Gone(key, uid) == server[key] # Absent /\ server[key].uid = uid => server[key].terminating

\* A delete call leaves nothing, or the object on its way.
LEMMA AfterDeleteIsGone ==
    ASSUME NEW key \in Keys, NEW obj \in Object, AfterDelete(key, obj) # Absent
    PROVE  AfterDelete(key, obj).terminating
  BY DEF AfterDelete, Object

LEMMA DeletionGoes ==
    ASSUME ClusterTypeOK, NEW key \in Keys, NEW uid, Gone(key, uid),
           NEW other \in Keys, Exists(other),
           server' = [server EXCEPT ![other] = AfterDelete(other, server[other])]
    PROVE  Gone(key, uid)'
<1>1. server[other] \in Object
  BY DEF ClusterTypeOK, Exists
<1>2. CASE key = other
  BY <1>1, <1>2, AfterDeleteIsGone DEF Gone, ClusterTypeOK
<1>3. CASE key # other
  BY <1>3 DEF Gone, ClusterTypeOK
<1> QED BY <1>2, <1>3

\* No user and no time brings an object back: a new one has a new UID, and a
\* terminating one cannot be edited.
LEMMA ClusterKeepsGone ==
    ASSUME ClusterTypeOK, ClusterNext,
           NEW key \in Keys, NEW uid \in Nat, uid < nextUid, Gone(key, uid)
    PROVE  Gone(key, uid)'
<1> USE DEF ClusterTypeOK
<1>1. ASSUME NEW other \in Keys, CreateObject(other) PROVE Gone(key, uid)'
  <2>1. PICK meta \in Manifests[other] :
          server' = [server EXCEPT ![other] =
                       [uid |-> nextUid, created |-> now, terminating |-> FALSE, meta |-> meta]]
    BY <1>1 DEF CreateObject
  <2> QED BY <2>1 DEF Gone
<1>2. ASSUME NEW other \in Keys, EditObject(other) PROVE Gone(key, uid)'
  <2>1. PICK meta \in Manifests[other] : server' = [server EXCEPT ![other].meta = meta]
    BY <1>2 DEF EditObject
  <2>2. server[other] \in Object /\ ~server[other].terminating
    BY <1>2 DEF EditObject, Exists
  <2>3. server'[other].uid = server[other].uid
    BY <2>1, <2>2 DEF Object
  <2>4. CASE key = other
    BY <2>2, <2>3, <2>4, AbsentObjectAssumption DEF Gone
  <2>5. CASE key # other
    BY <2>1, <2>5 DEF Gone
  <2> QED BY <2>4, <2>5
<1>3. ASSUME NEW other \in Keys, DeleteObject(other) \/ Cascade(other) PROVE Gone(key, uid)'
  BY <1>3, DeletionGoes DEF DeleteObject, Cascade
<1>4. ASSUME NEW other \in Keys, FinishTermination(other) PROVE Gone(key, uid)'
  BY <1>4 DEF FinishTermination, Gone
<1>5. ASSUME UNCHANGED server PROVE Gone(key, uid)'
  BY <1>5 DEF Gone
<1> QED
  BY <1>1, <1>2, <1>3, <1>4, <1>5
  DEF ClusterNext, ChangeWorkloads, OwnerDies, OwnerReturns, ChangePolicies, Tick

\* Nor does any janitor.
LEMMA StepKeepsGone ==
    ASSUME JanitorInv, [Next]_vars,
           NEW key \in Keys, NEW uid \in Nat, uid < nextUid, Gone(key, uid)
    PROVE  Gone(key, uid)'
<1>1. ExecutorTypeOK /\ ClusterTypeOK
  BY DEF JanitorInv, JanitorTypeOK, ExecutorTypeOK
<1>2. ASSUME UNCHANGED server PROVE Gone(key, uid)'
  BY <1>2 DEF Gone
<1>3. ASSUME NEW w \in Workers, SendDelete(w) PROVE Gone(key, uid)'
  <2>1. CASE Missed(w) \/ Rejected(w)
    BY <1>2, <2>1 DEF Missed, Rejected
  <2>2. CASE Hit(w)
    <3>1. job[w].key \in Keys
      BY <1>1, <1>3 DEF SendDelete, ExecutorTypeOK, Jobs
    <3> QED BY <1>1, <2>2, <3>1, DeletionGoes DEF Hit
  <2> QED BY <1>3, <2>1, <2>2 DEF SendDelete
<1>4. ASSUME NEW w \in Workers, Call(w) \/ ReGet(w) \/ Return(w) \/ Die(w) PROVE UNCHANGED server
  BY <1>4 DEF Call, ReGet, Return, Die, clusterVars
<1>5. [ExecutorNext]_executorAllVars
  BY StepImplementsExecutor
<1> QED
  BY <1>1, <1>2, <1>3, <1>4, <1>5, ClusterKeepsGone
  DEF ExecutorNext, executorAllVars, clusterVars

-----------------------------------------------------------------------------
(* ReportInv is inductive *)

\* ReportInv of one worker: how the job ended, and what is told of it.
ResultTells(w) ==
    /\ snap[w] # Absent
    /\ result[w] = "simulated" <=> job[w].decision.action = "delete" /\ job[w].decision.dryRun
    /\ result[w] \in {"noop", "reported"} <=> job[w].decision.action # "delete"
    /\ result[w] = "none" => epc[w] \in {"reget", "delete"}
    /\ result[w] \in {"deleted", "gone"} => IsGone(w)

Told(w) == IF Reported(w) THEN EventReason(finding[w], job[w].decision) ELSE Absent

Honest(w) ==
    /\ KindOf[w] = "Namespace" =>
         (pc[w] \notin {"idle", "done", "missing", "failed"} \/ job[w] # Absent
            => ~snap[w].terminating)
    /\ victim[w] # Absent => result[w] \in {"deleted", "undeleted"}
    /\ job[w] # Absent => ResultTells(w)
    /\ pc[w] = "failed" /\ job[w] # Absent => result[w] \in Errors
    /\ pc[w] = "done" /\ job[w] # Absent => result[w] \notin Errors /\ event[w] = Told(w)
    /\ event[w] # Absent => pc[w] = "done" /\ job[w] # Absent

LEMMA ReportParts ==
    ASSUME JanitorInv, ReportInv
    PROVE  /\ ExecutorTypeOK /\ JanitorTypeOK
           /\ \A w \in Workers : Honest(w)
  BY DEF JanitorInv, JanitorTypeOK, ReportInv, Honest, ResultTells, Told

\* A step leaves worker v where it is.
Rests(v) ==
    /\ pc'[v] = pc[v]
    /\ task'[v] = task[v]
    /\ snap'[v] = snap[v]
    /\ finding'[v] = finding[v]
    /\ event'[v] = event[v]
    /\ epc'[v] = epc[v]
    /\ job'[v] = job[v]
    /\ victim'[v] = victim[v]
    /\ result'[v] = result[v]

\* It stays honest although the object it told of is out of its hands.
LEMMA RestingStaysHonest ==
    ASSUME JanitorInv, ReportInv, [Next]_vars, NEW v \in Workers, Rests(v)
    PROVE  Honest(v)'
<1>1. Honest(v) /\ JanitorTypeOK /\ ExecutorTypeOK
  BY ReportParts
<1>2. ASSUME job[v] # Absent, IsGone(v) PROVE IsGone(v)'
  <2>1. /\ task[v] \in Keys
        /\ snap[v] \in Object
        /\ snap[v].uid \in Nat
        /\ snap[v].uid < nextUid
    BY <1>1, <1>2
    DEF Honest, ResultTells, JanitorInv, CopiesAreOfThePast, JobsFollowFindings, JanitorTypeOK,
        ExecutorTypeOK, Jobs, Object
  <2>2. Gone(task[v], snap[v].uid)
    BY <1>2 DEF Gone, IsGone, Exists
  <2>3. \A key \in Keys : \A uid \in Nat :
          uid < nextUid /\ Gone(key, uid) => (server'[key] # Absent /\ server'[key].uid = uid
                                                => server'[key].terminating)
    BY StepKeepsGone DEF Gone
  <2> QED BY <2>1, <2>2, <2>3 DEF IsGone, Exists, Rests
<1>3. job'[v] # Absent => ResultTells(v)'
  BY <1>1, <1>2 DEF Honest, ResultTells, Rests
<1>4. Told(v)' = Told(v)
  BY DEF Told, Reported, Rests
<1> QED BY <1>1, <1>3, <1>4 DEF Honest, Rests

LEMMA OneWorkerReports ==
    ASSUME JanitorInv, ReportInv, [Next]_vars,
           NEW w \in Workers, Honest(w)', \A v \in Workers \ {w} : Rests(v)
    PROVE  ReportInv'
<1>1. \A v \in Workers : Honest(v)'
  BY RestingStaysHonest
<1> QED BY <1>1 DEF ReportInv, Honest, ResultTells, Told

\* A worker without a job has nothing to tell yet.
LEMMA NothingToTell ==
    ASSUME JanitorTypeOK', NEW w \in Workers,
           job'[w] = Absent, victim'[w] = Absent, event'[w] = Absent,
           KindOf[w] = "Namespace" =>
             (pc'[w] \notin {"idle", "done", "missing", "failed"} => ~snap'[w].terminating)
    PROVE  Honest(w)'
  BY DEF Honest

LEMMA ReportInvFetch ==
    ASSUME JanitorInv, ReportInv, [Next]_vars, JanitorTypeOK', NEW w \in Workers,
           \/ \E key \in KeysOf(w) : Fetch(w, key) \/ FetchMissing(w, key)
           \/ FetchFails(w) \/ ReadFails(w)
    PROVE  ReportInv'
<1> USE ReportParts
<1>1. /\ pc[w] \in {"idle", "owners", "pods", "deployments", "decide"}
      /\ job[w] = Absent
      /\ UNCHANGED <<executorVars, finding, event>>
  BY DEF JanitorInv, Fetch, FetchMissing, FetchFails, ReadFails, StepsAreInOrder
<1>2. /\ \/ Goto(w, "failed") /\ UNCHANGED snap
         \/ Goto(w, "missing") /\ UNCHANGED snap
         \/ Goto(w, "done") /\ \E obj : snap' = [snap EXCEPT ![w] = obj]
         \/ /\ Goto(w, "classify")
            /\ \E obj : /\ snap' = [snap EXCEPT ![w] = obj]
                        /\ KindOf[w] = "Namespace" => ~obj.terminating
      /\ task' = task \/ \E key : task' = [task EXCEPT ![w] = key]
  BY DEF Fetch, FetchMissing, FetchFails, ReadFails, Skips
<1>3. event[w] = Absent /\ victim[w] = Absent
  BY <1>1, AbsentJobAssumption DEF Honest, ExecutorTypeOK
<1>4. Honest(w)'
  <2>1. KindOf[w] = "Namespace" =>
          (pc'[w] \notin {"idle", "done", "missing", "failed"} => ~snap'[w].terminating)
    BY <1>2 DEF Goto, JanitorTypeOK
  <2> QED BY <1>1, <1>3, <2>1, NothingToTell DEF executorVars
<1>5. \A v \in Workers \ {w} : Rests(v)
  BY <1>1, <1>2 DEF Rests, Goto, executorVars, JanitorTypeOK
<1> QED BY <1>4, <1>5, OneWorkerReports

LEMMA ReportInvRead ==
    ASSUME JanitorInv, ReportInv, [Next]_vars, JanitorTypeOK', NEW w \in Workers,
           ClassifyCopy(w) \/ LookUpOwner(w) \/ ListPods(w) \/ ListDeployments(w)
    PROVE  ReportInv'
<1> USE ReportParts
<1>1. /\ pc[w] \in {"classify", "owners", "pods", "deployments"}
      /\ job[w] = Absent
      /\ UNCHANGED <<executorVars, task, snap, event>>
  BY DEF JanitorInv, ClassifyCopy, LookUpOwner, ListPods, ListDeployments, StepsAreInOrder
<1>2. /\ pc' = pc \/ \E step : pc' = [pc EXCEPT ![w] = step]
      /\ finding' = finding \/ \E found : finding' = [finding EXCEPT ![w] = found]
  BY DEF ClassifyCopy, LookUpOwner, ListPods, ListDeployments, Classified, Goto
<1>3. event[w] = Absent /\ victim[w] = Absent
  BY <1>1, AbsentJobAssumption DEF Honest, ExecutorTypeOK
<1>4. Honest(w)'
  <2>1. KindOf[w] = "Namespace" => ~snap[w].terminating
    BY <1>1 DEF Honest
  <2> QED BY <1>1, <1>3, <2>1, NothingToTell DEF executorVars
<1>5. \A v \in Workers \ {w} : Rests(v)
  BY <1>1, <1>2 DEF Rests, executorVars, JanitorTypeOK
<1> QED BY <1>4, <1>5, OneWorkerReports

LEMMA ReportInvAct ==
    ASSUME JanitorInv, ReportInv, [Next]_vars, NEW w \in Workers, Act(w)
    PROVE  ReportInv'
<1> USE ReportParts
<1>1. /\ pc[w] = "decide"
      /\ pc' = [pc EXCEPT ![w] = "executing"]
      /\ UNCHANGED <<task, snap, finding, event>>
  BY DEF Act, Goto
<1>2. PICK decision : Execute(w, task[w], snap[w].uid, decision)
  BY DEF Act
<1> DEFINE new == [key |-> task[w], uid |-> snap[w].uid, decision |-> decision]
<1>3. /\ victim' = [victim EXCEPT ![w] = Absent]
      /\ job' = [job EXCEPT ![w] = new]
      /\ \/ decision.action = "none" /\ ReturnWith(w, "noop")
         \/ decision.action = "report" /\ ReturnWith(w, "reported")
         \/ /\ decision.action = "delete"
            /\ \/ decision.dryRun /\ ReturnWith(w, "simulated")
               \/ ~decision.dryRun /\ ReturnWith(w, "refused")
               \/ /\ ~decision.dryRun
                  /\ epc' = [epc EXCEPT ![w] = "reget"]
                  /\ result' = [result EXCEPT ![w] = "none"]
  BY <1>2 DEF Execute, Simulated
<1>4. new.decision = decision
  OBVIOUS
<1> HIDE DEF new
<1>5. /\ event[w] = Absent
      /\ KindOf[w] = "Namespace" => ~snap[w].terminating
      /\ snap[w] # Absent
  BY <1>1, AbsentObjectAssumption DEF Honest, JanitorInv, StepsAreInOrder
<1>6. ResultTells(w)'
  BY <1>1, <1>3, <1>4, <1>5 DEF ResultTells, ReturnWith, ExecutorTypeOK
<1>7. Honest(w)'
  BY <1>1, <1>3, <1>4, <1>5, <1>6 DEF Honest, JanitorTypeOK, ExecutorTypeOK
<1>8. \A v \in Workers \ {w} : Rests(v)
  BY <1>1, <1>3 DEF Rests, ReturnWith, JanitorTypeOK, ExecutorTypeOK
<1> QED BY <1>7, <1>8, OneWorkerReports

LEMMA ReportInvExecutorStep ==
    ASSUME JanitorInv, ReportInv, [Next]_vars, NEW w \in Workers, ExecutorStep(w)
    PROVE  ReportInv'
<1> USE ReportParts
<1>1. /\ epc[w] \in {"reget", "delete"}
      /\ UNCHANGED <<pc, task, snap, finding, event, job>>
  BY DEF ExecutorStep, ReGet, SendDelete, janitorVars, reconcileVars
<1>2. /\ pc[w] = "executing"
      /\ victim[w] = Absent
      /\ job[w] # Absent
      /\ job[w].key \in Keys
      /\ job[w].key = task[w]
      /\ job[w].decision.action = "delete"
      /\ ~job[w].decision.dryRun
  BY <1>1, AbsentJobAssumption
  DEF JanitorInv, StepsAreInOrder, JobsFollowFindings, ExecutorInv, DeletionsAreMeant,
      ExecutorTypeOK, Jobs
<1>3. /\ \A v \in Workers \ {w} :
           victim'[v] = victim[v] /\ result'[v] = result[v] /\ epc'[v] = epc[v]
      /\ victim'[w] # Absent => result'[w] \in {"deleted", "undeleted"}
      /\ \/ result'[w] = result[w] /\ epc'[w] = "delete" /\ UNCHANGED server
         \/ result'[w] \in Errors
         \/ result'[w] \in {"deleted", "gone"} /\ IsGone(w)'
  <2>1. CASE ReGet(w)
    <3>1. UNCHANGED server /\ UNCHANGED victim
      BY <2>1 DEF ReGet, clusterVars
    <3>2. \/ ReturnWith(w, "unread") \/ ReturnWith(w, "refused")
          \/ server[task[w]] = Absent /\ ReturnWith(w, "gone")
          \/ epc' = [epc EXCEPT ![w] = "delete"] /\ UNCHANGED result
      BY <1>2, <2>1 DEF ReGet
    <3> QED
      BY <1>1, <1>2, <3>1, <3>2 DEF ReturnWith, ExecutorTypeOK, Errors, IsGone, Exists
  <2>2. CASE Missed(w)
    BY <1>1, <1>2, <2>2 DEF Missed, ReturnWith, ExecutorTypeOK, IsGone, Exists
  <2>3. CASE Rejected(w)
    BY <1>2, <2>3 DEF Rejected, ReturnWith, ExecutorTypeOK, Errors
  <2>4. CASE Hit(w)
    <3>1. server'[task[w]] # Absent => server'[task[w]].terminating
      <4>1. server[task[w]] \in Object
        BY <1>2, <2>4 DEF Hit, Exists, ExecutorTypeOK, ClusterTypeOK
      <4>2. server'[task[w]] = AfterDelete(task[w], server[task[w]])
        BY <1>2, <2>4 DEF Hit, ExecutorTypeOK, ClusterTypeOK
      <4> QED BY <1>2, <4>1, <4>2, AfterDeleteIsGone
    <3>2. IsGone(w)'
      BY <1>1, <3>1 DEF IsGone, Exists
    <3>3. \E how \in {"deleted", "undeleted"} : ReturnWith(w, how)
      BY <2>4 DEF Hit
    <3>4. \A v \in Workers \ {w} : victim'[v] = victim[v]
      BY <2>4 DEF Hit, ExecutorTypeOK
    <3> QED BY <3>2, <3>3, <3>4 DEF ReturnWith, ExecutorTypeOK, Errors
  <2> QED BY <2>1, <2>2, <2>3, <2>4 DEF ExecutorStep, SendDelete
<1>4. ResultTells(w)'
  <2>1. ResultTells(w)
    BY <1>2 DEF Honest
  <2>2. CASE result'[w] = result[w] /\ epc'[w] = "delete" /\ UNCHANGED server
    BY <1>1, <2>1, <2>2 DEF ResultTells, IsGone, Exists
  <2>3. CASE result'[w] \in Errors \/ (result'[w] \in {"deleted", "gone"} /\ IsGone(w)')
    BY <1>1, <1>2, <2>1, <2>3 DEF ResultTells, Errors
  <2> QED BY <1>3, <2>2, <2>3
<1>5. Honest(w)'
  <2>1. event[w] = Absent
    BY <1>2 DEF Honest
  <2> QED BY <1>1, <1>2, <1>3, <1>4, <2>1 DEF Honest
<1>6. \A v \in Workers \ {w} : Rests(v)
  BY <1>1, <1>3 DEF Rests
<1> QED BY <1>5, <1>6, OneWorkerReports

LEMMA ReportInvFinish ==
    ASSUME JanitorInv, ReportInv, [Next]_vars, NEW w \in Workers, Finish(w)
    PROVE  ReportInv'
<1> USE ReportParts
<1>1. /\ pc[w] = "executing"
      /\ epc[w] = "returned"
      /\ epc' = [epc EXCEPT ![w] = "idle"]
      /\ pc' = [pc EXCEPT ![w] = IF result[w] \in Errors THEN "failed" ELSE "done"]
      /\ UNCHANGED <<server, task, snap, finding, job, victim, result>>
  BY DEF Finish, Return, Goto, clusterVars
<1>2. event' = [event EXCEPT ![w] = Told(w)]
  BY DEF Finish, Told
<1>3. job[w] # Absent
  BY <1>1, AbsentJobAssumption DEF ExecutorTypeOK
<1>4. ResultTells(w)'
  <2>1. ResultTells(w) /\ result[w] # "none"
    BY <1>1, <1>3 DEF Honest, ResultTells
  <2> QED BY <1>1, <2>1 DEF ResultTells, IsGone, Exists
<1>5. Honest(w)'
  <2>1. event'[w] = Told(w) /\ Told(w)' = Told(w)
    BY <1>1, <1>2 DEF Told, Reported, JanitorTypeOK
  <2>2. /\ pc'[w] = IF result[w] \in Errors THEN "failed" ELSE "done"
        /\ result[w] \in Errors => Told(w) = Absent
    BY <1>1 DEF Told, Reported, JanitorTypeOK
  <2> QED BY <1>1, <1>3, <1>4, <2>1, <2>2 DEF Honest
<1>6. \A v \in Workers \ {w} : Rests(v)
  BY <1>1, <1>2 DEF Rests, JanitorTypeOK, ExecutorTypeOK
<1> QED BY <1>5, <1>6, OneWorkerReports

LEMMA ReportInvForget ==
    ASSUME JanitorInv, ReportInv, [Next]_vars, JanitorTypeOK', NEW w \in Workers, Forget(w)
    PROVE  ReportInv'
<1> USE ReportParts
<1>1. /\ pc' = [pc EXCEPT ![w] = "idle"]
      /\ task' = [task EXCEPT ![w] = Absent]
      /\ snap' = [snap EXCEPT ![w] = Absent]
      /\ finding' = [finding EXCEPT ![w] = NoFinding]
      /\ event' = [event EXCEPT ![w] = Absent]
      /\ epc' = [epc EXCEPT ![w] = "idle"]
      /\ job' = [job EXCEPT ![w] = Absent]
      /\ victim' = [victim EXCEPT ![w] = Absent]
      /\ result' = [result EXCEPT ![w] = "none"]
  BY DEF Forget, Goto, Abandon
<1>2. Honest(w)'
  BY <1>1, NothingToTell DEF JanitorTypeOK, ExecutorTypeOK
<1>3. \A v \in Workers \ {w} : Rests(v)
  BY <1>1 DEF Rests, JanitorTypeOK, ExecutorTypeOK
<1> QED BY <1>2, <1>3, OneWorkerReports

LEMMA ReportInvNext ==
    ASSUME JanitorInv, ReportInv, [Next]_vars
    PROVE  ReportInv'
<1>1. JanitorTypeOK'
  BY JanitorInvNext DEF JanitorInv
<1>2. CASE UNCHANGED <<executorVars, reconcileVars>>
  <2>1. \A v \in Workers : Rests(v)
    BY <1>2 DEF executorVars, reconcileVars, Rests
  <2>2. \A v \in Workers : Honest(v)'
    BY <2>1, RestingStaysHonest
  <2> QED BY <2>2 DEF ReportInv, Honest, ResultTells, Told
<1>3. CASE ClusterNext /\ UNCHANGED <<executorVars, janitorVars>>
  BY <1>2, <1>3 DEF janitorVars
<1>4. CASE UNCHANGED vars
  BY <1>2, <1>4 DEF vars, janitorVars
<1>5. ASSUME NEW w \in Workers, WorkerNext(w) PROVE ReportInv'
  <2>1. CASE SyncPolicies(w) \/ \E key \in KeysOf(w) : SyncObject(w, key)
    BY <1>2, <2>1 DEF SyncPolicies, SyncObject
  <2>2. CASE Requeue(w) \/ Crash(w)
    BY <1>1, <2>2, ReportInvForget DEF Requeue, Crash
  <2> QED
    BY <1>1, <1>5, <2>1, <2>2, ReportInvFetch, ReportInvRead, ReportInvAct,
       ReportInvExecutorStep, ReportInvFinish
    DEF WorkerNext
<1> QED BY <1>3, <1>4, <1>5 DEF Next

LEMMA ReportInvAlways == Spec => [](JanitorInv /\ ReportInv)
<1>1. Init => ReportInv
  BY DEF Init, ExecutorInit, ReportInv
<1> QED BY <1>1, JanitorInvariant, ReportInvNext, PTL DEF Spec

-----------------------------------------------------------------------------
(* The promises *)

\* The Namespace reconciler sends no DELETE after one that its cache knows to
\* be under way (namespace_reconciler.go:65-69).
THEOREM JanitorLeavesTerminating == Spec => []TerminatingIsLeftAlone
<1>1. JanitorInv /\ ReportInv => TerminatingIsLeftAlone
  <2> SUFFICES ASSUME JanitorInv, ReportInv, NEW w \in Workers,
                      victim[w] # Absent, KindOf[w] = "Namespace"
               PROVE  ~snap[w].terminating
    BY DEF TerminatingIsLeftAlone
  <2>1. job[w] # Absent
    BY AbsentJobAssumption DEF JanitorInv, JanitorTypeOK, ExecutorTypeOK
  <2> QED BY <2>1 DEF ReportInv
<1> QED BY <1>1, ReportInvAlways, PTL

\* What decision and finding the Events of an expired object tell.
LEMMA EventsTell ==
    ASSUME NEW found, NEW decision
    PROVE  /\ EventReason(found, decision) \in {"Deleted", "DryRunDelete"} =>
                found.class = "expired" /\ decision.action = "delete"
           /\ EventReason(found, decision) = "Deleted" => ~decision.dryRun
           /\ EventReason(found, decision) = "DryRunDelete" => decision.dryRun
           /\ found.class = "expired" /\ decision.action = "delete" =>
                EventReason(found, decision) = IF decision.dryRun THEN "DryRunDelete" ELSE "Deleted"
  BY DEF EventReason

\* "Deleted" is told only of an expired object that was to be deleted for real
\* and is gone, or going, in every later state too; "DryRunDelete" only of an
\* expired one of which nothing was deleted.  Who deletes an expired object or
\* rehearses it says so unless the reconcile failed; then there is no Event, and
\* if the object was deleted the DELETE has lost its answer
\* (reporter.go:77-106, configmap_reconciler.go:77-86, executor.go:86-171).
THEOREM JanitorReportsAreHonest == Spec => []ReportsAreHonest
<1>1. ASSUME JanitorInv, ReportInv PROVE ReportsAreHonest
  <2>1. /\ ExecutorTypeOK /\ JanitorTypeOK
        /\ \A w \in Workers : Honest(w)
    BY <1>1, ReportParts
  <2>2. ASSUME NEW w \in Workers, victim[w] # Absent
        PROVE  /\ job[w] # Absent
               /\ job[w].decision.action = "delete"
               /\ ~job[w].decision.dryRun
    BY <1>1, <2>1, <2>2, AbsentJobAssumption DEF ExecutorTypeOK, JanitorInv, ExecutorInv,
       DeletionsAreCovered
  <2>3. ASSUME NEW w \in Workers, event[w] \in {"Deleted", "DryRunDelete"}
        PROVE  /\ pc[w] = "done"
               /\ job[w] # Absent
               /\ event[w] = EventReason(finding[w], job[w].decision)
               /\ job[w].decision.action = "delete"
               /\ finding[w].class = "expired"
    <3>1. event[w] # Absent
      BY <2>3, JanitorAssumption DEF EventReasons
    <3>2. pc[w] = "done" /\ job[w] # Absent /\ event[w] = Told(w)
      BY <2>1, <3>1 DEF Honest
    <3>3. event[w] = EventReason(finding[w], job[w].decision)
      BY <3>1, <3>2 DEF Told
    <3> QED BY <2>3, <3>2, <3>3, EventsTell
  <2>4. ASSUME NEW w \in Workers, event[w] = "Deleted"
        PROVE  /\ finding[w].class = "expired"
               /\ ~job[w].decision.dryRun
               /\ result[w] \in {"deleted", "gone"}
               /\ IsGone(w)
    <3>1. ~job[w].decision.dryRun
      BY <2>3, <2>4, EventsTell
    <3>2. /\ result[w] \in Results
          /\ result[w] \notin Errors
          /\ ResultTells(w)
          /\ epc[w] = "idle"
      BY <1>1, <2>1, <2>3, <2>4
      DEF Honest, ExecutorTypeOK, JanitorInv, StepsAreInOrder
    <3>3. result[w] \in {"deleted", "gone"}
      BY <2>3, <2>4, <3>1, <3>2 DEF ResultTells, Results, Errors
    <3> QED BY <2>3, <2>4, <3>1, <3>2, <3>3 DEF ResultTells
  <2>5. ASSUME NEW w \in Workers, event[w] = "DryRunDelete"
        PROVE  finding[w].class = "expired" /\ job[w].decision.dryRun /\ victim[w] = Absent
    BY <2>2, <2>3, <2>5, EventsTell
  <2>6. ASSUME NEW w \in Workers, pc[w] = "done", job[w] # Absent, finding[w].class = "expired"
        PROVE  /\ victim[w] # Absent => event[w] = "Deleted"
               /\ result[w] = "simulated" => event[w] = "DryRunDelete"
    <3>1. /\ event[w] = EventReason(finding[w], job[w].decision)
          /\ ResultTells(w)
      BY <2>1, <2>6 DEF Honest, Told, Reported
    <3> QED BY <2>2, <2>6, <3>1, EventsTell DEF ResultTells
  <2>7. ASSUME NEW w \in Workers, pc[w] = "failed"
        PROVE  event[w] = Absent /\ (victim[w] # Absent => result[w] = "undeleted")
    BY <2>1, <2>2, <2>7 DEF Honest, Errors
  <2> QED BY <2>4, <2>5, <2>6, <2>7 DEF ReportsAreHonest
<1> QED BY <1>1, ReportInvAlways, PTL

=============================================================================
