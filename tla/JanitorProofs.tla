----------------------------- MODULE JanitorProofs -----------------------------
(***************************************************************************)
(* The janitor implements the executor, and what follows from that and     *)
(* from the order of its steps: its deletions are covered, come from clean *)
(* copies and do not happen under --dry-run.  For any cluster, any number  *)
(* of workers of any kind, any policies and any bounds.                    *)
(***************************************************************************)
EXTENDS Janitor, ExecutorProofs, PipelineProofs, FiniteSetTheorems

-----------------------------------------------------------------------------
(* Typing helpers *)

\* A finite set of policies is listed as a sequence of its members.
LEMMA ListingsType ==
    ASSUME NEW set \in PolicySets
    PROVE  Listings(set) \subseteq Seq(Policy)
<1>1. set \subseteq Policy /\ Cardinality(set) \in Nat
  BY ClusterAssumption, FS_CardinalityType
<1> QED BY <1>1 DEF Listings

\* Any verdict but an error is a finding.
LEMMA VerdictIsFinding ==
    ASSUME NEW verdict \in Verdicts, verdict.class # "error"
    PROVE  verdict \in Finding
  BY DEF Verdicts, Finding

LEMMA RemoteVerdictsType ==
    /\ \A found : \A meta \in Meta :
         /\ OwnerRefVerdict(meta, found) \in Finding \/ meta.owners = {}
         /\ meta.owners = {} => OwnerRefVerdict(meta, found) = Passed
    /\ \A referenced : ResolverVerdict(referenced) \in Finding
    /\ NoFinding \in Finding
    /\ Passed \in Finding
  BY DEF OwnerRefVerdict, ResolverVerdict, Verdict, Finding, Classes, Confidences,
         Low, Medium, High, Passed, NoFinding

LEMMA EventReasonType ==
    ASSUME NEW found, NEW decision
    PROVE  EventReason(found, decision) \in EventReasons
  BY DEF EventReason, EventReasons

\* A step of the classification changes the worker's notes only.
LEMMA UnchangedTypes ==
    ASSUME JanitorInv, ExecutorInv', UNCHANGED <<processVars, task, snap, event>>,
           pc' \in [Workers -> Steps],
           todo' \in [Workers -> SUBSET OwnerRef],
           live' \in [Workers -> SUBSET OwnerRef],
           answers' \in [Workers -> [{"pod", "deployment"} -> {"unasked", "none", "some"}]],
           finding' \in [Workers -> Finding]
    PROVE  JanitorTypeOK'
<1>1. /\ JanitorTypeOK
      /\ ExecutorTypeOK'
  BY DEF JanitorInv, ExecutorInv
<1> QED BY <1>1 DEF JanitorTypeOK, processVars

-----------------------------------------------------------------------------
(* The janitor implements the executor *)

\* A worker acts on an object given out, with a decision of the engine.
LEMMA ActType ==
    ASSUME JanitorInv, NEW w \in Workers, pc[w] = "decide"
    PROVE  /\ task[w] \in Keys
           /\ snap[w] \in Object
           /\ snap[w].uid \in 1..(nextUid - 1)
           /\ DecisionOf(w) \in Decision
<1>1. /\ task[w] \in Keys
      /\ snap[w] \in Object
      /\ finding[w] \in Finding
      /\ dryRun[w] \in BOOLEAN
      /\ listing[w] \in Seq(Policy)
  BY DEF JanitorInv, JanitorTypeOK, StepsAreInOrder
<1>2. snap[w].uid \in 1..(nextUid - 1)
  <2>1. 1 <= snap[w].uid /\ snap[w].uid < nextUid
    BY <1>1, AbsentObjectAssumption DEF JanitorInv, CopiesAreOfThePast
  <2>2. snap[w].uid \in Nat /\ nextUid \in Nat
    BY <1>1 DEF JanitorInv, ExecutorInv, ExecutorTypeOK, ClusterTypeOK, Object
  <2> QED BY <2>1, <2>2
<1>3. snap[w].meta.override \in Overrides
  BY <1>1 DEF Object, Meta
<1>4. DecisionOf(w) \in Decision
  BY <1>1, <1>3, EvaluateType, JanitorAssumption DEF DecisionOf
<1> QED BY <1>1, <1>2, <1>4

LEMMA StepImplementsExecutor ==
    ASSUME JanitorInv, [Next]_vars
    PROVE  [ExecutorNext]_executorAllVars
<1> USE DEF executorAllVars
<1>1. CASE UNCHANGED vars
  BY <1>1 DEF vars
<1>2. CASE ClusterNext /\ UNCHANGED <<executorVars, janitorVars>>
  BY <1>2 DEF ExecutorNext
<1>3. ASSUME NEW w \in Workers,
             \/ \E key \in KeysOf(w) : SyncObject(w, key) \/ Fetch(w, key) \/ FetchMissing(w, key)
             \/ SyncPolicies(w) \/ FetchFails(w)
             \/ ClassifyCopy(w) \/ LookUpOwner(w) \/ ListPods(w) \/ ListDeployments(w)
             \/ ReadFails(w)
      PROVE  UNCHANGED executorAllVars
  BY <1>3
  DEF SyncObject, SyncPolicies, Fetch, FetchMissing, FetchFails, ClassifyCopy, LookUpOwner, ListPods,
      ListDeployments, ReadFails
<1>4. ASSUME NEW w \in Workers, Act(w) PROVE Call(w)
  <2>1. pc[w] = "decide" /\ UNCHANGED clusterVars
    BY <1>4 DEF Act
  <2>2. Execute(w, task[w], snap[w].uid, DecisionOf(w))
    BY <1>4 DEF Act
  <2> QED BY <2>1, <2>2, ActType DEF Call
<1>5. ASSUME NEW w \in Workers, ExecutorStep(w) PROVE ReGet(w) \/ SendDelete(w)
  BY <1>5 DEF ExecutorStep
<1>6. ASSUME NEW w \in Workers, Finish(w) PROVE Return(w)
  BY <1>6 DEF Finish
<1>7. ASSUME NEW w \in Workers, Requeue(w) \/ Crash(w) PROVE Die(w)
  BY <1>7 DEF Requeue, Crash, Forget, Die
<1> QED BY <1>1, <1>2, <1>3, <1>4, <1>5, <1>6, <1>7 DEF Next, WorkerNext, ExecutorNext

-----------------------------------------------------------------------------
(* The janitor's own invariant, action by action.  ExecutorInv' is given:  *)
(* it comes from the step of the executor.                                 *)

LEMMA JanitorInvInit ==
    ASSUME Init
    PROVE  JanitorInv
<1> USE DEF Init, ClusterInit, ExecutorInit
<1>1. ExecutorInv
  BY ExecutorInvInit DEF ExecutorInitial
<1>2. JanitorTypeOK
  <2>1. listing \in [Workers -> Seq(Policy)]
    BY ListingsType
  <2>2. NoFinding \in Finding
    BY RemoteVerdictsType
  <2> QED BY <1>1, <2>1, <2>2 DEF JanitorTypeOK, ExecutorInv, Steps, Unasked
<1>3. CopiesAreOfThePast
  BY DEF CopiesAreOfThePast
<1>4. StepsAreInOrder
  BY DEF StepsAreInOrder
<1>5. FindingsFollowCopies /\ JobsFollowFindings
  BY DEF FindingsFollowCopies, JobsFollowFindings
<1> QED BY <1>1, <1>2, <1>3, <1>4, <1>5 DEF JanitorInv

\* The cluster moves; every UID stays one given out before.
LEMMA JanitorInvCluster ==
    ASSUME JanitorInv, ExecutorInv', ObjectsAdvance,
           UNCHANGED <<executorVars, janitorVars>>
    PROVE  JanitorInv'
<1> USE DEF JanitorInv, executorVars, janitorVars, processVars, reconcileVars
<1>1. JanitorTypeOK'
  BY DEF JanitorTypeOK, ExecutorInv
<1>2. CopiesAreOfThePast'
  <2>1. nextUid \in Nat /\ nextUid' \in Nat /\ nextUid' >= nextUid /\ nextUid >= 1
    BY DEF ExecutorInv, ExecutorTypeOK, ClusterTypeOK, ObjectsAdvance, CopiesAreOfThePast
  <2>2. ASSUME NEW key \in Keys, server'[key] # Absent
        PROVE  1 <= server'[key].uid /\ server'[key].uid < nextUid'
    <3>1. server'[key].uid \in Nat
      BY <2>2 DEF ExecutorInv, ExecutorTypeOK, ClusterTypeOK, Object
    <3>2. CASE server[key] # Absent /\ server'[key].uid = server[key].uid
      BY <2>1, <3>1, <3>2 DEF CopiesAreOfThePast
    <3>3. CASE nextUid <= server'[key].uid /\ server'[key].uid < nextUid'
      BY <2>1, <3>1, <3>3
    <3> QED BY <2>2, <3>2, <3>3 DEF ObjectsAdvance
  <2>3. ASSUME NEW obj \in Object, 1 <= obj.uid, obj.uid < nextUid
        PROVE  obj.uid < nextUid'
    BY <2>1, <2>3 DEF Object
  <2>4. ASSUME NEW w \in Workers
        PROVE  /\ snap'[w] # Absent => 1 <= snap'[w].uid /\ snap'[w].uid < nextUid'
               /\ \A key \in Keys :
                    cache'[w][key] # Absent =>
                      1 <= cache'[w][key].uid /\ cache'[w][key].uid < nextUid'
    <3>1. /\ snap[w] # Absent => 1 <= snap[w].uid /\ snap[w].uid < nextUid
          /\ \A key \in Keys :
               cache[w][key] # Absent =>
                 1 <= cache[w][key].uid /\ cache[w][key].uid < nextUid
      BY DEF CopiesAreOfThePast
    <3>2. /\ snap[w] \in Object \cup {Absent}
          /\ \A key \in Keys : cache[w][key] \in Object \cup {Absent}
      BY DEF JanitorTypeOK
    <3> QED BY <2>3, <3>1, <3>2
  <2>5. nextUid' >= 1
    BY <2>1
  <2> QED BY <2>2, <2>4, <2>5 DEF CopiesAreOfThePast
<1>3. StepsAreInOrder'
  BY DEF StepsAreInOrder
<1>4. FindingsFollowCopies' /\ JobsFollowFindings'
  BY DEF FindingsFollowCopies, JobsFollowFindings, IsClean
<1> QED BY <1>1, <1>2, <1>3, <1>4

\* The caches take over what the server has.
LEMMA JanitorInvSync ==
    ASSUME JanitorInv, ExecutorInv', NEW w \in Workers,
           SyncPolicies(w) \/ \E key \in KeysOf(w) : SyncObject(w, key)
    PROVE  JanitorInv'
<1> USE DEF JanitorInv, executorVars, clusterVars, reconcileVars
<1>1. /\ UNCHANGED <<clusterVars, executorVars, dryRun, reconcileVars>>
      /\ cache' \in [Workers -> [Keys -> Object \cup {Absent}]]
      /\ listing' \in [Workers -> Seq(Policy)]
      /\ \A v \in Workers, key \in Keys :
           cache'[v][key] = cache[v][key] \/ cache'[v][key] = server[key]
  <2>1. \A list \in Listings(policies) : list \in Seq(Policy)
    BY ListingsType DEF ExecutorInv, ExecutorTypeOK, ClusterTypeOK
  <2>2. \A key \in Keys : server[key] \in Object \cup {Absent}
    BY DEF ExecutorInv, ExecutorTypeOK, ClusterTypeOK
  <2>3. CASE \E key \in KeysOf(w) : SyncObject(w, key)
    BY <2>2, <2>3 DEF SyncObject, KeysOf, JanitorTypeOK
  <2>4. CASE SyncPolicies(w)
    BY <2>1, <2>4 DEF SyncPolicies, JanitorTypeOK
  <2> QED BY <2>3, <2>4
<1>2. JanitorTypeOK'
  BY <1>1 DEF JanitorTypeOK, ExecutorInv
<1>3. CopiesAreOfThePast'
  BY <1>1 DEF CopiesAreOfThePast
<1>4. StepsAreInOrder'
  BY <1>1 DEF StepsAreInOrder
<1>5. FindingsFollowCopies' /\ JobsFollowFindings'
  BY <1>1 DEF FindingsFollowCopies, JobsFollowFindings, IsClean
<1> QED BY <1>2, <1>3, <1>4, <1>5

\* The steps up to the finding touch the worker's own record of the reconcile.
LEMMA JanitorInvFetch ==
    ASSUME JanitorInv, ExecutorInv', NEW w \in Workers,
           \/ \E key \in KeysOf(w) : Fetch(w, key) \/ FetchMissing(w, key)
           \/ FetchFails(w) \/ ReadFails(w)
    PROVE  JanitorInv'
<1>1. /\ pc[w] \in {"idle", "owners", "pods", "deployments", "decide"}
      /\ job[w] = Absent
      /\ epc[w] = "idle"
      /\ UNCHANGED <<clusterVars, executorVars, processVars, todo, live, answers, finding, event>>
  BY DEF JanitorInv, Fetch, FetchMissing, FetchFails, ReadFails, StepsAreInOrder, JanitorTypeOK,
         ExecutorInv, ExecutorTypeOK
<1>2. \/ Goto(w, "failed") /\ UNCHANGED <<task, snap>>
      \/ \E key \in Keys :
           /\ task' = [task EXCEPT ![w] = key]
           /\ Goto(w, "missing")
           /\ UNCHANGED snap
      \/ \E key \in Keys, step \in {"done", "classify"} :
           /\ cache[w][key] # Absent
           /\ task' = [task EXCEPT ![w] = key]
           /\ snap' = [snap EXCEPT ![w] = cache[w][key]]
           /\ Goto(w, step)
  BY DEF Fetch, FetchMissing, FetchFails, ReadFails, KeysOf
<1> USE DEF JanitorInv, Goto, executorVars, clusterVars, processVars
<1>3. JanitorTypeOK'
  <2>1. /\ pc' \in [Workers -> Steps]
        /\ task' \in [Workers -> Keys \cup {Absent}]
        /\ snap' \in [Workers -> Object \cup {Absent}]
    <3>1. CASE Goto(w, "failed") /\ UNCHANGED <<task, snap>>
      BY <3>1 DEF JanitorTypeOK, Steps
    <3>2. ASSUME NEW key \in Keys, NEW step \in {"done", "classify"},
                 cache[w][key] # Absent,
                 task' = [task EXCEPT ![w] = key],
                 snap' = [snap EXCEPT ![w] = cache[w][key]],
                 Goto(w, step)
          PROVE  /\ pc' \in [Workers -> Steps]
                 /\ task' \in [Workers -> Keys \cup {Absent}]
                 /\ snap' \in [Workers -> Object \cup {Absent}]
      BY <3>2 DEF JanitorTypeOK, Steps
    <3>3. ASSUME NEW key \in Keys, task' = [task EXCEPT ![w] = key], Goto(w, "missing"),
                 UNCHANGED snap
          PROVE  /\ pc' \in [Workers -> Steps]
                 /\ task' \in [Workers -> Keys \cup {Absent}]
                 /\ snap' \in [Workers -> Object \cup {Absent}]
      BY <3>3 DEF JanitorTypeOK, Steps
    <3> QED BY <1>2, <3>1, <3>2, <3>3
  <2> QED BY <1>1, <2>1 DEF JanitorTypeOK, ExecutorInv
<1>4. CopiesAreOfThePast'
  <2> HIDE DEF JanitorInv
  <2>1. CopiesAreOfThePast
    BY DEF JanitorInv
  <2>2. \A v \in Workers :
          snap'[v] = snap[v] \/ \E key \in Keys : cache[v][key] # Absent /\ snap'[v] = cache[v][key]
    BY <1>2 DEF JanitorInv, JanitorTypeOK
  <2> QED BY <1>1, <2>1, <2>2 DEF CopiesAreOfThePast
<1>5. StepsAreInOrder'
  BY <1>1, <1>2 DEF StepsAreInOrder, JanitorTypeOK
<1>6. FindingsFollowCopies'
  <2> SUFFICES ASSUME NEW v \in Workers
               PROVE  /\ pc'[v] \in {"owners", "pods", "deployments"} => IsClean(v)'
                      /\ pc'[v] = "decide" \/ job'[v] # Absent =>
                           (Deletable(finding'[v].class) => IsClean(v)')
    BY DEF FindingsFollowCopies, Deletable
  <2>1. CASE v = w
    BY <1>1, <1>2, <2>1 DEF JanitorTypeOK
  <2>2. CASE v # w
    <3>1. pc'[v] = pc[v] /\ task'[v] = task[v] /\ snap'[v] = snap[v]
      BY <1>2, <2>2 DEF JanitorTypeOK
    <3> QED BY <1>1, <3>1 DEF FindingsFollowCopies, IsClean
  <2> QED BY <2>1, <2>2
<1>7. JobsFollowFindings'
  BY <1>1, <1>2 DEF JobsFollowFindings, JanitorTypeOK
<1> QED BY <1>3, <1>4, <1>5, <1>6, <1>7

LEMMA JanitorInvClassifyCopy ==
    ASSUME JanitorInv, ExecutorInv', NEW w \in Workers, ClassifyCopy(w)
    PROVE  JanitorInv'
<1> DEFINE verdict == ClassifyLocally(task[w], snap[w], now)
<1>1. /\ pc[w] = "classify"
      /\ task[w] \in Keys
      /\ snap[w] \in Object
      /\ now \in Nat
      /\ job[w] = Absent
      /\ UNCHANGED <<clusterVars, executorVars, processVars, task, snap, answers, event>>
  BY DEF JanitorInv, ClassifyCopy, StepsAreInOrder, ExecutorInv, ExecutorTypeOK, ClusterTypeOK
<1>2. /\ verdict \in Verdicts
      /\ verdict.class \notin {"protected", "blocked", "error"} => IsClean(w)
  BY <1>1, ChainGuardsProtection DEF IsClean
<1>3. \/ verdict.class = "error" /\ Goto(w, "failed") /\ UNCHANGED <<todo, live, finding>>
      \/ /\ verdict.class \notin {"error", "unknown"}
         /\ Classified(w, verdict)
         /\ UNCHANGED <<todo, live>>
      \/ /\ verdict.class = "unknown"
         /\ Goto(w, IF snap[w].meta.owners = {} THEN "pods" ELSE "owners")
         /\ todo' = [todo EXCEPT ![w] = snap[w].meta.owners]
         /\ live' = [live EXCEPT ![w] = {}]
         /\ UNCHANGED finding
  BY DEF ClassifyCopy, Unanswered
<1>4. verdict.class # "error" => verdict \in Finding
  BY <1>2, VerdictIsFinding
<1>5. snap[w].meta.owners \in SUBSET OwnerRef
  BY <1>1 DEF Object, Meta
<1> HIDE DEF verdict
<1> USE DEF JanitorInv, Goto, Classified, executorVars, clusterVars, processVars
<1>6. JanitorTypeOK'
  <2> HIDE DEF JanitorInv, Classified
  <2>1. /\ pc \in [Workers -> Steps]
        /\ todo \in [Workers -> SUBSET OwnerRef]
        /\ live \in [Workers -> SUBSET OwnerRef]
        /\ answers \in [Workers -> [{"pod", "deployment"} -> {"unasked", "none", "some"}]]
        /\ finding \in [Workers -> Finding]
    BY DEF JanitorInv, JanitorTypeOK
  <2>2. /\ todo' \in [Workers -> SUBSET OwnerRef]
        /\ live' \in [Workers -> SUBSET OwnerRef]
    BY <1>3, <1>5, <2>1
  <2>3. pc' \in [Workers -> Steps]
    BY <1>3, <2>1 DEF Classified, Steps
  <2>4. finding' \in [Workers -> Finding]
    BY <1>3, <1>4, <2>1 DEF Classified
  <2> QED BY <1>1, <2>1, <2>2, <2>3, <2>4, UnchangedTypes
<1>7. CopiesAreOfThePast'
  BY <1>1 DEF CopiesAreOfThePast
<1>8. StepsAreInOrder'
  BY <1>1, <1>3 DEF StepsAreInOrder, JanitorTypeOK
<1>9. FindingsFollowCopies'
  BY <1>1, <1>2, <1>3 DEF FindingsFollowCopies, IsClean, Deletable, JanitorTypeOK
<1>10. JobsFollowFindings'
  BY <1>1, <1>3 DEF JobsFollowFindings, JanitorTypeOK
<1> QED BY <1>6, <1>7, <1>8, <1>9, <1>10

\* The remote reads of the classification: the finding is about a clean copy.
LEMMA JanitorInvRemoteRead ==
    ASSUME JanitorInv, ExecutorInv', NEW w \in Workers,
           LookUpOwner(w) \/ ListPods(w) \/ ListDeployments(w)
    PROVE  JanitorInv'
<1>1. /\ pc[w] \in {"owners", "pods", "deployments"}
      /\ task[w] \in Keys
      /\ snap[w] \in Object
      /\ job[w] = Absent
      /\ IsClean(w)
      /\ UNCHANGED <<clusterVars, executorVars, processVars, task, snap, event>>
  BY DEF JanitorInv, LookUpOwner, ListPods, ListDeployments, StepsAreInOrder,
         FindingsFollowCopies
<1>2. /\ todo' \in [Workers -> SUBSET OwnerRef]
      /\ live' \in [Workers -> SUBSET OwnerRef]
      /\ \/ finding' = finding /\ pc' = pc
         \/ finding' = finding /\ Goto(w, "deployments")
         \/ \E found \in Finding : Classified(w, found)
  <2>1. todo \in [Workers -> SUBSET OwnerRef] /\ live \in [Workers -> SUBSET OwnerRef]
    BY DEF JanitorInv, JanitorTypeOK
  <2>2. CASE LookUpOwner(w)
    <3>1. PICK ownerRef \in todo[w] :
            LET left  == todo[w] \ {ownerRef}
                found == IF IsLive(ownerRef, ownerUid) THEN live[w] \cup {ownerRef} ELSE live[w]
            IN  /\ todo' = [todo EXCEPT ![w] = left]
                /\ live' = [live EXCEPT ![w] = found]
                /\ IF left = {}
                   THEN Classified(w, OwnerRefVerdict(snap[w].meta, found))
                   ELSE UNCHANGED <<pc, finding>>
      BY <2>2 DEF LookUpOwner
    <3>2. snap[w].meta \in Meta
      BY <1>1 DEF Object
    <3>3. \A found : OwnerRefVerdict(snap[w].meta, found) \in Finding
      BY <3>2, RemoteVerdictsType
    <3> QED BY <2>1, <3>1, <3>3
  <2>3. CASE ListPods(w)
    <3> DEFINE found == ResolverVerdict("pod" \in workloads[task[w]])
    <3>1. found \in Finding
      BY RemoteVerdictsType
    <3>2. /\ UNCHANGED <<todo, live>>
          /\ Classified(w, found) \/ (Goto(w, "deployments") /\ UNCHANGED finding)
      BY <2>3 DEF ListPods
    <3> HIDE DEF found
    <3> QED BY <2>1, <3>1, <3>2
  <2>4. CASE ListDeployments(w)
    <3> DEFINE found == ResolverVerdict("deployment" \in workloads[task[w]])
    <3>1. found \in Finding
      BY RemoteVerdictsType
    <3>2. UNCHANGED <<todo, live>> /\ Classified(w, found)
      BY <2>4 DEF ListDeployments
    <3> HIDE DEF found
    <3> QED BY <2>1, <3>1, <3>2
  <2> QED BY <2>2, <2>3, <2>4
<1> USE DEF JanitorInv, Goto, Classified, executorVars, clusterVars, processVars
<1>3. JanitorTypeOK'
  <2> HIDE DEF JanitorInv, Classified
  <2>1. pc \in [Workers -> Steps] /\ finding \in [Workers -> Finding]
    BY DEF JanitorInv, JanitorTypeOK
  <2>2. pc' \in [Workers -> Steps]
    BY <1>2, <2>1 DEF Classified, Steps
  <2>3. finding' \in [Workers -> Finding]
    BY <1>2, <2>1 DEF Classified
  <2>4. answers' \in [Workers -> [{"pod", "deployment"} -> {"unasked", "none", "some"}]]
    <3>1. answers \in [Workers -> [{"pod", "deployment"} -> {"unasked", "none", "some"}]]
      BY DEF JanitorInv, JanitorTypeOK
    <3>2. ASSUME NEW kind \in {"pod", "deployment"}, NEW referenced, Answered(w, kind, referenced)
          PROVE  answers' \in [Workers -> [{"pod", "deployment"} -> {"unasked", "none", "some"}]]
      BY <3>1, <3>2 DEF Answered
    <3>3. CASE LookUpOwner(w)
      BY <3>1, <3>3 DEF LookUpOwner
    <3>4. CASE ListPods(w)
      BY <3>2, <3>4 DEF ListPods
    <3>5. CASE ListDeployments(w)
      BY <3>2, <3>5 DEF ListDeployments
    <3> QED BY <3>3, <3>4, <3>5
  <2> QED BY <1>1, <1>2, <2>2, <2>3, <2>4, UnchangedTypes
<1>4. CopiesAreOfThePast'
  BY <1>1 DEF CopiesAreOfThePast
<1>5. StepsAreInOrder'
  BY <1>1, <1>2 DEF StepsAreInOrder, JanitorTypeOK
<1>6. FindingsFollowCopies'
  BY <1>1, <1>2 DEF FindingsFollowCopies, IsClean, JanitorTypeOK
<1>7. JobsFollowFindings'
  BY <1>1, <1>2 DEF JobsFollowFindings, JanitorTypeOK
<1> QED BY <1>3, <1>4, <1>5, <1>6, <1>7

\* The job is made of the copy and of a decision of the engine.
LEMMA JanitorInvAct ==
    ASSUME JanitorInv, ExecutorInv', NEW w \in Workers, Act(w)
    PROVE  JanitorInv'
<1>1. /\ pc[w] = "decide"
      /\ task[w] \in Keys
      /\ snap[w] \in Object
      /\ finding[w] \in Finding
      /\ dryRun[w] \in BOOLEAN
      /\ listing[w] \in Seq(Policy)
      /\ Deletable(finding[w].class) => IsClean(w)
      /\ pc' = [pc EXCEPT ![w] = "executing"]
      /\ UNCHANGED <<clusterVars, processVars, task, snap, todo, live, answers, finding, event>>
  BY DEF JanitorInv, JanitorTypeOK, StepsAreInOrder, FindingsFollowCopies, Act, Goto
<1>2. /\ job' = [job EXCEPT ![w] = [key |-> task[w], uid |-> snap[w].uid,
                                    decision |-> DecisionOf(w)]]
      /\ \A v \in Workers : v # w => epc'[v] = epc[v]
  BY DEF Act, Execute, ReturnWith, JanitorInv, JanitorTypeOK, ExecutorTypeOK
<1>3. /\ DecisionOf(w).action = "delete" => Deletable(finding[w].class)
      /\ dryRun[w] => DecisionOf(w).dryRun
  <2>1. snap[w].meta.override \in Overrides
    BY <1>1 DEF Object, Meta
  <2>2. DecisionOf(w).action = "delete" => Deletable(finding[w].class)
    BY <1>1, <2>1, DeletionsAreAskedFor, JanitorAssumption DEF DecisionOf, Deletable
  <2>3. dryRun[w] => DecisionOf(w).dryRun
    BY <1>1 DEF DecisionOf, Evaluate, Decide, DefaultDecision, PolicyDecision
  <2> QED BY <2>2, <2>3
<1> USE DEF JanitorInv, clusterVars, processVars
<1>4. JanitorTypeOK'
  BY <1>1 DEF JanitorTypeOK, ExecutorInv, Steps
<1>5. CopiesAreOfThePast'
  BY <1>1 DEF CopiesAreOfThePast
<1>6. StepsAreInOrder'
  BY <1>1, <1>2 DEF StepsAreInOrder, JanitorTypeOK, ExecutorTypeOK
<1>7. FindingsFollowCopies'
  BY <1>1, <1>2 DEF FindingsFollowCopies, IsClean, Deletable, JanitorTypeOK, ExecutorTypeOK
<1>8. JobsFollowFindings'
  BY <1>1, <1>2, <1>3 DEF JobsFollowFindings, Deletable, JanitorTypeOK, ExecutorTypeOK
<1> QED BY <1>4, <1>5, <1>6, <1>7, <1>8

\* Execute's own calls: an object changes or goes, no UID is new.
LEMMA JanitorInvExecutorStep ==
    ASSUME JanitorInv, ExecutorInv', NEW w \in Workers, ExecutorStep(w)
    PROVE  JanitorInv'
<1>1. /\ UNCHANGED <<janitorVars, job, nextUid>>
      /\ \A v \in Workers : epc'[v] # "idle" => epc[v] # "idle"
      /\ \A key \in Keys : server'[key] # Absent =>
           server[key] # Absent /\ server'[key].uid = server[key].uid
  <2>1. ExecutorTypeOK
    BY DEF JanitorInv, JanitorTypeOK
  <2>2. CASE ReGet(w)
    BY <2>1, <2>2 DEF ReGet, ReturnWith, ExecutorStep, clusterVars, ExecutorTypeOK
  <2>3. CASE SendDelete(w)
    <3>1. /\ UNCHANGED <<janitorVars, job, nextUid>>
          /\ epc[w] = "delete"
          /\ Missed(w) \/ Hit(w) \/ Rejected(w)
      BY <2>3 DEF SendDelete, ExecutorStep
    <3>2. \A v \in Workers : epc'[v] # "idle" => epc[v] # "idle"
      BY <2>1, <3>1 DEF Missed, Hit, Rejected, ReturnWith, ExecutorTypeOK
    <3>3. CASE Missed(w) \/ Rejected(w)
      BY <3>1, <3>2, <3>3 DEF Missed, Rejected
    <3>4. CASE Hit(w)
      <4>1. job[w].key \in Keys /\ Exists(job[w].key)
        BY <2>1, <3>1, <3>4 DEF Hit, ExecutorTypeOK, Jobs
      <4>2. server' = [server EXCEPT ![job[w].key] = AfterDelete(job[w].key, server[job[w].key])]
        BY <3>4 DEF Hit
      <4>3. server[job[w].key] \in Object
        BY <2>1, <4>1 DEF ExecutorTypeOK, ClusterTypeOK, Exists
      <4>4. \A key \in Keys : server'[key] # Absent =>
              server[key] # Absent /\ server'[key].uid = server[key].uid
        BY <2>1, <4>1, <4>2, <4>3, AfterDeleteType DEF ExecutorTypeOK, ClusterTypeOK, Exists
      <4> QED BY <3>1, <3>2, <4>4
    <3> QED BY <3>1, <3>3, <3>4
  <2> QED BY <2>2, <2>3 DEF ExecutorStep
<1> USE DEF JanitorInv, janitorVars, processVars, reconcileVars
<1>2. JanitorTypeOK'
  BY <1>1 DEF JanitorTypeOK, ExecutorInv
<1>3. CopiesAreOfThePast'
  BY <1>1 DEF CopiesAreOfThePast
<1>4. StepsAreInOrder'
  BY <1>1 DEF StepsAreInOrder
<1>5. FindingsFollowCopies' /\ JobsFollowFindings'
  BY <1>1 DEF FindingsFollowCopies, JobsFollowFindings, IsClean
<1> QED BY <1>2, <1>3, <1>4, <1>5

LEMMA JanitorInvFinish ==
    ASSUME JanitorInv, ExecutorInv', NEW w \in Workers, Finish(w)
    PROVE  JanitorInv'
<1>1. /\ pc[w] = "executing"
      /\ \E step \in {"failed", "done"} : Goto(w, step)
      /\ UNCHANGED <<clusterVars, processVars, task, snap, todo, live, answers, finding, job>>
      /\ epc' = [epc EXCEPT ![w] = "idle"]
  BY DEF Finish, Return
<1>2. event' \in [Workers -> EventReasons \cup {Absent}]
  BY EventReasonType DEF Finish, JanitorInv, JanitorTypeOK
<1> USE DEF JanitorInv, Goto, clusterVars, processVars
<1>3. JanitorTypeOK'
  BY <1>1, <1>2 DEF JanitorTypeOK, ExecutorInv, Steps
<1>4. CopiesAreOfThePast'
  BY <1>1 DEF CopiesAreOfThePast
<1>5. StepsAreInOrder'
  BY <1>1 DEF StepsAreInOrder, JanitorTypeOK, ExecutorTypeOK
<1>6. FindingsFollowCopies' /\ JobsFollowFindings'
  BY <1>1 DEF FindingsFollowCopies, JobsFollowFindings, IsClean, JanitorTypeOK
<1> QED BY <1>3, <1>4, <1>5, <1>6

\* The worker forgets the reconcile; after a crash its caches are those of now.
LEMMA JanitorInvForget ==
    ASSUME JanitorInv, ExecutorInv', NEW w \in Workers, Requeue(w) \/ Crash(w)
    PROVE  JanitorInv'
<1>1. Forget(w) /\ UNCHANGED clusterVars
  BY DEF Requeue, Crash
<1>2. /\ dryRun' \in [Workers -> BOOLEAN]
      /\ \A v \in Workers : v # w => dryRun'[v] = dryRun[v]
      /\ cache' \in [Workers -> [Keys -> Object \cup {Absent}]]
      /\ listing' \in [Workers -> Seq(Policy)]
      /\ \A v \in Workers, key \in Keys :
           cache'[v][key] = cache[v][key] \/ cache'[v][key] = server[key]
  <2>1. \A list \in Listings(policies) : list \in Seq(Policy)
    BY ListingsType DEF JanitorInv, ExecutorInv, ExecutorTypeOK, ClusterTypeOK
  <2>2. server \in [Keys -> Object \cup {Absent}]
    BY DEF JanitorInv, ExecutorInv, ExecutorTypeOK, ClusterTypeOK
  <2>3. CASE Requeue(w)
    BY <2>3 DEF Requeue, processVars, JanitorInv, JanitorTypeOK
  <2>4. CASE Crash(w)
    BY <2>1, <2>2, <2>4 DEF Crash, JanitorInv, JanitorTypeOK
  <2> QED BY <2>3, <2>4
<1> USE DEF JanitorInv, Forget, Goto, Abandon, clusterVars
<1>3. JanitorTypeOK'
  <2>1. NoFinding \in Finding
    BY RemoteVerdictsType
  <2> QED BY <1>1, <1>2, <2>1 DEF JanitorTypeOK, ExecutorInv, Steps, Unasked
<1>4. CopiesAreOfThePast'
  BY <1>1, <1>2 DEF CopiesAreOfThePast, JanitorTypeOK
<1>5. StepsAreInOrder'
  BY <1>1 DEF StepsAreInOrder, JanitorTypeOK, ExecutorTypeOK
<1>6. FindingsFollowCopies'
  BY <1>1 DEF FindingsFollowCopies, IsClean, JanitorTypeOK, ExecutorTypeOK
<1>7. JobsFollowFindings'
  BY <1>1, <1>2 DEF JobsFollowFindings, JanitorTypeOK, ExecutorTypeOK
<1> QED BY <1>3, <1>4, <1>5, <1>6, <1>7

-----------------------------------------------------------------------------
LEMMA JanitorInvNext ==
    ASSUME JanitorInv, [Next]_vars
    PROVE  JanitorInv'
<1>1. ExecutorInv'
  BY StepImplementsExecutor, ExecutorInvNext DEF JanitorInv
<1>2. CASE ClusterNext /\ UNCHANGED <<executorVars, janitorVars>>
  <2>1. ObjectsAdvance
    BY <1>2, ClusterStep DEF JanitorInv, ExecutorInv, ExecutorTypeOK
  <2> QED BY <1>1, <1>2, <2>1, JanitorInvCluster
<1>3. CASE UNCHANGED vars
  <2>1. ObjectsAdvance
    BY <1>3
    DEF vars, clusterVars, ObjectsAdvance, JanitorInv, ExecutorInv, ExecutorTypeOK, ClusterTypeOK
  <2> QED BY <1>1, <1>3, <2>1, JanitorInvCluster DEF vars
<1>4. ASSUME NEW w \in Workers, WorkerNext(w) PROVE JanitorInv'
  BY <1>1, <1>4, JanitorInvSync, JanitorInvFetch, JanitorInvClassifyCopy, JanitorInvRemoteRead,
     JanitorInvAct, JanitorInvExecutorStep, JanitorInvFinish, JanitorInvForget
  DEF WorkerNext
<1> QED BY <1>2, <1>3, <1>4 DEF Next

\* The invariant on which the rest depends: copies are of the past, the finding
\* is about the copy and the job about the finding (configmap_reconciler.go:36-89,
\* namespace_reconciler.go:48-113).
THEOREM JanitorInvariant == Spec => []JanitorInv
  BY JanitorInvInit, JanitorInvNext, PTL DEF Spec

\* The janitor's state has its type in every state of every behaviour
\* (configmap_reconciler.go:36-89, namespace_reconciler.go:48-113).
THEOREM JanitorTypeCorrect == Spec => []JanitorTypeOK
<1>1. JanitorInv => JanitorTypeOK
  BY DEF JanitorInv
<1> QED BY <1>1, JanitorInvariant, PTL

\* Whatever the reconcilers, the caches and the classifier do, the executor
\* under them behaves as the executor by itself (configmap_reconciler.go:77,
\* namespace_reconciler.go:100).
THEOREM JanitorImplementsExecutor == Spec => ImplementsExecutor
<1>1. Init => ExecutorInitial
  BY DEF Init, ExecutorInitial
<1> QED
  BY <1>1, JanitorInvariant, StepImplementsExecutor, PTL
  DEF Spec, ImplementsExecutor, ExecutorSpec, executorAllVars

\* So the janitor's deletions are covered too: asked for, outside of the
\* protected namespaces and past the pre-flight checks (executor.go:86-149).
THEOREM JanitorDeletionsAreCovered == Spec => []DeletionsAreCovered
  BY JanitorImplementsExecutor, ExecutorDeletionsAreCovered, PTL DEF ImplementsExecutor

\* A process under --dry-run deletes nothing, whatever the objects and the
\* policies ask for (config.go:21-23, engine.go:149-158, 205-252, executor.go:87-91).
THEOREM JanitorDryRunDeletesNothing == Spec => []DryRunDeletesNothing
<1>1. JanitorInv => DryRunDeletesNothing
  <2> SUFFICES ASSUME JanitorInv, NEW w \in Workers, dryRun[w], victim[w] # Absent
               PROVE  FALSE
    BY DEF DryRunDeletesNothing
  <2>1. ~job[w].decision.dryRun
    BY DEF JanitorInv, ExecutorInv, DeletionsAreCovered
  <2>2. job[w] # Absent
    BY AbsentJobAssumption DEF JanitorInv, JanitorTypeOK, ExecutorTypeOK
  <2> QED BY <2>1, <2>2 DEF JanitorInv, JobsFollowFindings
<1> QED BY <1>1, JanitorInvariant, PTL

\* What is deleted was copied without protection and without a foreign
\* finalizer, and was given a class that admits a deletion (engine.go:69-100,
\* main.go:124-135).
THEOREM JanitorDeletesFromCleanCopies == Spec => []DeletionFromCleanCopy
<1>1. JanitorInv => DeletionFromCleanCopy
  <2> SUFFICES ASSUME JanitorInv, NEW w \in Workers, victim[w] # Absent
               PROVE  /\ finding[w].class \notin {"protected", "blocked", "unknown"}
                      /\ ~IsProtected(task[w], snap[w].meta)
                      /\ ~HasForeignFinalizer(snap[w].meta)
    BY DEF DeletionFromCleanCopy
  <2>1. job[w] # Absent
    BY AbsentJobAssumption DEF JanitorInv, JanitorTypeOK, ExecutorTypeOK
  <2>2. job[w].decision.action = "delete"
    BY DEF JanitorInv, ExecutorInv, DeletionsAreCovered
  <2>3. Deletable(finding[w].class)
    BY <2>1, <2>2 DEF JanitorInv, JobsFollowFindings
  <2> QED BY <2>1, <2>3 DEF JanitorInv, FindingsFollowCopies, IsClean, Deletable
<1> QED BY <1>1, JanitorInvariant, PTL

\* No step goes from the decision to a deletion that neither the copy nor a
\* Delete policy of this kind, at this confidence, asks for
\* (engine.go:117-168, 248-258, 273-283).
THEOREM JanitorDeletionsAreJustified == Spec => DeletionIsJustified
<1> DEFINE Justified(w) ==
      \/ snap[w].meta.override = "delete"
      \/ \E i \in DOMAIN listing[w] :
           LET policy == listing[w][i]
           IN  /\ policy.mode = "Delete"
               /\ KindOf[w] \in policy.kinds
               /\ IF policy.threshold = Absent THEN finding[w].confidence >= 90
                  ELSE finding[w].confidence >= policy.threshold
<1>1. ASSUME JanitorInv, [Next]_vars, NEW w \in Workers, pc[w] = "decide", epc'[w] = "reget"
      PROVE  Justified(w)
  <2>1. /\ snap[w] \in Object
        /\ finding[w] \in Finding
        /\ dryRun[w] \in BOOLEAN
        /\ listing[w] \in Seq(Policy)
        /\ epc[w] = "idle"
        /\ epc \in [Workers -> {"idle", "reget", "delete", "returned"}]
    BY <1>1 DEF JanitorInv, JanitorTypeOK, ExecutorTypeOK, StepsAreInOrder
  <2>2. [ExecutorNext]_executorAllVars
    BY <1>1, StepImplementsExecutor
  <2>3. Act(w)
    <3>1. ASSUME NEW v \in Workers, v # w, WorkerNext(v) PROVE epc'[w] = epc[w]
      BY <2>1, <3>1
      DEF WorkerNext, SyncObject, SyncPolicies, Fetch, FetchMissing, FetchFails, ClassifyCopy, LookUpOwner,
          ListPods, ListDeployments, ReadFails, Act, ExecutorStep, Finish, Requeue, Crash,
          executorVars, Execute, ReturnWith, ReGet, SendDelete, Missed, Hit, Rejected, Return,
          Forget, Abandon
    <3>2. ASSUME WorkerNext(w) PROVE Act(w)
      BY <1>1, <2>1, <3>2
      DEF WorkerNext, SyncObject, SyncPolicies, Fetch, FetchMissing, FetchFails, ClassifyCopy, LookUpOwner,
          ListPods, ListDeployments, ReadFails, ExecutorStep, Finish, Requeue, Crash,
          executorVars, ReGet, SendDelete, Return, Forget, Abandon
    <3> QED BY <1>1, <2>1, <3>1, <3>2 DEF Next, vars, executorVars
  <2>4. DecisionOf(w).action = "delete" /\ ~DecisionOf(w).dryRun
    BY <1>1, <2>1, <2>3 DEF Act, Execute, ReturnWith, Simulated
  <2>5. snap[w].meta.override \in Overrides
    BY <2>1 DEF Object, Meta
  <2>6. \/ snap[w].meta.override = "delete"
        \/ \E i \in DOMAIN listing[w] :
             /\ listing[w][i].mode = "Delete"
             /\ KindOf[w] \in listing[w][i].kinds
             /\ finding[w].confidence >= Threshold(listing[w][i])
    BY <2>1, <2>4, <2>5, DeletionsAreAskedFor, JanitorAssumption DEF DecisionOf
  <2> QED BY <2>6 DEF Threshold, DefaultDeleteThreshold
<1>2. JanitorInv /\ [Next]_vars =>
        [\A w \in Workers : pc[w] = "decide" /\ epc'[w] = "reget" => Justified(w)]_vars
  BY <1>1
<1> QED BY <1>2, JanitorInvariant, PTL DEF Spec, DeletionIsJustified

\* No step of the executor lets an unchanged object with ownerReferences past
\* the pre-flight checks (ownerref_strategy.go:38-104, executor.go:147-149).
THEOREM JanitorLeavesOwnedObjects == Spec => OwnedObjectsAreLeftToGC
<1>1. ASSUME JanitorInv, [Next]_vars, NEW w \in Workers,
             epc[w] = "reget", epc'[w] = "delete", server[task[w]] = snap[w]
      PROVE  snap[w].meta.owners = {}
  <2>1. /\ epc \in [Workers -> {"idle", "reget", "delete", "returned"}]
        /\ job[w] \in Jobs
    BY <1>1 DEF JanitorInv, JanitorTypeOK, ExecutorTypeOK
  <2>2. job[w].key = task[w]
    BY <1>1, <2>1, AbsentJobAssumption DEF JanitorInv, JobsFollowFindings
  <2>3. ASSUME NEW v \in Workers,
               Call(v) \/ ReGet(v) \/ SendDelete(v) \/ Return(v) \/ Die(v)
        PROVE  v = w /\ ReGet(v)
    BY <1>1, <2>1, <2>3
    DEF Call, Execute, ReturnWith, ReGet, SendDelete, Missed, Hit, Rejected, Return, Die, Abandon
  <2>4. ReGet(w)
    BY <1>1, <2>3, StepImplementsExecutor DEF ExecutorNext, executorAllVars, executorVars
  <2>5. PassesPreflight(job[w].uid, server[job[w].key])
    BY <1>1, <2>1, <2>4 DEF ReGet, ReturnWith
  <2> QED BY <1>1, <2>2, <2>5 DEF PassesPreflight
<1>2. JanitorInv /\ [Next]_vars =>
        [\A w \in Workers :
           epc[w] = "reget" /\ epc'[w] = "delete" =>
             (server[task[w]] = snap[w] => snap[w].meta.owners = {})]_vars
  BY <1>1
<1> QED BY <1>2, JanitorInvariant, PTL DEF Spec, OwnedObjectsAreLeftToGC

=============================================================================
