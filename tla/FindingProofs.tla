----------------------------- MODULE FindingProofs -----------------------------
(***************************************************************************)
(* What a worker finds is what the chain says of its copy, and nothing     *)
(* expires early.  The clock moves on, the caches lag and objects are      *)
(* edited, deleted and recreated under their names between the look at an  *)
(* object's age and its deletion; what makes the age of the copy stand for *)
(* the age of the victim is that objects of one UID were created once.     *)
(***************************************************************************)
EXTENDS JanitorProofs

-----------------------------------------------------------------------------
(* The verdict "expired" *)

\* The chain says "expired" of an object whose time is up, and never by a look
\* at its references (ttl_strategy.go:45-66, expiresat_strategy.go:35-61).
LEMMA ExpiredHasElapsed ==
    ASSUME NEW key \in Keys, NEW obj \in Object, NEW time \in Nat,
           ClassifyLocally(key, obj, time).class = "expired"
    PROVE  Elapsed(obj, time)
<1> DEFINE verdicts == LocalVerdicts(key, obj, time)
<1>1. verdicts \in Seq(Verdicts)
  BY LocalVerdictsType
<1>2. /\ DOMAIN verdicts = 1..4
      /\ verdicts[1] = ProtectionVerdict(key, obj.meta)
      /\ verdicts[2] = FinalizerVerdict(obj.meta)
      /\ verdicts[3] = TTLVerdict(obj, time)
      /\ verdicts[4] = ExpiresAtVerdict(obj.meta, time)
  BY DEF LocalVerdicts
<1>3. /\ obj.created \in Nat
      /\ obj.meta.ttl \in Int \cup {Absent, Malformed}
      /\ obj.meta.expiresAt \in Int \cup {Absent, Malformed}
  BY DEF Object, Meta, Times
<1>4. TTLVerdict(obj, time).class = "expired" => Elapsed(obj, time)
  <2> SUFFICES ASSUME TTLVerdict(obj, time).class = "expired"
               PROVE  Elapsed(obj, time)
    OBVIOUS
  <2> DEFINE ttl == ResolveTTL(obj.meta)
  <2>1. ttl # Malformed /\ ttl # 0 /\ time - obj.created > ttl
    BY DEF TTLVerdict, TTLElapsed, Failed, Passed, Verdict
  <2>2. CASE obj.meta.ttl # Absent
    <3>1. ttl = obj.meta.ttl
      BY <2>2 DEF ResolveTTL
    <3>2. ttl \in Int
      BY <1>3, <2>1, <2>2, <3>1
    <3>3. time > obj.created + ttl
      <4> HIDE DEF ttl
      <4> QED BY <1>3, <2>1, <3>2
    <3> QED BY <2>1, <2>2, <3>1, <3>2, <3>3 DEF Elapsed
  <2>3. CASE obj.meta.ttl = Absent
    <3>1. ttl = IF DefaultTTL > 0 THEN DefaultTTL ELSE 0
      BY <2>3, DefaultTTLAssumption DEF ResolveTTL
    <3>2. ttl = DefaultTTL
      BY <2>1, <3>1
    <3>3. time > obj.created + DefaultTTL
      BY <1>3, <2>1, <3>2, DefaultTTLAssumption
    <3> QED BY <2>1, <2>3, <3>2, <3>3, DefaultTTLAssumption DEF Elapsed
  <2> QED BY <2>2, <2>3
<1>5. ExpiresAtVerdict(obj.meta, time).class = "expired" => Elapsed(obj, time)
  BY <1>3 DEF ExpiresAtVerdict, Elapsed, Failed, Passed, Verdict
<1>6. verdicts[1].class # "expired" /\ verdicts[2].class # "expired"
  BY <1>2 DEF ProtectionVerdict, FinalizerVerdict, Verdict, Passed
<1>7. Passed.class # "expired" /\ ClassifyLocally(key, obj, time) = FirstDecisive(verdicts)
  BY DEF Passed, Verdict, ClassifyLocally
<1> HIDE DEF verdicts
<1>8. PICK i \in DOMAIN verdicts : FirstDecisive(verdicts) = verdicts[i]
  BY <1>1, <1>7, FirstDecisiveChoice
<1>9. verdicts[i].class = "expired"
  BY <1>7, <1>8
<1>10. i \in {1, 2, 3, 4}
  BY <1>2
<1> QED BY <1>2, <1>4, <1>5, <1>6, <1>9, <1>10

LEMMA RemoteVerdictsDoNotExpire ==
    /\ \A meta, found : OwnerRefVerdict(meta, found).class # "expired"
    /\ \A referenced : ResolverVerdict(referenced).class # "expired"
  BY DEF OwnerRefVerdict, ResolverVerdict, Verdict, Passed

\* Once its time is up it stays up.
LEMMA ElapsedStays ==
    ASSUME NEW obj \in Object, NEW early \in Nat, NEW late \in Nat, early <= late,
           Elapsed(obj, early)
    PROVE  Elapsed(obj, late)
<1>1. obj.created \in Nat
  BY DEF Object
<1> QED BY <1>1, DefaultTTLAssumption DEF Elapsed

-----------------------------------------------------------------------------
(* Births *)

\* A step leaves an object its birth, removes it or gives birth to one.
SameBirth(obj, other) == obj.uid = other.uid /\ obj.created = other.created

Births ==
    /\ nextUid' >= nextUid
    /\ \A key \in Keys :
         server'[key] # Absent =>
           \/ server[key] # Absent /\ SameBirth(server'[key], server[key])
           \/ /\ server[key] = Absent
              /\ server'[key].uid = nextUid
              /\ nextUid' = nextUid + 1
              /\ server'[key].created = now

LEMMA AfterDeleteBirth ==
    ASSUME NEW key \in Keys, NEW obj \in Object, AfterDelete(key, obj) # Absent
    PROVE  SameBirth(AfterDelete(key, obj), obj)
  BY DEF AfterDelete, Object, SameBirth

LEMMA ClusterBirths ==
    ASSUME ClusterTypeOK, ClusterNext
    PROVE  Births /\ now' >= now
<1> USE DEF ClusterTypeOK, Births, Exists
<1>0. \A key \in Keys : server[key] # Absent => SameBirth(server[key], server[key])
  BY DEF SameBirth
<1>1. ASSUME NEW key \in Keys, CreateObject(key) PROVE Births /\ now' >= now
  <2>1. PICK meta \in Manifests[key] :
          server' = [server EXCEPT ![key] =
                       [uid |-> nextUid, created |-> now, terminating |-> FALSE, meta |-> meta]]
    BY <1>1 DEF CreateObject
  <2>2. /\ server[key] = Absent
        /\ server'[key].uid = nextUid
        /\ server'[key].created = now
        /\ \A k \in Keys \ {key} : server'[k] = server[k]
        /\ nextUid' = nextUid + 1
        /\ now' = now
    BY <1>1, <2>1 DEF CreateObject
  <2> QED BY <1>0, <2>2
<1>2. ASSUME NEW key \in Keys, EditObject(key) PROVE Births /\ now' >= now
  <2>1. PICK meta \in Manifests[key] : server' = [server EXCEPT ![key].meta = meta]
    BY <1>2 DEF EditObject
  <2>2. server[key] \in Object
    BY <1>2 DEF EditObject
  <2>3. SameBirth(server'[key], server[key])
    BY <2>1, <2>2 DEF Object, SameBirth
  <2> QED BY <1>0, <1>2, <2>1, <2>2, <2>3 DEF EditObject
<1>3. ASSUME NEW key \in Keys,
             Exists(key),
             server' = [server EXCEPT ![key] = AfterDelete(key, server[key])],
             UNCHANGED <<nextUid, now>>
      PROVE  Births /\ now' >= now
  <2>1. server'[key] # Absent => SameBirth(server'[key], server[key])
    BY <1>3, AfterDeleteBirth
  <2> QED BY <1>0, <1>3, <2>1
<1>4. ASSUME NEW key \in Keys, DeleteObject(key) \/ Cascade(key) PROVE Births /\ now' >= now
  BY <1>3, <1>4 DEF DeleteObject, Cascade
<1>5. ASSUME NEW key \in Keys, FinishTermination(key) PROVE Births /\ now' >= now
  BY <1>0, <1>5 DEF FinishTermination
<1>6. ASSUME NEW key \in Keys, ChangeWorkloads(key) PROVE Births /\ now' >= now
  BY <1>0, <1>6 DEF ChangeWorkloads
<1>7. ASSUME NEW owner \in Owners, OwnerDies(owner) \/ OwnerReturns(owner)
      PROVE  Births /\ now' >= now
  BY <1>0, <1>7 DEF OwnerDies, OwnerReturns
<1>8. CASE ChangePolicies \/ Tick
  BY <1>0, <1>8 DEF ChangePolicies, Tick
<1> QED BY <1>1, <1>2, <1>4, <1>5, <1>6, <1>7, <1>8 DEF ClusterNext

\* Whatever the janitor sees after a step descends from what it saw before, or
\* is new and the only one of its UID.
Descends ==
    /\ Births
    /\ \A w \in Workers, key \in Keys : cache'[w][key] \in {cache[w][key], server[key]}
    /\ \A w \in Workers :
         \/ snap'[w] \in {snap[w], Absent}
         \/ \E key \in Keys : snap'[w] = cache[w][key]
    /\ \A w \in Workers :
         \/ victim'[w] \in {victim[w], Absent}
         \/ \E key \in Keys : victim'[w] = server[key]

LEMMA BirthsAgreeStep ==
    ASSUME JanitorTypeOK, BirthsAgree, Descends, nextUid' \in Nat
    PROVE  BirthsAgree'
<1>1. /\ \A obj \in Sightings : obj \in Object /\ obj.uid \in Nat /\ obj.uid < nextUid
      /\ nextUid \in Nat
  BY DEF BirthsAgree, Sightings, JanitorTypeOK, ExecutorTypeOK, ClusterTypeOK, Object
<1>2. ASSUME NEW obj \in Sightings'
      PROVE  \/ \E old \in Sightings : SameBirth(obj, old)
             \/ obj.uid = nextUid /\ nextUid' = nextUid + 1 /\ obj.created = now
  <2>0. \A old : SameBirth(old, old)
    BY DEF SameBirth
  <2>1. ASSUME NEW key \in Keys, obj = server'[key]
        PROVE  \/ \E old \in Sightings : SameBirth(obj, old)
               \/ obj.uid = nextUid /\ nextUid' = nextUid + 1 /\ obj.created = now
    BY <1>2, <2>1 DEF Sightings, Descends, Births
  <2>2. ASSUME NEW w \in Workers, NEW key \in Keys, obj = cache'[w][key]
        PROVE  obj \in Sightings
    BY <1>2, <2>2 DEF Sightings, Descends
  <2>3. ASSUME NEW w \in Workers, obj = snap'[w] \/ obj = victim'[w]
        PROVE  obj \in Sightings
    BY <1>2, <2>3 DEF Sightings, Descends
  <2> QED BY <1>2, <2>0, <2>1, <2>2, <2>3 DEF Sightings
<1>3. nextUid' >= nextUid
  BY DEF Descends, Births
<1>4. ASSUME NEW obj \in Sightings' PROVE obj.uid < nextUid'
  BY <1>1, <1>2, <1>3 DEF SameBirth
<1>5. ASSUME NEW obj \in Sightings', NEW other \in Sightings', obj.uid = other.uid
      PROVE  obj.created = other.created
  <2>1. CASE \E old \in Sightings : SameBirth(obj, old)
    <3>1. obj.uid # nextUid
      BY <1>1, <2>1 DEF SameBirth
    <3>2. \E old \in Sightings : SameBirth(other, old)
      BY <1>2, <1>5, <3>1
    <3> QED BY <1>5, <2>1, <3>2 DEF SameBirth, BirthsAgree
  <2>2. CASE obj.uid = nextUid /\ obj.created = now
    <3>1. ~\E old \in Sightings : SameBirth(other, old)
      BY <1>1, <1>5, <2>2 DEF SameBirth
    <3> QED BY <1>2, <2>2, <3>1
  <2> QED BY <1>2, <2>1, <2>2
<1> QED BY <1>4, <1>5 DEF BirthsAgree

\* Every step of the janitor and of the cluster.
LEMMA StepDescends ==
    ASSUME JanitorInv, [Next]_vars
    PROVE  Descends /\ now' >= now
<1>1. /\ ClusterTypeOK /\ ExecutorTypeOK /\ JanitorTypeOK
      /\ nextUid \in Nat /\ now \in Nat
  BY DEF JanitorInv, JanitorTypeOK, ExecutorTypeOK, ClusterTypeOK
<1>2. UNCHANGED clusterVars => Births /\ now' >= now
  BY <1>1 DEF clusterVars, Births, SameBirth
<1>3. CASE ClusterNext /\ UNCHANGED <<executorVars, janitorVars>>
  BY <1>1, <1>3, ClusterBirths
  DEF Descends, executorVars, janitorVars, processVars, reconcileVars
<1>4. CASE UNCHANGED vars
  BY <1>2, <1>4 DEF vars, Descends, executorVars, janitorVars, processVars, reconcileVars
<1>5. ASSUME NEW w \in Workers, WorkerNext(w) PROVE Descends /\ now' >= now
  <2>1. CASE SyncPolicies(w) \/ \E key \in KeysOf(w) : SyncObject(w, key)
    <3>1. UNCHANGED <<clusterVars, executorVars, reconcileVars>>
      BY <2>1 DEF SyncPolicies, SyncObject
    <3>2. \A v \in Workers, key \in Keys : cache'[v][key] \in {cache[v][key], server[key]}
      <4>1. CASE SyncPolicies(w)
        BY <4>1 DEF SyncPolicies
      <4>2. ASSUME NEW key \in Keys, SyncObject(w, key)
            PROVE  \A v \in Workers, k \in Keys : cache'[v][k] \in {cache[v][k], server[k]}
        BY <1>1, <4>2 DEF SyncObject, JanitorTypeOK
      <4> QED BY <2>1, <4>1, <4>2 DEF KeysOf
    <3> QED BY <1>2, <3>1, <3>2 DEF Descends, executorVars, reconcileVars
  <2>2. CASE \/ \E key \in KeysOf(w) : Fetch(w, key) \/ FetchMissing(w, key)
             \/ FetchFails(w) \/ ReadFails(w)
    <3>1. UNCHANGED <<clusterVars, executorVars, cache>>
      BY <2>2 DEF Fetch, FetchMissing, FetchFails, ReadFails, processVars
    <3>2. \A v \in Workers : snap'[v] = snap[v] \/ \E key \in Keys : snap'[v] = cache[v][key]
      BY <1>1, <2>2 DEF Fetch, FetchMissing, FetchFails, ReadFails, JanitorTypeOK, KeysOf
    <3> QED BY <1>2, <3>1, <3>2 DEF Descends, executorVars
  <2>3. CASE ClassifyCopy(w) \/ LookUpOwner(w) \/ ListPods(w) \/ ListDeployments(w)
    <3>1. UNCHANGED <<clusterVars, executorVars, cache, snap>>
      BY <2>3 DEF ClassifyCopy, LookUpOwner, ListPods, ListDeployments, processVars
    <3> QED BY <1>2, <3>1 DEF Descends, executorVars
  <2>4. CASE Act(w) \/ Finish(w)
    <3>1. UNCHANGED <<clusterVars, cache, snap>>
      BY <2>4 DEF Act, Finish, Return, processVars
    <3>2. \A v \in Workers : victim'[v] \in {victim[v], Absent}
      BY <1>1, <2>4 DEF Act, Execute, Finish, Return, ExecutorTypeOK
    <3> QED BY <1>2, <3>1, <3>2 DEF Descends
  <2>5. CASE ReGet(w) /\ UNCHANGED janitorVars
    BY <1>2, <2>5 DEF ReGet, Descends, janitorVars, processVars, reconcileVars
  <2>6. CASE SendDelete(w) /\ UNCHANGED janitorVars
    <3>1. UNCHANGED <<nextUid, now, cache, snap>>
      BY <2>6 DEF SendDelete, janitorVars, processVars, reconcileVars
    <3>2. CASE Missed(w) \/ Rejected(w)
      BY <1>1, <3>1, <3>2 DEF Missed, Rejected, Descends, Births, SameBirth
    <3>3. CASE Hit(w)
      <4>1. /\ job[w].key \in Keys
            /\ server[job[w].key] \in Object
            /\ server' = [server EXCEPT ![job[w].key] = AfterDelete(job[w].key, server[job[w].key])]
            /\ victim' = [victim EXCEPT ![w] = server[job[w].key]]
        BY <1>1, <2>6, <3>3
        DEF SendDelete, Hit, Exists, ExecutorTypeOK, ClusterTypeOK, Jobs
      <4>2. server'[job[w].key] # Absent => SameBirth(server'[job[w].key], server[job[w].key])
        BY <1>1, <4>1, AfterDeleteBirth DEF ClusterTypeOK
      <4>3. Births
        BY <1>1, <3>1, <3>3, <4>1, <4>2 DEF Births, SameBirth, ClusterTypeOK, Hit, Exists
      <4>4. \A v \in Workers : victim'[v] = victim[v] \/ \E key \in Keys : victim'[v] = server[key]
        BY <1>1, <4>1 DEF ExecutorTypeOK
      <4> QED BY <1>1, <3>1, <4>3, <4>4 DEF Descends
    <3> QED BY <2>6, <3>2, <3>3 DEF SendDelete
  <2>7. CASE Requeue(w) \/ Crash(w)
    <3>1. /\ UNCHANGED clusterVars
          /\ snap' = [snap EXCEPT ![w] = Absent]
          /\ victim' = [victim EXCEPT ![w] = Absent]
          /\ cache' = cache \/ cache' = [cache EXCEPT ![w] = server]
      BY <2>7 DEF Requeue, Crash, Forget, Abandon, processVars
    <3> QED BY <1>1, <1>2, <3>1 DEF Descends, JanitorTypeOK, ExecutorTypeOK
  <2> QED BY <1>5, <2>1, <2>2, <2>3, <2>4, <2>5, <2>6, <2>7 DEF WorkerNext, ExecutorStep
<1> QED BY <1>3, <1>4, <1>5 DEF Next

-----------------------------------------------------------------------------
(* Findings *)

\* FindingsHaveElapsed of one worker.
Due(w) ==
    /\ pc[w] = "decide" \/ job[w] # Absent
    /\ finding[w].class = "expired"
    => snap[w] # Absent /\ Elapsed(snap[w], now)

\* A step gives worker v neither a finding nor a copy: if it has decided, it
\* had before.
Resolved(v) ==
    pc'[v] = "decide" \/ job'[v] # Absent =>
      /\ pc[v] = "decide" \/ job[v] # Absent
      /\ finding'[v] = finding[v]
      /\ snap'[v] = snap[v]

LEMMA ResolvedWorkers ==
    ASSUME JanitorTypeOK, NEW v \in Workers, Due(v), Resolved(v), now' \in Nat, now' >= now
    PROVE  Due(v)'
<1>1. now \in Nat /\ snap[v] \in Object \cup {Absent}
  BY DEF JanitorTypeOK, ExecutorTypeOK, ClusterTypeOK
<1>2. SUFFICES ASSUME pc'[v] = "decide" \/ job'[v] # Absent, finding'[v].class = "expired"
               PROVE  snap'[v] # Absent /\ Elapsed(snap'[v], now')
  BY DEF Due, Elapsed
<1>3. snap[v] \in Object /\ Elapsed(snap[v], now) /\ snap'[v] = snap[v]
  BY <1>1, <1>2 DEF Due, Resolved
<1>4. Elapsed(snap[v], now')
  BY <1>1, <1>3, ElapsedStays
<1> QED BY <1>2, <1>3, <1>4, AbsentObjectAssumption

\* The finding is about a copy whose time was up then, and still is.
LEMMA FindingsHaveElapsedStep ==
    ASSUME JanitorInv, FindingsHaveElapsed, [Next]_vars, now' \in Nat, now' >= now
    PROVE  FindingsHaveElapsed'
<1>1. /\ ExecutorTypeOK /\ JanitorTypeOK /\ now \in Nat
      /\ \A w \in Workers : Due(w)
      /\ \A w \in Workers :
           pc[w] \in {"idle", "classify", "owners", "pods", "deployments", "decide"} =>
             job[w] = Absent
  BY DEF JanitorInv, JanitorTypeOK, ExecutorTypeOK, ClusterTypeOK, StepsAreInOrder,
         FindingsHaveElapsed, Due
<1>2. SUFFICES \A w \in Workers : Due(w)'
  BY DEF FindingsHaveElapsed, Due
<1>3. SUFFICES ASSUME NEW w \in Workers, WorkerNext(w)
               PROVE  Due(w)' /\ \A v \in Workers \ {w} : Resolved(v)
  <2>1. CASE UNCHANGED <<executorVars, reconcileVars>>
    <3>1. \A v \in Workers : Resolved(v)
      BY <2>1 DEF Resolved, executorVars, reconcileVars
    <3> QED BY <1>1, <3>1, ResolvedWorkers
  <2>2. CASE \E w \in Workers : WorkerNext(w)
    BY <1>1, <1>3, <2>2, ResolvedWorkers
  <2> QED BY <2>1, <2>2 DEF Next, vars, janitorVars
<1>4. CASE SyncPolicies(w) \/ \E key \in KeysOf(w) : SyncObject(w, key)
  <2>1. \A v \in Workers : Resolved(v)
    BY <1>4 DEF SyncPolicies, SyncObject, Resolved, executorVars, reconcileVars
  <2> QED BY <1>1, <2>1, ResolvedWorkers
<1>5. CASE \/ \E key \in KeysOf(w) : Fetch(w, key) \/ FetchMissing(w, key)
           \/ FetchFails(w) \/ ReadFails(w)
  <2>1. /\ pc[w] \in {"idle", "owners", "pods", "deployments", "decide"}
        /\ UNCHANGED <<job, finding>>
        /\ \E step \in Steps \ {"decide"} : pc' = [pc EXCEPT ![w] = step]
    BY <1>5 DEF Fetch, FetchMissing, FetchFails, ReadFails, Goto, Steps, executorVars
  <2>2. snap' = snap \/ \E obj : snap' = [snap EXCEPT ![w] = obj]
    BY <1>5 DEF Fetch, FetchMissing, FetchFails, ReadFails
  <2>3. pc'[w] # "decide" /\ job'[w] = Absent
    BY <1>1, <2>1 DEF JanitorTypeOK
  <2>4. \A v \in Workers \ {w} : Resolved(v)
    BY <1>1, <2>1, <2>2 DEF Resolved, JanitorTypeOK
  <2> QED BY <2>3, <2>4 DEF Due
<1>6. CASE ClassifyCopy(w)
  <2> DEFINE verdict == ClassifyLocally(task[w], snap[w], now)
  <2>1. /\ pc[w] = "classify" /\ job[w] = Absent
        /\ task[w] \in Keys /\ snap[w] \in Object
        /\ UNCHANGED <<job, snap, now>>
    BY <1>1, <1>6
    DEF ClassifyCopy, JanitorInv, StepsAreInOrder, executorVars, clusterVars
  <2>2. \/ Goto(w, "failed") /\ UNCHANGED finding
        \/ Classified(w, verdict)
        \/ (Goto(w, "pods") \/ Goto(w, "owners")) /\ UNCHANGED finding
    BY <1>6 DEF ClassifyCopy, Unanswered
  <2>3. verdict.class = "expired" => Elapsed(snap[w], now)
    BY <1>1, <2>1, ExpiredHasElapsed
  <2> HIDE DEF verdict
  <2>4. pc'[w] = "decide" => finding'[w] = verdict
    BY <1>1, <2>2 DEF Goto, Classified, JanitorTypeOK
  <2>5. Due(w)'
    <3>1. pc'[w] = "decide" /\ finding'[w].class = "expired" => Elapsed(snap[w], now)
      BY <2>3, <2>4
    <3>2. snap'[w] = snap[w] /\ now' = now /\ job'[w] = Absent /\ snap[w] # Absent
      BY <2>1, AbsentObjectAssumption
    <3> QED BY <3>1, <3>2 DEF Due, Elapsed
  <2>6. \A v \in Workers \ {w} : Resolved(v)
    BY <1>1, <2>1, <2>2 DEF Goto, Classified, Resolved, JanitorTypeOK
  <2> QED BY <2>5, <2>6
<1>7. CASE LookUpOwner(w) \/ ListPods(w) \/ ListDeployments(w)
  <2>1. /\ pc[w] \in {"owners", "pods", "deployments"} /\ job[w] = Absent
        /\ UNCHANGED <<job, snap>>
    BY <1>1, <1>7 DEF LookUpOwner, ListPods, ListDeployments, executorVars
  <2>2. \/ UNCHANGED <<pc, finding>>
        \/ Goto(w, "deployments") /\ UNCHANGED finding
        \/ \E found : found.class # "expired" /\ Classified(w, found)
    <3>1. CASE LookUpOwner(w)
      BY <3>1, RemoteVerdictsDoNotExpire DEF LookUpOwner
    <3>2. CASE ListPods(w)
      BY <3>2, RemoteVerdictsDoNotExpire DEF ListPods
    <3>3. CASE ListDeployments(w)
      BY <3>3, RemoteVerdictsDoNotExpire DEF ListDeployments
    <3> QED BY <1>7, <3>1, <3>2, <3>3
  <2>3. pc'[w] = "decide" => finding'[w].class # "expired"
    BY <1>1, <2>1, <2>2 DEF Goto, Classified, JanitorTypeOK
  <2>4. \A v \in Workers \ {w} : Resolved(v)
    BY <1>1, <2>1, <2>2 DEF Goto, Classified, Resolved, JanitorTypeOK
  <2> QED BY <2>1, <2>3, <2>4 DEF Due
<1>8. CASE Act(w) \/ Finish(w)
  <2>1. /\ UNCHANGED <<snap, finding>>
        /\ pc[w] = "decide" \/ job[w] # Absent
        /\ \E step \in {"executing", "done", "failed"} : pc' = [pc EXCEPT ![w] = step]
        /\ \E new : job' = job \/ job' = [job EXCEPT ![w] = new]
    <3>1. CASE Act(w)
      BY <3>1 DEF Act, Execute, Goto
    <3>2. CASE Finish(w)
      BY <1>1, <3>2, AbsentJobAssumption DEF Finish, Return, Goto, ExecutorTypeOK
    <3> QED BY <1>8, <3>1, <3>2
  <2>2. \A v \in Workers : Resolved(v)
    BY <1>1, <2>1 DEF Resolved, JanitorTypeOK, ExecutorTypeOK
  <2> QED BY <1>1, <2>2, ResolvedWorkers
<1>9. CASE ExecutorStep(w)
  <2>1. \A v \in Workers : Resolved(v)
    BY <1>9 DEF ExecutorStep, ReGet, SendDelete, Resolved, janitorVars, reconcileVars
  <2> QED BY <1>1, <2>1, ResolvedWorkers
<1>10. CASE Requeue(w) \/ Crash(w)
  <2>1. /\ pc' = [pc EXCEPT ![w] = "idle"]
        /\ job' = [job EXCEPT ![w] = Absent]
        /\ snap' = [snap EXCEPT ![w] = Absent]
        /\ finding' = [finding EXCEPT ![w] = NoFinding]
    BY <1>10 DEF Requeue, Crash, Forget, Goto, Abandon
  <2>2. pc'[w] # "decide" /\ job'[w] = Absent
    BY <1>1, <2>1 DEF JanitorTypeOK, ExecutorTypeOK
  <2>3. \A v \in Workers \ {w} : Resolved(v)
    BY <1>1, <2>1 DEF Resolved, JanitorTypeOK, ExecutorTypeOK
  <2> QED BY <2>2, <2>3 DEF Due
<1> QED BY <1>3, <1>4, <1>5, <1>6, <1>7, <1>8, <1>9, <1>10 DEF WorkerNext

-----------------------------------------------------------------------------
LEMMA ExpiryInvNext ==
    ASSUME JanitorInv, ExpiryInv, [Next]_vars
    PROVE  ExpiryInv'
<1>1. JanitorInv'
  BY JanitorInvNext
<1>2. /\ nextUid' \in Nat /\ now' \in Nat /\ JanitorTypeOK
  BY <1>1 DEF JanitorInv, JanitorTypeOK, ExecutorTypeOK, ClusterTypeOK
<1>3. Descends /\ now' >= now
  BY StepDescends
<1>4. BirthsAgree'
  BY <1>2, <1>3, BirthsAgreeStep DEF ExpiryInv
<1>5. FindingsHaveElapsed'
  BY <1>2, <1>3, FindingsHaveElapsedStep DEF ExpiryInv
<1> QED BY <1>4, <1>5 DEF ExpiryInv

\* An expired object that is deleted is expired when it goes, however long the
\* pipeline took and however far the caches lag, unless somebody moved its time
\* after the copy was taken (ttl_strategy.go:52-55, expiresat_strategy.go:49-52).
THEOREM JanitorNothingExpiresEarly == Spec => []NothingExpiresEarly
<1>1. Init => ExpiryInv
  <2>1. Init => Sightings = {}
    BY DEF Init, ClusterInit, ExecutorInit, Sightings
  <2>2. Init => \A w \in Workers : pc[w] = "idle" /\ job[w] = Absent
    BY DEF Init, ExecutorInit
  <2> QED BY <2>1, <2>2 DEF ExpiryInv, BirthsAgree, FindingsHaveElapsed
<1>2. JanitorInv /\ ExpiryInv => NothingExpiresEarly
  <2> SUFFICES ASSUME JanitorInv, ExpiryInv, NEW w \in Workers,
                      victim[w] # Absent, finding[w].class = "expired",
                      victim[w].uid = snap[w].uid, victim[w].meta = snap[w].meta
               PROVE  Elapsed(victim[w], now)
    BY DEF NothingExpiresEarly
  <2>1. job[w] # Absent
    BY AbsentJobAssumption DEF JanitorInv, JanitorTypeOK, ExecutorTypeOK
  <2>2. snap[w] # Absent /\ Elapsed(snap[w], now)
    BY <2>1 DEF ExpiryInv, FindingsHaveElapsed
  <2>3. victim[w] \in Sightings /\ snap[w] \in Sightings
    BY <2>2 DEF Sightings
  <2>4. victim[w].created = snap[w].created
    BY <2>3 DEF ExpiryInv, BirthsAgree
  <2> QED BY <2>2, <2>4 DEF Elapsed
<1> QED BY <1>1, <1>2, JanitorInvariant, ExpiryInvNext, PTL DEF Spec

-----------------------------------------------------------------------------
(* The chain in steps *)

\* FindingsAreOfTheChain of one worker.
Concluded(w) ==
    /\ todo[w] = {}
    /\ \E time \in 0..now :
         finding[w] = ClassifyWith(task[w], snap[w], time, live[w], Referenced(w))
    /\ finding[w].class = "abandoned" =>
         \A kind \in WorkloadKinds(task[w]) : answers[w][kind] = "none"

\* ChainInv of one worker.
OnTheChain(w) ==
    /\ pc[w] \in {"idle", "classify", "pods", "deployments"} => todo[w] = {}
    /\ pc[w] \in {"idle", "classify", "owners", "pods"} => answers[w] = Unasked
    /\ pc[w] \in {"classify", "owners", "pods", "deployments"} => task[w].kind = KindOf[w]
    /\ pc[w] = "deployments" => KindOf[w] = "Namespace" /\ answers[w]["pod"] = "none"
    /\ pc[w] \in {"owners", "pods", "deployments"} =>
         /\ \E time \in 0..now : ClassifyLocally(task[w], snap[w], time).class = "unknown"
         /\ pc[w] = "owners" <=> snap[w].meta.owners # {}
    /\ pc[w] = "decide" \/ job[w] # Absent => Concluded(w)

LEMMA ChainInvParts == ChainInv <=> \A w \in Workers : OnTheChain(w)
  BY DEF ChainInv, FindingsAreOfTheChain, OnTheChain, Concluded

\* A step takes worker v no further along the chain.
Stays(v) ==
    /\ pc'[v] \in {"idle", "classify", "owners", "pods", "deployments"} => pc'[v] = pc[v]
    /\ pc'[v] = "decide" \/ job'[v] # Absent => pc[v] = "decide" \/ job[v] # Absent
    /\ task'[v] = task[v]
    /\ snap'[v] = snap[v]
    /\ todo'[v] = todo[v]
    /\ live'[v] = live[v]
    /\ answers'[v] = answers[v]
    /\ finding'[v] = finding[v]

LEMMA StaysOnTheChain ==
    ASSUME NEW v \in Workers, OnTheChain(v), Stays(v), now \in Nat, now' \in Nat, now' >= now
    PROVE  OnTheChain(v)'
<1>1. \A time \in 0..now : time \in 0..now'
  OBVIOUS
<1>2. /\ pc'[v] \in {"idle", "classify", "pods", "deployments"} => todo'[v] = {}
      /\ pc'[v] \in {"idle", "classify", "owners", "pods"} => answers'[v] = Unasked
      /\ pc'[v] \in {"classify", "owners", "pods", "deployments"} => task'[v].kind = KindOf[v]
      /\ pc'[v] = "deployments" => KindOf[v] = "Namespace" /\ answers'[v]["pod"] = "none"
  BY DEF OnTheChain, Stays
<1>3. pc'[v] \in {"owners", "pods", "deployments"} =>
        /\ \E time \in 0..now' : ClassifyLocally(task'[v], snap'[v], time).class = "unknown"
        /\ pc'[v] = "owners" <=> snap'[v].meta.owners # {}
  BY <1>1 DEF OnTheChain, Stays
<1>4. pc'[v] = "decide" \/ job'[v] # Absent => Concluded(v)'
  <2> SUFFICES ASSUME pc'[v] = "decide" \/ job'[v] # Absent
               PROVE  Concluded(v)'
    OBVIOUS
  <2>1. Concluded(v)
    BY DEF OnTheChain, Stays
  <2>2. Referenced(v)' = Referenced(v)
    BY DEF Referenced, Stays
  <2> QED BY <1>1, <2>1, <2>2 DEF Concluded, Stays
<1> QED BY <1>2, <1>3, <1>4 DEF OnTheChain

\* The strategies that look at the copy and the clock call nothing abandoned.
LEMMA LocalVerdictsDoNotAbandon ==
    ASSUME NEW key \in Keys, NEW obj \in Object, NEW time \in Nat
    PROVE  ClassifyLocally(key, obj, time).class # "abandoned"
<1> DEFINE verdicts == LocalVerdicts(key, obj, time)
<1>1. verdicts \in Seq(Verdicts)
  BY LocalVerdictsType
<1>2. \A i \in DOMAIN verdicts : verdicts[i].class # "abandoned"
  BY DEF LocalVerdicts, ProtectionVerdict, FinalizerVerdict, TTLVerdict, ExpiresAtVerdict,
         Verdict, Passed, Failed
<1>3. Passed.class # "abandoned" /\ ClassifyLocally(key, obj, time) = FirstDecisive(verdicts)
  BY DEF Passed, Verdict, ClassifyLocally
<1> HIDE DEF verdicts
<1>4. FirstDecisive(verdicts) = Passed \/ \E i \in DOMAIN verdicts : FirstDecisive(verdicts) = verdicts[i]
  BY <1>1, FirstDecisiveChoice
<1> QED BY <1>2, <1>3, <1>4

\* The end of the chain: an answer of the API server completes what the
\* strategies before left open.
LEMMA RemoteFinding ==
    ASSUME NEW k \in Keys, NEW o \in Object, NEW found, NEW referenced \in BOOLEAN,
           NEW end \in Nat,
           \E time \in 0..end : ClassifyLocally(k, o, time).class = "unknown"
    PROVE  \E time \in 0..end :
             ClassifyWith(k, o, time, found, referenced) =
               IF o.meta.owners # {} THEN OwnerRefVerdict(o.meta, found)
               ELSE ResolverVerdict(referenced)
<1>1. PICK time \in 0..end : ClassifyLocally(k, o, time).class = "unknown"
  OBVIOUS
<1>2. OwnerRefVerdict(o.meta, found).class # "unknown" <=> o.meta.owners # {}
  BY DEF OwnerRefVerdict, Verdict, Passed
<1>3. time \in Nat
  OBVIOUS
<1> QED BY <1>1, <1>2, <1>3, ChainGoesOn

LEMMA ChainInvClassifyCopy ==
    ASSUME JanitorInv, NEW w \in Workers, OnTheChain(w), ClassifyCopy(w)
    PROVE  OnTheChain(w)'
<1> DEFINE verdict == ClassifyLocally(task[w], snap[w], now)
<1>1. /\ pc[w] = "classify"
      /\ job[w] = Absent
      /\ todo[w] = {}
      /\ task[w] \in Keys
      /\ snap[w] \in Object
      /\ now \in Nat
      /\ answers[w] = Unasked
      /\ task[w].kind = KindOf[w]
      /\ UNCHANGED <<job, task, snap, answers, now>>
  BY DEF JanitorInv, JanitorTypeOK, ExecutorTypeOK, ClusterTypeOK, StepsAreInOrder, OnTheChain,
         ClassifyCopy, executorVars, clusterVars
<1>2. /\ pc \in [Workers -> Steps]
      /\ todo \in [Workers -> SUBSET OwnerRef]
      /\ finding \in [Workers -> Finding]
  BY DEF JanitorInv, JanitorTypeOK
<1>3. CASE verdict.class = "error" /\ Goto(w, "failed")
  BY <1>1, <1>2, <1>3 DEF Goto, OnTheChain
<1>4. CASE verdict.class \notin {"error", "unknown"} /\ Classified(w, verdict) /\ UNCHANGED <<todo, live>>
  <2>1. /\ pc'[w] = "decide"
        /\ finding'[w] = verdict
        /\ todo'[w] = {}
    BY <1>1, <1>2, <1>4 DEF Classified, Goto
  <2>2. verdict = ClassifyWith(task[w], snap[w], now, live[w], Referenced(w))
    <3>1. \A found, referenced :
            ClassifyLocally(task[w], snap[w], now).class # "unknown" =>
              ClassifyWith(task[w], snap[w], now, found, referenced) =
                ClassifyLocally(task[w], snap[w], now)
      BY <1>1, ChainGoesOn
    <3> QED BY <1>4, <3>1
  <2>3. now \in 0..now' /\ verdict.class # "abandoned"
    BY <1>1, LocalVerdictsDoNotAbandon
  <2>4. UNCHANGED answers
    BY DEF ClassifyCopy
  <2> HIDE DEF verdict
  <2>5. Referenced(w)' = Referenced(w)
    BY <1>1, <2>4 DEF Referenced
  <2>6. \E time \in 0..now' :
          finding'[w] = ClassifyWith(task'[w], snap'[w], time, live'[w], Referenced(w)')
    BY <1>1, <1>4, <2>1, <2>2, <2>3, <2>5
  <2> QED BY <1>1, <2>1, <2>3, <2>6 DEF OnTheChain, Concluded
<1>5. CASE /\ verdict.class = "unknown"
           /\ Goto(w, Unanswered(snap[w].meta))
           /\ todo' = [todo EXCEPT ![w] = snap[w].meta.owners]
  <2>1. /\ pc'[w] = IF snap[w].meta.owners = {} THEN "pods" ELSE "owners"
        /\ todo'[w] = snap[w].meta.owners
    BY <1>2, <1>5 DEF Goto, Unanswered
  <2>2. \E time \in 0..now' : ClassifyLocally(task'[w], snap'[w], time).class = "unknown"
    <3>1. now \in 0..now'
      BY <1>1
    <3> QED BY <1>1, <1>5, <3>1
  <2> QED BY <1>1, <2>1, <2>2 DEF OnTheChain
<1> QED BY <1>3, <1>4, <1>5 DEF ClassifyCopy

\* A list that ends the questions has told whether the object is referred to:
\* no other list would, if it has not.
LEMMA AnswersTell ==
    ASSUME JanitorInv, NEW w \in Workers, OnTheChain(w),
           ListPods(w) \/ ListDeployments(w)
    PROVE  \/ /\ Goto(w, "deployments")
              /\ UNCHANGED finding
              /\ pc[w] = "pods"
              /\ KindOf[w] = "Namespace"
              /\ answers'[w]["pod"] = "none"
           \/ /\ Classified(w, ResolverVerdict(Referenced(w)'))
              /\ ~Referenced(w)' => \A kind \in WorkloadKinds(task[w]) : answers'[w][kind] = "none"
<1>1. /\ answers \in [Workers -> [{"pod", "deployment"} -> {"unasked", "none", "some"}]]
      /\ UNCHANGED task
      /\ KindOf[w] \in {"ConfigMap", "Namespace"}
      /\ WorkloadKinds(task[w]) \subseteq {"pod", "deployment"}
      /\ "pod" \in WorkloadKinds(task[w])
  BY JanitorAssumption
  DEF JanitorInv, JanitorTypeOK, ListPods, ListDeployments, WorkloadKinds, Kinds
<1>2. CASE ListPods(w)
  <2> DEFINE referenced == "pod" \in workloads[task[w]]
  <2>1. /\ pc[w] = "pods"
        /\ answers[w] = Unasked
        /\ task[w].kind = KindOf[w]
        /\ Answered(w, "pod", referenced)
        /\ IF KindOf[w] = "Namespace" /\ ~referenced
           THEN Goto(w, "deployments") /\ UNCHANGED finding
           ELSE Classified(w, ResolverVerdict(referenced))
    BY <1>2 DEF ListPods, LooksFurther, OnTheChain
  <2>2. referenced \in BOOLEAN
    OBVIOUS
  <2> HIDE DEF referenced
  <2>3. answers'[w]["pod"] = IF referenced THEN "some" ELSE "none"
    BY <1>1, <2>1 DEF Answered
  <2>4. CASE referenced
    BY <1>1, <2>1, <2>3, <2>4 DEF Referenced
  <2>5. CASE ~referenced /\ KindOf[w] = "ConfigMap"
    <3>1. WorkloadKinds(task[w]) = {"pod"}
      BY <2>1, <2>5 DEF WorkloadKinds
    <3>2. Referenced(w)' = FALSE
      BY <1>1, <2>3, <2>5, <3>1 DEF Referenced
    <3>3. ResolverVerdict(Referenced(w)') = ResolverVerdict(referenced)
      BY <2>5, <3>2 DEF ResolverVerdict
    <3> QED BY <2>1, <2>3, <2>5, <3>1, <3>3
  <2>6. CASE ~referenced /\ KindOf[w] = "Namespace"
    BY <2>1, <2>3, <2>6
  <2> QED BY <1>1, <2>2, <2>4, <2>5, <2>6
<1>3. CASE ListDeployments(w)
  <2> DEFINE referenced == "deployment" \in workloads[task[w]]
  <2>1. /\ answers[w]["pod"] = "none"
        /\ KindOf[w] = "Namespace"
        /\ task[w].kind = KindOf[w]
        /\ Answered(w, "deployment", referenced)
        /\ Classified(w, ResolverVerdict(referenced))
    BY <1>3 DEF ListDeployments, OnTheChain
  <2>2. referenced \in BOOLEAN
    OBVIOUS
  <2> HIDE DEF referenced
  <2>3. /\ answers'[w]["deployment"] = IF referenced THEN "some" ELSE "none"
        /\ answers'[w]["pod"] = "none"
    BY <1>1, <2>1 DEF Answered
  <2>4. WorkloadKinds(task[w]) = {"pod", "deployment"}
    BY <2>1 DEF WorkloadKinds
  <2>5. CASE referenced
    BY <1>1, <2>1, <2>3, <2>4, <2>5 DEF Referenced
  <2>6. CASE ~referenced
    <3>1. Referenced(w)' = FALSE
      BY <1>1, <2>3, <2>4, <2>6 DEF Referenced
    <3>2. ResolverVerdict(Referenced(w)') = ResolverVerdict(referenced)
      BY <2>6, <3>1 DEF ResolverVerdict
    <3> QED BY <2>1, <2>3, <2>4, <2>6, <3>2
  <2> QED BY <2>2, <2>5, <2>6
<1> QED BY <1>2, <1>3

LEMMA ChainInvRemote ==
    ASSUME JanitorInv, NEW w \in Workers, OnTheChain(w),
           LookUpOwner(w) \/ ListPods(w) \/ ListDeployments(w)
    PROVE  OnTheChain(w)'
<1>1. /\ pc[w] \in {"owners", "pods", "deployments"}
      /\ job[w] = Absent
      /\ task[w] \in Keys
      /\ snap[w] \in Object
      /\ now \in Nat
      /\ UNCHANGED <<job, task, snap, now>>
  BY DEF JanitorInv, JanitorTypeOK, ExecutorTypeOK, ClusterTypeOK, StepsAreInOrder,
         LookUpOwner, ListPods, ListDeployments, executorVars, clusterVars
<1>2. /\ \E time \in 0..now : ClassifyLocally(task[w], snap[w], time).class = "unknown"
      /\ pc[w] = "owners" <=> snap[w].meta.owners # {}
      /\ pc[w] # "owners" => todo[w] = {}
  BY <1>1 DEF OnTheChain
<1>3. /\ pc \in [Workers -> Steps]
      /\ todo \in [Workers -> SUBSET OwnerRef]
      /\ live \in [Workers -> SUBSET OwnerRef]
      /\ finding \in [Workers -> Finding]
  BY DEF JanitorInv, JanitorTypeOK
<1>4. \/ UNCHANGED <<pc, answers>> /\ pc[w] = "owners"
      \/ /\ pc[w] = "owners"
         /\ todo'[w] = {}
         /\ Classified(w, OwnerRefVerdict(snap[w].meta, live'[w]))
      \/ pc[w] # "owners" /\ UNCHANGED todo /\ (ListPods(w) \/ ListDeployments(w))
  <2>1. CASE LookUpOwner(w)
    BY <1>3, <2>1 DEF LookUpOwner
  <2>2. CASE ListPods(w) \/ ListDeployments(w)
    BY <2>2 DEF ListPods, ListDeployments
  <2> QED BY <2>1, <2>2
<1>5. CASE UNCHANGED <<pc, answers>> /\ pc[w] = "owners"
  BY <1>1, <1>2, <1>5 DEF OnTheChain
<1>6. CASE /\ Goto(w, "deployments")
           /\ UNCHANGED todo
           /\ pc[w] = "pods"
           /\ KindOf[w] = "Namespace"
           /\ answers'[w]["pod"] = "none"
  BY <1>1, <1>2, <1>3, <1>6 DEF OnTheChain, Goto
<1> DEFINE referenced == Referenced(w)'
<1>7. ASSUME Classified(w, IF snap[w].meta.owners # {} THEN OwnerRefVerdict(snap[w].meta, live'[w])
                           ELSE ResolverVerdict(referenced)),
             todo'[w] = {},
             snap[w].meta.owners = {} /\ ~referenced =>
               \A kind \in WorkloadKinds(task[w]) : answers'[w][kind] = "none"
      PROVE  OnTheChain(w)'
  <2>0. referenced \in BOOLEAN
    BY DEF Referenced
  <2> HIDE DEF referenced
  <2> DEFINE verdict == IF snap[w].meta.owners # {} THEN OwnerRefVerdict(snap[w].meta, live'[w])
                        ELSE ResolverVerdict(referenced)
  <2>1. PICK time \in 0..now : ClassifyWith(task[w], snap[w], time, live'[w], referenced) = verdict
    <3>1. \A found :
            \E time \in 0..now :
              ClassifyWith(task[w], snap[w], time, found, referenced) =
                IF snap[w].meta.owners # {} THEN OwnerRefVerdict(snap[w].meta, found)
                ELSE ResolverVerdict(referenced)
      <4>1. \A k \in Keys, o \in Object : \A found :
              (\E time \in 0..now : ClassifyLocally(k, o, time).class = "unknown") =>
                 \E time \in 0..now :
                   ClassifyWith(k, o, time, found, referenced) =
                     IF o.meta.owners # {} THEN OwnerRefVerdict(o.meta, found)
                     ELSE ResolverVerdict(referenced)
        BY <1>1, <2>0, RemoteFinding
      <4> QED BY <1>1, <1>2, <4>1
    <3> QED BY <3>1
  <2>2. pc'[w] = "decide" /\ finding'[w] = verdict
    BY <1>3, <1>7 DEF Classified, Goto
  <2>3. verdict.class = "abandoned" => snap[w].meta.owners = {} /\ ~referenced
    BY DEF OwnerRefVerdict, ResolverVerdict, Verdict, Passed
  <2> HIDE DEF verdict
  <2>4. finding'[w] = ClassifyWith(task'[w], snap'[w], time, live'[w], referenced)
    BY <1>1, <2>1, <2>2
  <2>5. time \in 0..now'
    BY <1>1, <2>1
  <2>6. Concluded(w)'
    BY <1>1, <1>7, <2>2, <2>3, <2>4, <2>5 DEF Concluded, referenced
  <2> QED BY <1>1, <2>2, <2>6 DEF OnTheChain
<1>8. CASE pc[w] # "owners" /\ UNCHANGED todo /\ (ListPods(w) \/ ListDeployments(w))
  <2>1. CASE /\ Classified(w, ResolverVerdict(Referenced(w)'))
             /\ ~Referenced(w)' =>
                  \A kind \in WorkloadKinds(task[w]) : answers'[w][kind] = "none"
    <3>1. snap[w].meta.owners = {} /\ todo'[w] = {}
      BY <1>1, <1>2, <1>8
    <3>2. Classified(w, ResolverVerdict(referenced))
      BY <2>1
    <3>3. ~referenced => \A kind \in WorkloadKinds(task[w]) : answers'[w][kind] = "none"
      BY <2>1
    <3> HIDE DEF referenced
    <3> QED BY <1>7, <3>1, <3>2, <3>3
  <2> QED BY <1>6, <1>8, <2>1, AnswersTell
<1>9. CASE /\ pc[w] = "owners"
           /\ todo'[w] = {}
           /\ Classified(w, OwnerRefVerdict(snap[w].meta, live'[w]))
  <2>1. snap[w].meta.owners # {}
    BY <1>2, <1>9
  <2> HIDE DEF referenced
  <2> QED BY <1>7, <1>9, <2>1
<1> QED BY <1>4, <1>5, <1>8, <1>9

LEMMA ChainInvNext ==
    ASSUME JanitorInv, ChainInv, [Next]_vars, now' \in Nat, now' >= now
    PROVE  ChainInv'
<1>1. /\ ExecutorTypeOK /\ JanitorTypeOK /\ now \in Nat
      /\ \A w \in Workers : OnTheChain(w)
      /\ \A w \in Workers :
           pc[w] \in {"idle", "classify", "owners", "pods", "deployments", "decide"} =>
             job[w] = Absent
  BY ChainInvParts
  DEF JanitorInv, JanitorTypeOK, ExecutorTypeOK, ClusterTypeOK, StepsAreInOrder
<1>2. SUFFICES \A w \in Workers : OnTheChain(w)'
  BY DEF ChainInv, FindingsAreOfTheChain, OnTheChain, Concluded
<1>3. SUFFICES ASSUME NEW w \in Workers, WorkerNext(w)
               PROVE  OnTheChain(w)' /\ \A v \in Workers \ {w} : Stays(v)
  <2>1. CASE UNCHANGED <<executorVars, reconcileVars>>
    <3>1. \A v \in Workers : Stays(v)
      BY <2>1 DEF Stays, executorVars, reconcileVars
    <3> QED BY <1>1, <3>1, StaysOnTheChain
  <2>2. CASE \E w \in Workers : WorkerNext(w)
    BY <1>1, <1>3, <2>2, StaysOnTheChain
  <2> QED BY <2>1, <2>2 DEF Next, vars, janitorVars
<1>4. CASE SyncPolicies(w) \/ \E key \in KeysOf(w) : SyncObject(w, key)
  <2>1. \A v \in Workers : Stays(v)
    BY <1>4 DEF SyncPolicies, SyncObject, Stays, executorVars, reconcileVars
  <2> QED BY <1>1, <2>1, StaysOnTheChain
<1>5. CASE \/ \E key \in KeysOf(w) : Fetch(w, key) \/ FetchMissing(w, key)
           \/ FetchFails(w) \/ ReadFails(w)
  <2>1. /\ pc[w] \in {"idle", "owners", "pods", "deployments", "decide"}
        /\ UNCHANGED <<job, todo, live, answers, finding>>
        /\ \E step \in {"classify", "done", "missing", "failed"} :
             /\ pc' = [pc EXCEPT ![w] = step]
             /\ step = "classify" => pc[w] = "idle"
    BY <1>5 DEF Fetch, FetchMissing, FetchFails, ReadFails, Goto, executorVars
  <2>2. /\ snap' = snap \/ \E obj : snap' = [snap EXCEPT ![w] = obj]
        /\ task' = task \/ \E key : task' = [task EXCEPT ![w] = key]
    BY <1>5 DEF Fetch, FetchMissing, FetchFails, ReadFails
  <2>3. /\ pc'[w] \in {"classify", "done", "missing", "failed"}
        /\ pc'[w] = "classify" => todo'[w] = {} /\ answers'[w] = Unasked
        /\ job'[w] = Absent
    BY <1>1, <2>1 DEF JanitorTypeOK, OnTheChain
  <2>4. \A v \in Workers \ {w} : Stays(v)
    BY <1>1, <2>1, <2>2 DEF Stays, JanitorTypeOK
  <2>5. pc'[w] = "classify" => task'[w].kind = KindOf[w]
    BY <1>1, <1>5 DEF Fetch, FetchMissing, FetchFails, ReadFails, Goto, KeysOf, JanitorTypeOK
  <2> QED BY <2>3, <2>4, <2>5 DEF OnTheChain
<1>6. CASE ClassifyCopy(w) \/ LookUpOwner(w) \/ ListPods(w) \/ ListDeployments(w)
  <2>1. OnTheChain(w)'
    BY <1>1, <1>6, ChainInvClassifyCopy, ChainInvRemote
  <2>2. UNCHANGED <<job, task, snap>>
    BY <1>6 DEF ClassifyCopy, LookUpOwner, ListPods, ListDeployments, executorVars
  <2>3. \A v \in Workers \ {w} : /\ pc'[v] = pc[v]
                                  /\ todo'[v] = todo[v]
                                  /\ live'[v] = live[v]
                                  /\ answers'[v] = answers[v]
                                  /\ finding'[v] = finding[v]
    <3>1. CASE ClassifyCopy(w)
      BY <1>1, <3>1 DEF ClassifyCopy, Classified, Goto, JanitorTypeOK
    <3>2. CASE LookUpOwner(w)
      BY <1>1, <3>2 DEF LookUpOwner, Classified, Goto, JanitorTypeOK
    <3>3. CASE ListPods(w) \/ ListDeployments(w)
      BY <1>1, <3>3 DEF ListPods, ListDeployments, Answered, Classified, Goto, JanitorTypeOK
    <3> QED BY <1>6, <3>1, <3>2, <3>3
  <2>4. \A v \in Workers \ {w} : Stays(v)
    BY <2>2, <2>3 DEF Stays
  <2> QED BY <2>1, <2>4
<1>7. CASE Act(w) \/ Finish(w)
  <2>1. /\ UNCHANGED <<task, snap, todo, live, answers, finding>>
        /\ pc[w] = "decide" \/ job[w] # Absent
        /\ \E step \in {"executing", "done", "failed"} : pc' = [pc EXCEPT ![w] = step]
        /\ \E new : job' = job \/ job' = [job EXCEPT ![w] = new]
    <3>1. CASE Act(w)
      BY <3>1 DEF Act, Execute, Goto
    <3>2. CASE Finish(w)
      BY <1>1, <3>2, AbsentJobAssumption DEF Finish, Return, Goto, ExecutorTypeOK
    <3> QED BY <1>7, <3>1, <3>2
  <2>2. \A v \in Workers : Stays(v)
    BY <1>1, <2>1 DEF Stays, JanitorTypeOK, ExecutorTypeOK
  <2> QED BY <1>1, <2>2, StaysOnTheChain
<1>8. CASE ExecutorStep(w)
  <2>1. \A v \in Workers : Stays(v)
    BY <1>8 DEF ExecutorStep, ReGet, SendDelete, Stays, janitorVars, reconcileVars
  <2> QED BY <1>1, <2>1, StaysOnTheChain
<1>9. CASE Requeue(w) \/ Crash(w)
  <2>1. /\ pc' = [pc EXCEPT ![w] = "idle"]
        /\ job' = [job EXCEPT ![w] = Absent]
        /\ task' = [task EXCEPT ![w] = Absent]
        /\ snap' = [snap EXCEPT ![w] = Absent]
        /\ todo' = [todo EXCEPT ![w] = {}]
        /\ live' = [live EXCEPT ![w] = {}]
        /\ answers' = [answers EXCEPT ![w] = Unasked]
        /\ finding' = [finding EXCEPT ![w] = NoFinding]
    BY <1>9 DEF Requeue, Crash, Forget, Goto, Abandon
  <2>2. pc'[w] = "idle" /\ job'[w] = Absent /\ todo'[w] = {} /\ answers'[w] = Unasked
    BY <1>1, <2>1 DEF JanitorTypeOK, ExecutorTypeOK
  <2>3. \A v \in Workers \ {w} : Stays(v)
    BY <1>1, <2>1 DEF Stays, JanitorTypeOK, ExecutorTypeOK
  <2> QED BY <2>2, <2>3 DEF OnTheChain
<1> QED BY <1>3, <1>4, <1>5, <1>6, <1>7, <1>8, <1>9 DEF WorkerNext

\* Taken apart into steps, between which the cluster, the clock and the other
\* workers move on, the chain finds what it finds in one piece of the owners the
\* worker found live and of the workloads its lists answered, and it calls an
\* object abandoned only after each list that could show a workload of it has
\* answered none (classifier.go:57-79, ownerref_strategy.go:56-104,
\* resolver_strategy.go:38-66, namespace_resolver.go:69-119).
THEOREM JanitorFindsWhatTheChainFinds == Spec => []FindingsAreOfTheChain
<1>1. Init => ChainInv
  <2>1. Init => \A w \in Workers : /\ pc[w] = "idle" /\ job[w] = Absent
                                   /\ todo[w] = {} /\ answers[w] = Unasked
    BY DEF Init, ExecutorInit
  <2> QED BY <2>1, ChainInvParts DEF OnTheChain
<1>2. ASSUME JanitorInv, ChainInv, [Next]_vars PROVE ChainInv'
  <2>1. JanitorInv'
    BY <1>2, JanitorInvNext
  <2>2. now' \in Nat /\ now' >= now
    BY <1>2, <2>1, StepDescends DEF JanitorInv, JanitorTypeOK, ExecutorTypeOK, ClusterTypeOK
  <2> QED BY <1>2, <2>2, ChainInvNext
<1>3. ChainInv => FindingsAreOfTheChain
  BY DEF ChainInv
<1> QED BY <1>1, <1>2, <1>3, JanitorInvariant, PTL DEF Spec

=============================================================================
