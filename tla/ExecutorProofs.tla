--------------------------- MODULE ExecutorProofs ---------------------------
(***************************************************************************)
(* The executor is type correct and its deletions are covered, for any     *)
(* cluster, any number of workers and any bounds.                          *)
(***************************************************************************)
EXTENDS Executor, TLAPS

executorAllVars == <<clusterVars, executorVars>>

-----------------------------------------------------------------------------
(* The cluster *)

\* A delete call leaves an object of the same UID, or none.
LEMMA AfterDeleteType ==
    ASSUME NEW key \in Keys, NEW obj \in Object
    PROVE  /\ AfterDelete(key, obj) \in Object \cup {Absent}
           /\ AfterDelete(key, obj) # Absent => AfterDelete(key, obj).uid = obj.uid
  BY DEF AfterDelete, Object

\* What any step of the cluster or of a worker may do to the objects: keep an
\* object's UID, remove it or create one with a UID not given out before.
ObjectsAdvance ==
    /\ nextUid' >= nextUid
    /\ \A key \in Keys :
         server'[key] # Absent =>
           \/ server[key] # Absent /\ server'[key].uid = server[key].uid
           \/ nextUid <= server'[key].uid /\ server'[key].uid < nextUid'

\* The environment keeps the cluster well typed and gives every UID once
\* (what the janitor's UID comparisons rest on).
LEMMA ClusterStep ==
    ASSUME ClusterTypeOK, ClusterNext
    PROVE  ClusterTypeOK' /\ ObjectsAdvance
<1> USE ClusterAssumption DEF ClusterTypeOK, ObjectsAdvance, Exists
<1>1. ASSUME NEW key \in Keys, CreateObject(key) PROVE ClusterTypeOK' /\ ObjectsAdvance
  <2>1. PICK meta \in Manifests[key] :
          server' = [server EXCEPT ![key] =
                       [uid |-> nextUid, created |-> now, terminating |-> FALSE, meta |-> meta]]
    BY <1>1 DEF CreateObject
  <2> DEFINE obj == [uid |-> nextUid, created |-> now, terminating |-> FALSE, meta |-> meta]
  <2>2. obj \in Object /\ obj.uid = nextUid
    BY <2>1 DEF Object
  <2>3. /\ server' = [server EXCEPT ![key] = obj]
        /\ nextUid' = nextUid + 1
        /\ UNCHANGED <<ownerUid, workloads, policies, now>>
    BY <1>1, <2>1 DEF CreateObject
  <2> HIDE DEF obj
  <2>4. ClusterTypeOK'
    BY <2>2, <2>3
  <2>5. ObjectsAdvance
    BY <2>2, <2>3
  <2> QED BY <2>4, <2>5
<1>2. ASSUME NEW key \in Keys, EditObject(key) PROVE ClusterTypeOK' /\ ObjectsAdvance
  <2>1. PICK meta \in Manifests[key] : server' = [server EXCEPT ![key].meta = meta]
    BY <1>2 DEF EditObject
  <2>2. server[key] \in Object
    BY <1>2 DEF EditObject
  <2>3. /\ server'[key] \in Object
        /\ server'[key].uid = server[key].uid
    BY <2>1, <2>2 DEF Object
  <2> QED BY <1>2, <2>1, <2>2, <2>3 DEF EditObject
<1>3. ASSUME NEW key \in Keys, DeleteObject(key) PROVE ClusterTypeOK' /\ ObjectsAdvance
  BY <1>3, AfterDeleteType DEF DeleteObject
<1>4. ASSUME NEW key \in Keys, Cascade(key) PROVE ClusterTypeOK' /\ ObjectsAdvance
  BY <1>4, AfterDeleteType DEF Cascade
<1>5. ASSUME NEW key \in Keys, FinishTermination(key) PROVE ClusterTypeOK' /\ ObjectsAdvance
  BY <1>5 DEF FinishTermination
<1>6. ASSUME NEW key \in Keys, ChangeWorkloads(key) PROVE ClusterTypeOK' /\ ObjectsAdvance
  BY <1>6 DEF ChangeWorkloads
<1>7. ASSUME NEW owner \in Owners, OwnerDies(owner) PROVE ClusterTypeOK' /\ ObjectsAdvance
  BY <1>7 DEF OwnerDies
<1>8. ASSUME NEW owner \in Owners, OwnerReturns(owner) PROVE ClusterTypeOK' /\ ObjectsAdvance
  BY <1>8 DEF OwnerReturns
<1>9. CASE ChangePolicies
  BY <1>9 DEF ChangePolicies
<1>10. CASE Tick
  BY <1>10 DEF Tick
<1> QED BY <1>1, <1>2, <1>3, <1>4, <1>5, <1>6, <1>7, <1>8, <1>9, <1>10 DEF ClusterNext

-----------------------------------------------------------------------------
(* The executor: each action keeps ExecutorInv.  The lemmas are about the  *)
(* actions alone, so that the janitor's proofs can cite them as well.      *)

LEMMA ExecutorInvInit ==
    ASSUME ExecutorInitial
    PROVE  ExecutorInv
<1>1. ExecutorTypeOK
  BY ClusterAssumption
  DEF ExecutorInitial, ClusterInit, ExecutorInit, ExecutorTypeOK, ClusterTypeOK, Results
<1> QED
  BY <1>1
  DEF ExecutorInitial, ClusterInit, ExecutorInit, ExecutorInv, UidsAreGivenOut,
      DeletionsAreMeant, PreflightHolds, DeletionsAreCovered, Exists

\* A step of the cluster, or of a worker outside Execute.
LEMMA ExecutorInvEnvironment ==
    ASSUME ExecutorInv, ClusterTypeOK', ObjectsAdvance, UNCHANGED executorVars
    PROVE  ExecutorInv'
<1> USE DEF ExecutorInv, ExecutorTypeOK, ClusterTypeOK, executorVars, ObjectsAdvance, Exists
<1>1. ExecutorTypeOK'
  OBVIOUS
<1>2. UidsAreGivenOut'
  <2> SUFFICES ASSUME NEW key \in Keys, server'[key] # Absent
               PROVE  server'[key].uid < nextUid'
    BY DEF UidsAreGivenOut
  <2>1. server'[key].uid \in Nat
    BY DEF Object
  <2>2. CASE server[key] # Absent /\ server'[key].uid = server[key].uid
    BY <2>1, <2>2 DEF UidsAreGivenOut
  <2>3. CASE nextUid <= server'[key].uid /\ server'[key].uid < nextUid'
    BY <2>3
  <2> QED BY <2>2, <2>3
<1>3. DeletionsAreMeant'
  BY DEF DeletionsAreMeant
<1>4. PreflightHolds'
  <2> SUFFICES ASSUME NEW w \in Workers, epc[w] = "delete"
               PROVE  /\ fresh[w] \in Object
                      /\ PassesPreflight(job[w].uid, fresh[w])
                      /\ fresh[w].uid < nextUid'
                      /\ server'[job[w].key] # Absent =>
                           server'[job[w].key].uid >= fresh[w].uid
    BY DEF PreflightHolds
  <2>1. /\ fresh[w] \in Object
        /\ PassesPreflight(job[w].uid, fresh[w])
        /\ fresh[w].uid < nextUid
        /\ server[job[w].key] # Absent => server[job[w].key].uid >= fresh[w].uid
    BY DEF PreflightHolds
  <2>2. fresh[w].uid \in Nat /\ job[w].key \in Keys
    BY <2>1 DEF Object, Jobs
  <2>3. fresh[w].uid < nextUid'
    BY <2>1, <2>2
  <2>4. ASSUME server'[job[w].key] # Absent
        PROVE  server'[job[w].key].uid >= fresh[w].uid
    <3>1. server'[job[w].key].uid \in Nat
      BY <2>2, <2>4 DEF Object
    <3>2. CASE /\ server[job[w].key] # Absent
               /\ server'[job[w].key].uid = server[job[w].key].uid
      BY <2>1, <3>2
    <3>3. CASE nextUid <= server'[job[w].key].uid
      BY <2>1, <2>2, <3>1, <3>3
    <3> QED BY <2>2, <2>4, <3>2, <3>3
  <2> QED BY <2>1, <2>3, <2>4
<1>5. DeletionsAreCovered'
  BY DEF DeletionsAreCovered
<1> QED BY <1>1, <1>2, <1>3, <1>4, <1>5

\* Execute is called with any key, UID and decision.
LEMMA ExecutorInvExecute ==
    ASSUME ExecutorInv, NEW w \in Workers, NEW key \in Keys, NEW uid \in Nat,
           NEW decision \in Decision,
           Execute(w, key, uid, decision), UNCHANGED clusterVars
    PROVE  ExecutorInv'
<1> USE DEF ExecutorInv, ExecutorTypeOK, ClusterTypeOK, clusterVars, Execute, ReturnWith
<1>1. ExecutorTypeOK'
  BY DEF Jobs, Results
<1>2. UidsAreGivenOut'
  BY DEF UidsAreGivenOut, Exists
<1>3. DeletionsAreMeant'
  BY DEF DeletionsAreMeant, Simulated, RefusesNamespace, InProtectedNamespace
<1>4. PreflightHolds'
  BY DEF PreflightHolds, Exists
<1>5. DeletionsAreCovered'
  BY DEF DeletionsAreCovered
<1> QED BY <1>1, <1>2, <1>3, <1>4, <1>5

LEMMA ExecutorInvReGet ==
    ASSUME ExecutorInv, NEW w \in Workers, ReGet(w)
    PROVE  ExecutorInv'
<1> USE DEF ExecutorInv, ExecutorTypeOK, ClusterTypeOK, clusterVars, ReGet, ReturnWith
<1>1. ExecutorTypeOK'
  BY DEF Results, Jobs
<1>2. UidsAreGivenOut'
  BY DEF UidsAreGivenOut, Exists
<1>3. DeletionsAreMeant'
  BY DEF DeletionsAreMeant
<1>4. PreflightHolds'
  BY DEF PreflightHolds, UidsAreGivenOut, Exists, Jobs, Object
<1>5. DeletionsAreCovered'
  BY DEF DeletionsAreCovered, DeletionsAreMeant
<1> QED BY <1>1, <1>2, <1>3, <1>4, <1>5

LEMMA ExecutorInvSendDelete ==
    ASSUME ExecutorInv, NEW w \in Workers, SendDelete(w)
    PROVE  ExecutorInv'
<1> USE DEF SendDelete
<1> DEFINE key == job[w].key
<1>1. /\ key \in Keys
      /\ fresh[w] \in Object
      /\ PassesPreflight(job[w].uid, fresh[w])
      /\ fresh[w].uid < nextUid
      /\ Exists(key) => server[key].uid >= fresh[w].uid
      /\ job[w].decision.action = "delete"
      /\ ~job[w].decision.dryRun
      /\ ~InProtectedNamespace(key)
  BY DEF ExecutorInv, ExecutorTypeOK, PreflightHolds, DeletionsAreMeant, Jobs
<1> HIDE DEF key
<1>2. CASE Hit(w)
  <2>1. /\ Exists(key)
        /\ server' = [server EXCEPT ![key] = AfterDelete(key, server[key])]
        /\ victim' = [victim EXCEPT ![w] = server[key]]
        /\ \E how \in {"deleted", "undeleted"} : ReturnWith(w, how)
    BY <1>2 DEF Hit, key
  <2>2. server[key] \in Object
    BY <1>1, <2>1 DEF ExecutorInv, ExecutorTypeOK, ClusterTypeOK, Exists
  <2>3. /\ AfterDelete(key, server[key]) \in Object \cup {Absent}
        /\ AfterDelete(key, server[key]) # Absent =>
             AfterDelete(key, server[key]).uid = server[key].uid
    BY <1>1, <2>2, AfterDeleteType
  <2>4. /\ server' \in [Keys -> Object \cup {Absent}]
        /\ \A k \in Keys : server'[k] # Absent =>
             server[k] # Absent /\ server'[k].uid = server[k].uid
    BY <1>1, <2>1, <2>3 DEF ExecutorInv, ExecutorTypeOK, ClusterTypeOK, Exists
  <2>5. ExecutorTypeOK'
    BY <2>1, <2>2, <2>4
    DEF ExecutorInv, ExecutorTypeOK, ClusterTypeOK, Results, ReturnWith
  <2>6. UidsAreGivenOut'
    BY <2>4 DEF ExecutorInv, UidsAreGivenOut, Exists
  <2>7. DeletionsAreMeant'
    BY <2>1 DEF ExecutorInv, ExecutorTypeOK, DeletionsAreMeant, ReturnWith
  <2>8. PreflightHolds'
    BY <2>1, <2>4 DEF ExecutorInv, ExecutorTypeOK, PreflightHolds, ReturnWith, Exists, Jobs
  <2>9. DeletionsAreCovered'
    BY <1>1, <2>1
    DEF ExecutorInv, ExecutorTypeOK, DeletionsAreCovered, PassesPreflight, key
  <2> QED BY <2>5, <2>6, <2>7, <2>8, <2>9 DEF ExecutorInv
<1>3. CASE Missed(w) \/ Rejected(w)
  <2>1. /\ UNCHANGED <<server, victim>>
        /\ \E how \in {"gone", "undeleted"} : ReturnWith(w, how)
    BY <1>3 DEF Missed, Rejected
  <2>2. ExecutorTypeOK'
    BY <2>1 DEF ExecutorInv, ExecutorTypeOK, ClusterTypeOK, Results, ReturnWith
  <2>3. UidsAreGivenOut' /\ DeletionsAreCovered'
    BY <2>1 DEF ExecutorInv, UidsAreGivenOut, Exists, DeletionsAreCovered
  <2>4. DeletionsAreMeant' /\ PreflightHolds'
    BY <2>1 DEF ExecutorInv, ExecutorTypeOK, DeletionsAreMeant, PreflightHolds, ReturnWith, Exists
  <2> QED BY <2>2, <2>3, <2>4 DEF ExecutorInv
<1> QED BY <1>2, <1>3

\* The caller takes the result, or the process dies.
LEMMA ExecutorInvLeave ==
    ASSUME ExecutorInv, NEW w \in Workers,
           \/ Return(w)
           \/ Abandon(w) /\ UNCHANGED clusterVars
    PROVE  ExecutorInv'
<1> USE DEF ExecutorInv, ExecutorTypeOK, ClusterTypeOK, clusterVars, Return, Abandon
<1>1. ExecutorTypeOK'
  BY DEF Results
<1>2. UidsAreGivenOut'
  BY DEF UidsAreGivenOut, Exists
<1>3. DeletionsAreMeant' /\ PreflightHolds'
  BY DEF DeletionsAreMeant, PreflightHolds, Exists
<1>4. DeletionsAreCovered'
  BY DEF DeletionsAreCovered
<1> QED BY <1>1, <1>2, <1>3, <1>4

-----------------------------------------------------------------------------
LEMMA ExecutorInvNext ==
    ASSUME ExecutorInv, [ExecutorNext]_executorAllVars
    PROVE  ExecutorInv'
<1>1. CASE ClusterNext /\ UNCHANGED executorVars
  BY <1>1, ClusterStep, ExecutorInvEnvironment DEF ExecutorInv, ExecutorTypeOK
<1>2. ASSUME NEW w \in Workers, Call(w) PROVE ExecutorInv'
  <2>1. PICK key \in Keys, uid \in 1..(nextUid - 1), decision \in Decision :
          Execute(w, key, uid, decision)
    BY <1>2 DEF Call
  <2>2. uid \in Nat
    OBVIOUS
  <2> QED BY <1>2, <2>1, <2>2, ExecutorInvExecute DEF Call
<1>3. ASSUME NEW w \in Workers, ReGet(w) PROVE ExecutorInv'
  BY <1>3, ExecutorInvReGet
<1>4. ASSUME NEW w \in Workers, SendDelete(w) PROVE ExecutorInv'
  BY <1>4, ExecutorInvSendDelete
<1>5. ASSUME NEW w \in Workers, Return(w) \/ Die(w) PROVE ExecutorInv'
  BY <1>5, ExecutorInvLeave DEF Die
<1>6. CASE UNCHANGED executorAllVars
  <2>1. ClusterTypeOK' /\ ObjectsAdvance
    BY <1>6
    DEF ExecutorInv, ExecutorTypeOK, ClusterTypeOK, ObjectsAdvance, executorAllVars, clusterVars
  <2> QED BY <1>6, <2>1, ExecutorInvEnvironment DEF executorAllVars
<1> QED BY <1>1, <1>2, <1>3, <1>4, <1>5, <1>6 DEF ExecutorNext

\* The invariant itself: what is meant before the re-GET, and what is still
\* known between the re-GET and the DELETE (executor.go:86-171).
THEOREM ExecutorInvariant == ExecutorSpec => []ExecutorInv
  BY ExecutorInvInit, ExecutorInvNext, PTL DEF ExecutorSpec, executorAllVars

\* The executor's state has its type in every state of every behaviour
\* (executor.go:63-171 called with any finding and any decision).
THEOREM ExecutorTypeCorrect == ExecutorSpec => []ExecutorTypeOK
<1>1. ExecutorInv => ExecutorTypeOK
  BY DEF ExecutorInv
<1> QED BY <1>1, ExecutorInvariant, PTL

\* Whatever the executor deletes it was told to delete, is in no protected
\* namespace, passed the pre-flight checks and is at least as young as the
\* object of the finding (executor.go:86-149).
THEOREM ExecutorDeletionsAreCovered == ExecutorSpec => []DeletionsAreCovered
<1>1. ExecutorInv => DeletionsAreCovered
  BY DEF ExecutorInv
<1> QED BY <1>1, ExecutorInvariant, PTL

-----------------------------------------------------------------------------
(* The executor implements the safe deletion *)

\* A function that differs from another one in one place.
LEMMA DiffersAt ==
    ASSUME NEW S, NEW f, NEW g, NEW x \in S,
           f = [y \in S |-> f[y]], g = [y \in S |-> g[y]],
           \A y \in S \ {x} : g[y] = f[y]
    PROVE  g = [f EXCEPT ![x] = g[x]]
  OBVIOUS

\* An object seen from outside is there when it is there.
LEMMA SeenType ==
    ASSUME NEW obj \in Object
    PROVE  [uid |-> obj.uid, free |-> obj.meta.owners = {} /\ ~HasForeignFinalizer(obj.meta)] # Absent
<1> DEFINE free == obj.meta.owners = {} /\ ~HasForeignFinalizer(obj.meta)
           seen == [uid |-> obj.uid, free |-> free]
<1>1. free \in BOOLEAN /\ obj.uid \in Nat
  BY DEF HasForeignFinalizer, Object
<1> HIDE DEF free
<1>2. seen \in [uid : Nat, free : BOOLEAN]
  BY <1>1
<1> HIDE DEF seen
<1>3. seen # Absent
  BY <1>2, AbsentWarrantAssumption
<1> QED BY <1>3 DEF seen, free

LEMMA ClusterIsWorld ==
    ASSUME ClusterTypeOK, ObjectsAdvance, UNCHANGED executorVars
    PROVE  Safe!World
<1>1. UNCHANGED <<epc, job, fresh, victim>>
  BY DEF executorVars
<1>2. ASSUME NEW key \in Keys, server'[key] # Absent
      PROVE  \/ server[key] # Absent /\ server'[key].uid = server[key].uid
             \/ nextUid <= server'[key].uid /\ server'[key].uid < nextUid'
  BY <1>2 DEF ObjectsAdvance
<1>3. ASSUME NEW key \in Keys, server[key] # Absent
      PROVE  [uid |-> server[key].uid,
              free |-> server[key].meta.owners = {} /\ ~HasForeignFinalizer(server[key].meta)] # Absent
  BY <1>3, SeenType DEF ClusterTypeOK
<1> QED BY <1>1, <1>2, <1>3 DEF Safe!World, Exists, ObjectsAdvance

LEMMA LeavingIsWithdrawing ==
    ASSUME ExecutorInv, NEW w \in Workers,
           UNCHANGED clusterVars,
           epc' \in [Workers -> {"idle", "reget", "delete", "returned"}],
           epc'[w] # "delete",
           \A v \in Workers \ {w} :
             epc'[v] = epc[v] /\ job'[v] = job[v] /\ fresh'[v] = fresh[v] /\ victim'[v] = victim[v],
           victim'[w] \in {victim[w], Absent}
    PROVE  Safe!Withdraw(w)
  BY DEF Safe!Withdraw, clusterVars, Exists

LEMMA StepIsSafe ==
    ASSUME ExecutorInv, [ExecutorNext]_executorAllVars
    PROVE  [Safe!Next]_(Safe!safeVars)
<1>0. ExecutorTypeOK /\ ClusterTypeOK
  BY DEF ExecutorInv, ExecutorTypeOK
<1>1. CASE ClusterNext /\ UNCHANGED executorVars
  BY <1>0, <1>1, ClusterStep, ClusterIsWorld DEF Safe!Next
<1>2. ASSUME NEW w \in Workers, Call(w) \/ Return(w) \/ Die(w) PROVE Safe!Withdraw(w)
  <2>1. /\ UNCHANGED clusterVars
        /\ epc' \in [Workers -> {"idle", "reget", "delete", "returned"}]
        /\ epc'[w] # "delete"
        /\ \A v \in Workers \ {w} :
             epc'[v] = epc[v] /\ job'[v] = job[v] /\ fresh'[v] = fresh[v] /\ victim'[v] = victim[v]
        /\ victim'[w] \in {victim[w], Absent}
    BY <1>0, <1>2 DEF Call, Execute, ReturnWith, Return, Die, Abandon, ExecutorTypeOK
  <2> QED BY <2>1, LeavingIsWithdrawing
<1>3. ASSUME NEW w \in Workers, ReGet(w) PROVE Safe!Issue(w) \/ Safe!Withdraw(w)
  <2>1. CASE epc'[w] = "delete"
    <3>1. /\ epc' = [epc EXCEPT ![w] = "delete"]
          /\ fresh' = [fresh EXCEPT ![w] = server[job[w].key]]
          /\ epc[w] = "reget"
          /\ server[job[w].key] # Absent
          /\ PassesPreflight(job[w].uid, server[job[w].key])
          /\ UNCHANGED <<clusterVars, job, victim>>
      BY <1>0, <1>3, <2>1 DEF ReGet, ReturnWith, ExecutorTypeOK
    <3>2. job[w].key \in Keys /\ ~InProtectedNamespace(job[w].key)
      BY <1>0, <3>1 DEF ExecutorInv, DeletionsAreMeant, ExecutorTypeOK, Jobs
    <3> DEFINE key == job[w].key
               Warrant(v) == IF epc[v] = "delete"
                             THEN [key |-> job[v].key, uid |-> fresh[v].uid] ELSE Absent
    <3>3. /\ server[key].meta.owners = {} /\ ~HasForeignFinalizer(server[key].meta)
          /\ Warrant(w) = Absent
          /\ Warrant(w)' = [key |-> key, uid |-> server[key].uid]
          /\ \A v \in Workers \ {w} : Warrant(v)' = Warrant(v)
      BY <1>0, <3>1 DEF PassesPreflight, ExecutorTypeOK
    <3> HIDE DEF Warrant
    <3>4. [v \in Workers |-> Warrant(v)'] =
            [[v \in Workers |-> Warrant(v)] EXCEPT ![w] = [key |-> key, uid |-> server[key].uid]]
      BY <3>3
    <3>5. [uid |-> server[key].uid,
           free |-> server[key].meta.owners = {} /\ ~HasForeignFinalizer(server[key].meta)] # Absent
      BY <1>0, <3>1, <3>2, SeenType DEF ClusterTypeOK
    <3> QED BY <3>1, <3>2, <3>3, <3>4, <3>5 DEF Safe!Issue, Exists, Warrant, clusterVars
  <2>2. CASE epc'[w] # "delete"
    <3>1. /\ UNCHANGED clusterVars
          /\ epc' \in [Workers -> {"idle", "reget", "delete", "returned"}]
          /\ \A v \in Workers \ {w} :
               epc'[v] = epc[v] /\ job'[v] = job[v] /\ fresh'[v] = fresh[v] /\ victim'[v] = victim[v]
          /\ victim'[w] = victim[w]
      BY <1>0, <1>3, <2>2 DEF ReGet, ReturnWith, ExecutorTypeOK
    <3> QED BY <2>2, <3>1, LeavingIsWithdrawing
  <2> QED BY <2>1, <2>2
<1>4. ASSUME NEW w \in Workers, SendDelete(w) PROVE Safe!Strike(w) \/ Safe!Withdraw(w)
  <2>1. epc[w] = "delete" /\ UNCHANGED <<ownerUid, workloads, policies, nextUid, now, job, fresh>>
    BY <1>4 DEF SendDelete
  <2>2. CASE Missed(w) \/ Rejected(w)
    <3>1. /\ UNCHANGED clusterVars
          /\ epc' = [epc EXCEPT ![w] = "returned"]
          /\ UNCHANGED victim
      BY <2>1, <2>2 DEF Missed, Rejected, ReturnWith, clusterVars
    <3> QED BY <1>0, <2>1, <3>1, LeavingIsWithdrawing DEF ExecutorTypeOK
  <2>3. CASE Hit(w)
    <3>0. PICK key \in Keys : key = job[w].key
      BY <1>0, <2>1 DEF ExecutorTypeOK, Jobs
    <3>1. /\ server[key] # Absent
          /\ server' = [server EXCEPT ![key] = AfterDelete(key, server[key])]
          /\ victim' = [victim EXCEPT ![w] = server[key]]
          /\ epc' = [epc EXCEPT ![w] = "returned"]
      BY <2>3, <3>0 DEF Hit, ReturnWith, Exists
    <3>2. server[key] \in Object /\ server[key].uid >= fresh[w].uid
      BY <1>0, <2>1, <3>0, <3>1 DEF ExecutorInv, PreflightHolds, Exists, ClusterTypeOK
    <3>3. \/ AfterDelete(key, server[key]) = Absent
          \/ /\ AfterDelete(key, server[key]) # Absent
             /\ AfterDelete(key, server[key]).uid = server[key].uid
             /\ AfterDelete(key, server[key]).meta = server[key].meta
      BY <3>1, <3>2, AbsentObjectAssumption DEF AfterDelete, Object
    <3> DEFINE Seen(obj) == [uid |-> obj.uid,
                             free |-> obj.meta.owners = {} /\ ~HasForeignFinalizer(obj.meta)]
               Thing(k) == IF server[k] # Absent THEN Seen(server[k]) ELSE Absent
               Warrant(v) == IF epc[v] = "delete"
                             THEN [key |-> job[v].key, uid |-> fresh[v].uid] ELSE Absent
               Struck(v) == IF victim[v] = Absent THEN Absent ELSE victim[v].uid
    <3>4. /\ Warrant(w) = [key |-> key, uid |-> fresh[w].uid]
          /\ Warrant(w) # Absent
          /\ Warrant(w)' = Absent
          /\ \A v \in Workers \ {w} : Warrant(v)' = Warrant(v)
      BY <1>0, <2>1, <3>0, <3>1, AbsentWarrantAssumption
      DEF ExecutorInv, PreflightHolds, ExecutorTypeOK, Object
    <3>5. /\ Struck(w)' = server[key].uid
          /\ \A v \in Workers \ {w} : Struck(v)' = Struck(v)
      BY <1>0, <3>1 DEF ExecutorTypeOK
    <3>6. /\ Thing(key).uid = server[key].uid
          /\ Thing(key) # Absent
          /\ Thing(key)' \in {Thing(key), Absent}
          /\ \A k \in Keys \ {key} : Thing(k)' = Thing(k)
      <4>1. server'[key] = AfterDelete(key, server[key])
        BY <1>0, <3>1 DEF ClusterTypeOK
      <4>2. \/ server'[key] = Absent
            \/ server'[key] # Absent /\ Seen(server'[key]) = Seen(server[key])
        <5>1. ASSUME NEW obj, NEW other, obj.uid = other.uid, obj.meta = other.meta
              PROVE  Seen(obj) = Seen(other)
          BY <5>1 DEF HasForeignFinalizer
        <5> QED BY <3>3, <4>1, <5>1
      <4>3. \A k \in Keys \ {key} : server'[k] = server[k]
        BY <1>0, <3>1 DEF ClusterTypeOK
      <4>4. Seen(server[key]) # Absent /\ Seen(server[key]).uid = server[key].uid
        BY <3>2, SeenType
      <4> QED BY <3>1, <4>2, <4>3, <4>4
    <3> HIDE DEF Thing, Warrant, Struck
    <3>7. [v \in Workers |-> Warrant(v)'] =
            [[v \in Workers |-> Warrant(v)] EXCEPT ![w] = Absent]
      <4> DEFINE f == [v \in Workers |-> Warrant(v)]
                 g == [v \in Workers |-> Warrant(v)']
      <4>1. /\ f = [v \in Workers |-> f[v]]
            /\ g = [v \in Workers |-> g[v]]
            /\ \A v \in Workers \ {w} : g[v] = f[v]
            /\ g[w] = Absent
        BY <3>4
      <4> HIDE DEF f, g
      <4>2. g = [f EXCEPT ![w] = Absent]
        BY <4>1, DiffersAt
      <4> QED BY <4>2 DEF f, g
    <3>8. [v \in Workers |-> Struck(v)'] =
            [[v \in Workers |-> Struck(v)] EXCEPT ![w] = server[key].uid]
      BY <3>5
    <3>9. \/ [k \in Keys |-> Thing(k)'] = [k \in Keys |-> Thing(k)]
          \/ [k \in Keys |-> Thing(k)'] = [[k \in Keys |-> Thing(k)] EXCEPT ![key] = Absent]
      <4>1. CASE Thing(key)' = Thing(key)
        BY <3>6, <4>1
      <4>2. CASE Thing(key)' = Absent
        <5> DEFINE f == [k \in Keys |-> Thing(k)]
                   g == [k \in Keys |-> Thing(k)']
        <5>1. /\ f = [k \in Keys |-> f[k]]
              /\ g = [k \in Keys |-> g[k]]
              /\ \A k \in Keys \ {key} : g[k] = f[k]
              /\ g[key] = Absent
          BY <3>6, <4>2
        <5> HIDE DEF f, g
        <5>2. g = [f EXCEPT ![key] = Absent]
          BY <5>1, DiffersAt
        <5> QED BY <5>2 DEF f, g
      <4> QED BY <3>6, <4>1, <4>2
    <3> QED BY <2>1, <3>0, <3>1, <3>2, <3>4, <3>6, <3>7, <3>8, <3>9 DEF Safe!Strike, Exists, Thing, Warrant, Struck
  <2> QED BY <2>1, <2>2, <2>3, <1>4 DEF SendDelete
<1>5. CASE UNCHANGED executorAllVars
  BY <1>5 DEF Safe!safeVars, executorAllVars, clusterVars, executorVars, Exists
<1> QED BY <1>1, <1>2, <1>3, <1>4, <1>5 DEF ExecutorNext, Safe!Next

\* The executor implements the safe deletion, whatever it is called with and
\* however the cluster moves between its calls (executor.go:107-171).
THEOREM ExecutorImplementsSafeDeletion == ExecutorSpec => ImplementsSafeDeletion
<1>1. ExecutorInitial => Safe!Init
  BY DEF ExecutorInitial, ClusterInit, ExecutorInit, Safe!Init, Exists
<1> QED
  BY <1>1, ExecutorInvInit, ExecutorInvNext, StepIsSafe, PTL
  DEF ExecutorSpec, executorAllVars, ImplementsSafeDeletion, Safe!Spec

-----------------------------------------------------------------------------
(* Each deletion is counted once *)

\* A step of the cluster keeps the UIDs of the objects apart.
LEMMA ClusterKeepsUidsApart ==
    ASSUME ClusterTypeOK, ClusterNext, UidsAreUnique, UidsAreGivenOut
    PROVE  UidsAreUnique'
<1> USE DEF ClusterTypeOK, UidsAreUnique, UidsAreGivenOut, Exists
<1>1. ASSUME NEW key \in Keys, CreateObject(key) PROVE UidsAreUnique'
  <2>1. \E obj : server' = [server EXCEPT ![key] = obj] /\ obj.uid = nextUid
    <3>1. PICK meta \in Manifests[key] :
            server' = [server EXCEPT ![key] =
                         [uid |-> nextUid, created |-> now, terminating |-> FALSE, meta |-> meta]]
      BY <1>1 DEF CreateObject
    <3> WITNESS [uid |-> nextUid, created |-> now, terminating |-> FALSE, meta |-> meta]
    <3> QED BY <3>1
  <2>2. \A other \in Keys : server[other] # Absent => server[other].uid < nextUid
    OBVIOUS
  <2>3. ASSUME NEW other \in Keys, server[other] # Absent PROVE server[other].uid # nextUid
    BY <2>2, <2>3 DEF Object
  <2> QED BY <2>1, <2>3
<1>2. ASSUME NEW key \in Keys, NEW obj \in Object \cup {Absent},
             server[key] # Absent,
             server' = [server EXCEPT ![key] = obj],
             obj # Absent => obj.uid = server[key].uid
      PROVE  UidsAreUnique'
  <2>1. \A other \in Keys :
          server'[other] # Absent => server[other] # Absent /\ server'[other].uid = server[other].uid
    BY <1>2
  <2> QED BY <2>1
<1>3. ASSUME NEW key \in Keys, EditObject(key) PROVE UidsAreUnique'
  <2>1. PICK meta \in Manifests[key] : server' = [server EXCEPT ![key].meta = meta]
    BY <1>3 DEF EditObject
  <2>2. server[key] \in Object /\ server[key] # Absent
    BY <1>3 DEF EditObject
  <2>3. \A other \in Keys :
          /\ server'[other] # Absent => server[other] # Absent
          /\ server[other] # Absent => server'[other].uid = server[other].uid
    BY <2>1, <2>2 DEF Object
  <2> QED BY <2>3
<1>4. ASSUME NEW key \in Keys, DeleteObject(key) \/ Cascade(key) \/ FinishTermination(key)
      PROVE  UidsAreUnique'
  BY <1>2, <1>4, AfterDeleteType DEF DeleteObject, Cascade, FinishTermination
<1>5. CASE UNCHANGED server
  BY <1>5
<1> QED BY <1>1, <1>3, <1>4, <1>5
  DEF ClusterNext, ChangeWorkloads, OwnerDies, OwnerReturns, ChangePolicies, Tick

LEMMA CountingInvInit ==
    ASSUME ExecutorInitial
    PROVE  CountingInv
  BY DEF ExecutorInitial, ClusterInit, ExecutorInit, CountingInv, UidsAreUnique, CountsAreTrue,
         VictimsAreGone, VictimsDiffer, Exists

\* The objects move and nobody deletes.
LEMMA CountingInvEnvironment ==
    ASSUME ExecutorInv, CountingInv, ObjectsAdvance, ClusterTypeOK', UidsAreUnique',
           UNCHANGED executorVars
    PROVE  CountingInv'
<1> USE DEF CountingInv, executorVars
<1>1. CountsAreTrue' /\ VictimsDiffer'
  BY DEF CountsAreTrue, VictimsDiffer, Lingers
<1>2. ASSUME NEW w \in Workers, victim[w] # Absent
      PROVE  /\ victim[w].uid < nextUid'
             /\ \A key \in Keys :
                  server'[key] # Absent /\ server'[key].uid = victim[w].uid =>
                    key = job[w].key /\ Lingers(w)
  <2>1. victim[w].uid \in Nat /\ nextUid \in Nat /\ nextUid' \in Nat /\ nextUid <= nextUid'
    BY <1>2 DEF ExecutorInv, ExecutorTypeOK, ClusterTypeOK, Object, ObjectsAdvance
  <2>2. victim[w].uid < nextUid
    BY <1>2 DEF VictimsAreGone
  <2>3. ASSUME NEW key \in Keys, server'[key] # Absent, server'[key].uid = victim[w].uid
        PROVE  server[key] # Absent /\ server[key].uid = victim[w].uid
    BY <2>1, <2>2, <2>3 DEF ObjectsAdvance
  <2> QED BY <1>2, <2>1, <2>2, <2>3 DEF VictimsAreGone, Exists
<1>3. VictimsAreGone'
  BY <1>2 DEF VictimsAreGone, Lingers, Exists
<1> QED BY <1>1, <1>3

\* A worker whose victim is forgotten or stays, while the objects stay.
LEMMA CountingInvStay ==
    ASSUME CountingInv, NEW w \in Workers, UNCHANGED clusterVars,
           victim'[w] # Absent => victim'[w] = victim[w] /\ job'[w] = job[w],
           result'[w] = "deleted" => victim'[w] # Absent,
           \A v \in Workers \ {w} :
             job'[v] = job[v] /\ victim'[v] = victim[v] /\ result'[v] = result[v]
    PROVE  CountingInv'
<1> USE DEF CountingInv, clusterVars, Exists, Lingers
<1>1. UidsAreUnique' /\ CountsAreTrue'
  BY DEF UidsAreUnique, CountsAreTrue
<1>2. VictimsAreGone' /\ VictimsDiffer'
  BY DEF VictimsAreGone, VictimsDiffer
<1> QED BY <1>1, <1>2

LEMMA CountingInvHit ==
    ASSUME ExecutorInv, CountingInv, NEW w \in Workers, SendDelete(w), Hit(w)
    PROVE  CountingInv'
<1>1. ExecutorTypeOK /\ ClusterTypeOK
  BY DEF ExecutorInv, ExecutorTypeOK
<1>2. PICK key \in Keys : key = job[w].key
  BY <1>1 DEF SendDelete, ExecutorTypeOK, Jobs
<1>3. /\ server[key] \in Object /\ server[key] # Absent
      /\ server' = [server EXCEPT ![key] = AfterDelete(key, server[key])]
      /\ victim' = [victim EXCEPT ![w] = server[key]]
      /\ UNCHANGED <<nextUid, job>>
      /\ \A v \in Workers \ {w} : result'[v] = result[v]
  BY <1>1, <1>2 DEF SendDelete, Hit, ReturnWith, Exists, ExecutorTypeOK, ClusterTypeOK
<1>4. /\ AfterDelete(key, server[key]) # Absent =>
           /\ AfterDelete(key, server[key]).uid = server[key].uid
           /\ key.kind = "Namespace" \/ server[key].meta.finalizers # {}
      /\ AfterDelete(key, server[key]) \in Object \cup {Absent}
  BY <1>3, AfterDeleteType DEF AfterDelete
<1>5. \A other \in Keys :
        server'[other] # Absent => server[other] # Absent /\ server'[other].uid = server[other].uid
  BY <1>1, <1>3, <1>4 DEF ClusterTypeOK
<1>6. /\ victim'[w] = server[key]
      /\ \A v \in Workers \ {w} : victim'[v] = victim[v]
  BY <1>1, <1>3 DEF ExecutorTypeOK
<1> USE DEF CountingInv, Exists, Lingers
<1>7. UidsAreUnique'
  BY <1>5 DEF UidsAreUnique
<1>8. CountsAreTrue'
  BY <1>3, <1>6 DEF CountsAreTrue
<1>9. VictimsAreGone'
  <2>1. ASSUME NEW v \in Workers \ {w}, victim'[v] # Absent
        PROVE  /\ victim'[v].uid < nextUid'
               /\ \A other \in Keys :
                    server'[other] # Absent /\ server'[other].uid = victim'[v].uid =>
                      other = job'[v].key /\ Lingers(v)'
    BY <1>3, <1>5, <1>6, <2>1 DEF VictimsAreGone
  <2>2. victim'[w].uid < nextUid'
    BY <1>3, <1>6 DEF ExecutorInv, UidsAreGivenOut
  <2>3. ASSUME NEW other \in Keys, server'[other] # Absent, server'[other].uid = victim'[w].uid
        PROVE  other = job'[w].key /\ Lingers(w)'
    <3>1. other = key
      BY <1>3, <1>5, <1>6, <2>3 DEF UidsAreUnique
    <3>2. AfterDelete(key, server[key]) # Absent
      BY <1>1, <1>3, <2>3, <3>1 DEF ClusterTypeOK
    <3> QED BY <1>2, <1>3, <1>4, <1>6, <3>1, <3>2
  <2> QED BY <2>1, <2>2, <2>3 DEF VictimsAreGone
<1>10. VictimsDiffer'
  <2>1. ASSUME NEW v \in Workers \ {w}, victim[v] # Absent, victim[v].uid = server[key].uid
        PROVE  job[v].key = job[w].key /\ Lingers(v)
    BY <1>2, <1>3, <2>1 DEF VictimsAreGone
  <2> QED BY <1>3, <1>6, <2>1 DEF VictimsDiffer
<1> QED BY <1>7, <1>8, <1>9, <1>10

LEMMA CountingInvNext ==
    ASSUME ExecutorInv, CountingInv, [ExecutorNext]_executorAllVars
    PROVE  CountingInv'
<1>0. ExecutorTypeOK /\ ClusterTypeOK
  BY DEF ExecutorInv, ExecutorTypeOK
<1>1. CASE ClusterNext /\ UNCHANGED executorVars
  BY <1>0, <1>1, ClusterStep, ClusterKeepsUidsApart, CountingInvEnvironment
  DEF ExecutorInv, CountingInv
<1>2. ASSUME NEW w \in Workers, Call(w) \/ ReGet(w) \/ Return(w) \/ Die(w) PROVE CountingInv'
  <2>1. /\ UNCHANGED clusterVars
        /\ victim'[w] # Absent => victim'[w] = victim[w] /\ job'[w] = job[w]
        /\ result'[w] = "deleted" => victim'[w] # Absent
        /\ \A v \in Workers \ {w} :
             job'[v] = job[v] /\ victim'[v] = victim[v] /\ result'[v] = result[v]
    BY <1>0, <1>2
    DEF Call, Execute, ReGet, ReturnWith, Return, Die, Abandon, ExecutorTypeOK, CountingInv,
        CountsAreTrue
  <2> QED BY <2>1, CountingInvStay
<1>3. ASSUME NEW w \in Workers, SendDelete(w) PROVE CountingInv'
  <2>1. CASE Missed(w) \/ Rejected(w)
    <3>1. /\ UNCHANGED clusterVars
          /\ UNCHANGED <<victim, job>>
          /\ result'[w] # "deleted"
          /\ \A v \in Workers \ {w} : result'[v] = result[v]
      BY <1>0, <1>3, <2>1
      DEF SendDelete, Missed, Rejected, ReturnWith, clusterVars, ExecutorTypeOK
    <3> QED BY <3>1, CountingInvStay
  <2>2. CASE Hit(w)
    BY <1>3, <2>2, CountingInvHit
  <2> QED BY <1>3, <2>1, <2>2 DEF SendDelete
<1>4. CASE UNCHANGED executorAllVars
  BY <1>4
  DEF executorAllVars, clusterVars, executorVars, CountingInv, UidsAreUnique, CountsAreTrue,
      VictimsAreGone, VictimsDiffer, Exists, Lingers
<1> QED BY <1>1, <1>2, <1>3, <1>4 DEF ExecutorNext

\* A deletion that is counted happened, and no two workers count the deletion
\* of one object unless it lingered (executor.go:159-168).
THEOREM ExecutorCountsOnce == ExecutorSpec => []DeletionsAreCountedOnce
<1>1. CountingInv => DeletionsAreCountedOnce
  BY DEF CountingInv, CountsAreTrue, VictimsDiffer, Lingers, DeletionsAreCountedOnce
<1> QED
  BY <1>1, ExecutorInvInit, ExecutorInvNext, CountingInvInit, CountingInvNext, PTL
  DEF ExecutorSpec, executorAllVars

=============================================================================
