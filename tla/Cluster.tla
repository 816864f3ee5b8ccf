------------------------------- MODULE Cluster -------------------------------
(***************************************************************************)
(* The API server and its other clients, as far as the janitor can tell    *)
(* them: users edit and delete the objects it looks at, owners and         *)
(* workloads come and go, administrators change the policies, time passes. *)
(* None of it is in the repository; it is modelled from what the janitor   *)
(* reads (client.Reader) and from the one call it writes with              *)
(* (client.Delete, internal/action/executor.go:159).                       *)
(***************************************************************************)
EXTENDS Domain

CONSTANTS
    Manifests,     \* Manifests[key]: the metadata users write for the object
    WorkloadSets,  \* the sets of workloads that may refer to an object
    PolicySets,    \* the sets of policies administrators install
    MaxUid,        \* bound on the UIDs given out
    MaxTime        \* bound on the clock

ASSUME ClusterAssumption == /\ Manifests \in [Keys -> SUBSET Meta]
                            /\ WorkloadSets \subseteq SUBSET {"pod", "deployment"}
                            /\ \A set \in PolicySets : set \subseteq Policy /\ IsFiniteSet(set)
                            /\ MaxUid \in Nat
                            /\ MaxTime \in Nat

VARIABLES
    server,     \* server[key] is the object of that key, or Absent
    ownerUid,   \* ownerUid[owner] is the UID of the owner of that name, or Absent
    workloads,  \* workloads[key] are the kinds of workloads that refer to the object
    policies,   \* the JanitorPolicies
    nextUid,    \* the next UID to give out
    now         \* the clock

clusterVars == <<server, ownerUid, workloads, policies, nextUid, now>>

\* A ConfigMap is referred to by a Pod that names it, a Namespace by a running
\* or pending Pod or by a Deployment in it.
WorkloadKinds(key) == IF key.kind = "ConfigMap" THEN {"pod"} ELSE {"pod", "deployment"}

ClusterTypeOK ==
    /\ server \in [Keys -> Object \cup {Absent}]
    /\ ownerUid \in [Owners -> Nat \cup {Absent}]
    /\ workloads \in [Keys -> SUBSET {"pod", "deployment"}]
    /\ policies \in PolicySets
    /\ nextUid \in Nat
    /\ now \in Nat

\* Owners exist first, with the UID 0.
ClusterInit ==
    /\ server = [key \in Keys |-> Absent]
    /\ ownerUid = [owner \in Owners |-> 0]
    /\ workloads = [key \in Keys |-> {}]
    /\ policies \in PolicySets
    /\ nextUid = 1
    /\ now = 0

Exists(key) == server[key] # Absent

\* A delete call removes an object that holds no finalizer; it marks any other
\* one, and a Namespace always, whose content goes first.
AfterDelete(key, obj) ==
    IF key.kind = "Namespace" \/ obj.meta.finalizers # {}
    THEN [obj EXCEPT !.terminating = TRUE]
    ELSE Absent

-----------------------------------------------------------------------------
\* Nothing is created in a Namespace that is gone or on its way.
CreateObject(key) ==
    /\ ~Exists(key)
    /\ \A ns \in Keys : Encloses(ns, key) => Exists(ns) /\ ~server[ns].terminating
    /\ nextUid <= MaxUid
    /\ \E meta \in Manifests[key] :
         server' = [server EXCEPT ![key] =
                      [uid |-> nextUid, created |-> now, terminating |-> FALSE, meta |-> meta]]
    /\ nextUid' = nextUid + 1
    /\ UNCHANGED <<ownerUid, workloads, policies, now>>

EditObject(key) ==
    /\ Exists(key)
    /\ ~server[key].terminating
    /\ \E meta \in Manifests[key] : server' = [server EXCEPT ![key].meta = meta]
    /\ UNCHANGED <<ownerUid, workloads, policies, nextUid, now>>

DeleteObject(key) ==
    /\ Exists(key)
    /\ server' = [server EXCEPT ![key] = AfterDelete(key, server[key])]
    /\ UNCHANGED <<ownerUid, workloads, policies, nextUid, now>>

\* A terminating Namespace takes everything in it with it.
Cascade(key) ==
    /\ Exists(key)
    /\ \E ns \in Keys : Encloses(ns, key) /\ Exists(ns) /\ server[ns].terminating
    /\ server' = [server EXCEPT ![key] = AfterDelete(key, server[key])]
    /\ UNCHANGED <<ownerUid, workloads, policies, nextUid, now>>

\* The last finalizer of a terminating object is removed; of a Namespace, when
\* its content is gone.
FinishTermination(key) ==
    /\ Exists(key)
    /\ server[key].terminating
    /\ \A content \in Keys : Encloses(key, content) => ~Exists(content)
    /\ server' = [server EXCEPT ![key] = Absent]
    /\ UNCHANGED <<ownerUid, workloads, policies, nextUid, now>>

OwnerDies(owner) ==
    /\ ownerUid' = [ownerUid EXCEPT ![owner] = Absent]
    /\ UNCHANGED <<server, workloads, policies, nextUid, now>>

\* The owner is recreated under its name: another object.
OwnerReturns(owner) ==
    /\ ownerUid[owner] = Absent
    /\ nextUid <= MaxUid
    /\ ownerUid' = [ownerUid EXCEPT ![owner] = nextUid]
    /\ nextUid' = nextUid + 1
    /\ UNCHANGED <<server, workloads, policies, now>>

ChangeWorkloads(key) ==
    /\ \E kinds \in WorkloadSets : /\ kinds \subseteq WorkloadKinds(key)
                                   /\ workloads' = [workloads EXCEPT ![key] = kinds]
    /\ UNCHANGED <<server, ownerUid, policies, nextUid, now>>

ChangePolicies ==
    /\ policies' \in PolicySets
    /\ UNCHANGED <<server, ownerUid, workloads, nextUid, now>>

Tick ==
    /\ now < MaxTime
    /\ now' = now + 1
    /\ UNCHANGED <<server, ownerUid, workloads, policies, nextUid>>

ClusterNext ==
    \/ \E key \in Keys : \/ CreateObject(key)
                         \/ EditObject(key)
                         \/ DeleteObject(key)
                         \/ Cascade(key)
                         \/ FinishTermination(key)
                         \/ ChangeWorkloads(key)
    \/ \E owner \in Owners : OwnerDies(owner) \/ OwnerReturns(owner)
    \/ ChangePolicies
    \/ Tick

=============================================================================
