------------------------------- MODULE Domain -------------------------------
(***************************************************************************)
(* The vocabulary of kube-janitor: object keys, the metadata the janitor   *)
(* reads, findings and policies (internal/domain/types.go and              *)
(* api/v1alpha1/janitorpolicy_types.go).  No state of its own.             *)
(*                                                                         *)
(* Confidences and thresholds are percentages (0.9 is 90), times and TTLs  *)
(* are ticks of one clock, UIDs are numbers in creation order.             *)
(***************************************************************************)
EXTENDS Integers, FiniteSets

CONSTANTS
    Keys,                 \* the object keys of the instance (kind, namespace, name)
    Owners,               \* the names an ownerReference may carry
    LabelPairs,           \* label key=value pairs
    PolicyNames,          \* names of JanitorPolicies
    ProtectedNamespaces,  \* config.ProtectedNamespaces
    Absent,               \* no value: a missing object, annotation or threshold
    Malformed             \* an annotation value that does not parse

Kinds == {"ConfigMap", "Namespace"}

\* A cluster-scoped object has the empty namespace.
ASSUME KeysAssumption ==
    \A key \in Keys : /\ DOMAIN key = {"kind", "namespace", "name"}
                      /\ key.kind \in Kinds
                      /\ key.kind = "Namespace" <=> key.namespace = ""

\* The empty string is not a namespace name.
ASSUME ProtectedNamespacesAssumption == "" \notin ProtectedNamespaces

\* The sentinels are no values: neither numbers nor each other.
ASSUME SentinelAssumption == /\ Absent \notin Int
                             /\ Malformed \notin Int
                             /\ Absent # Malformed

-----------------------------------------------------------------------------
(* Objects *)

Finalizers == {"janitor", "foreign"}  \* janitor.io/cleanup, anybody else's

\* "other" is any value of the annotation the engine does not know.
Overrides == {"absent", "skip", "report", "delete", "other"}

\* The values of janitor.io/protected told apart: missing, exactly true, and
\* true in another case.
Protections == {"absent", "true", "True"}

Times == Int \cup {Absent, Malformed}

OwnerRef == [owner : Owners, uid : Nat, parses : BOOLEAN]

\* What a user writes in an object's metadata and the janitor reads.
Meta == [labels     : SUBSET LabelPairs,
         protected  : Protections,
         ttl        : Times,
         expiresAt  : Times,
         override   : Overrides,
         finalizers : SUBSET Finalizers,
         owners     : SUBSET OwnerRef]

\* An object as the API server stores it; terminating is a set
\* deletionTimestamp, and for a Namespace the phase Terminating.
Object == [uid : Nat, created : Nat, terminating : BOOLEAN, meta : Meta]

ASSUME AbsentObjectAssumption == Absent \notin Object

\* config.ProtectedNamespaces covers what is in a protected namespace and the
\* namespace itself.
InProtectedNamespace(key) ==
    \/ key.namespace \in ProtectedNamespaces
    \/ key.namespace = "" /\ key.name \in ProtectedNamespaces

\* The object of the key is in the Namespace of nsKey.
Encloses(nsKey, key) == nsKey.kind = "Namespace" /\ key.namespace = nsKey.name

HasForeignFinalizer(meta) == "foreign" \in meta.finalizers

-----------------------------------------------------------------------------
(* Findings, decisions and policies *)

Classes == {"active", "ephemeral", "expired", "orphaned", "abandoned",
            "protected", "blocked", "unknown"}

Low == 30
Medium == 60
High == 90
Confidences == {Low, Medium, High}

Finding == [class : Classes, confidence : Confidences]

Actions == {"none", "report", "delete"}

Modes == {"DryRun", "Report", "Delete"}

\* A policy, reduced to the fields some code reads.
Policy == [name : PolicyNames, kinds : SUBSET Kinds, mode : Modes,
           threshold : (0..100) \cup {Absent}]

\* The policy of a decision is Absent when the decision is a built-in default.
Decision == [action : Actions, dryRun : BOOLEAN, policy : PolicyNames \cup {Absent}]

=============================================================================
