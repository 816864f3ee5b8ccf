--------------------------- MODULE Classification ---------------------------
(***************************************************************************)
(* One object in front of the whole chain of Classifier.tla, while the     *)
(* clock ticks and the owners and workloads around it change; in every     *)
(* state the chain classifies it, all its reads in one instant.            *)
(***************************************************************************)
EXTENDS Classifier

CONSTANTS
    Metas,      \* the metadata the object may have
    OwnerUids,  \* the UIDs the owners may have, Absent included
    LastTick    \* bound on the clock

ASSUME ClassificationAssumption ==
    Metas \subseteq Meta /\ OwnerUids \subseteq Nat \cup {Absent} /\ LastTick \in Nat

VARIABLES key, obj, now, uidOf, referenced

chainVars == <<key, obj, now, uidOf, referenced>>

ChainInit ==
    /\ key \in Keys
    /\ now \in 0..LastTick
    /\ \E meta \in Metas :
         obj = [uid |-> 1, created |-> now, terminating |-> FALSE, meta |-> meta]
    /\ uidOf \in [Owners -> OwnerUids]
    /\ referenced \in BOOLEAN

PassTime ==
    /\ now < LastTick
    /\ now' = now + 1
    /\ UNCHANGED <<key, obj, uidOf, referenced>>

\* Owners are deleted or recreated under their names.
ReplaceOwners ==
    /\ uidOf' \in [Owners -> OwnerUids]
    /\ UNCHANGED <<key, obj, now, referenced>>

\* The last workload that refers to the object goes, or a first one comes.
MoveWorkloads ==
    /\ referenced' = ~referenced
    /\ UNCHANGED <<key, obj, now, uidOf>>

ChainNext == PassTime \/ ReplaceOwners \/ MoveWorkloads

ChainSpec == ChainInit /\ [][ChainNext]_chainVars

-----------------------------------------------------------------------------
Found == Classify(key, obj, now, uidOf, referenced)

\* What the behavioural specification (docs/specs/classifier-spec.md, 18-46)
\* tells apart, as conditions on the object instead of a chain.
Guarded ==
    \/ key.namespace \in ProtectedNamespaces
    \/ key.kind = "Namespace" /\ key.name \in ProtectedNamespaces
    \/ obj.meta.protected = "true"
    \/ ProtectionLabels # {} /\ \A pair \in ProtectionLabels : pair \in obj.meta.labels

Expiring ==
    \/ obj.meta.ttl \in Int \ {0} /\ obj.created + obj.meta.ttl < now
    \/ obj.meta.ttl = Absent /\ DefaultTTL > 0 /\ obj.created + DefaultTTL < now
    \/ obj.meta.expiresAt \in Int /\ obj.meta.expiresAt <= now

Misspelt == Malformed \in {obj.meta.ttl, obj.meta.expiresAt}

OwnerLives == \E ownerRef \in obj.meta.owners : IsLive(ownerRef, uidOf)

\* No error, no expiry and no dead owner hides protection, and no expiry or
\* error a foreign finalizer; an object is called expired only when it is, and
\* an error is a malformed annotation; only what is none of these is looked at
\* for owners, and for workloads only when it names no owner
\* (classifier.go:57-79 over main.go:124-135, protection_strategy.go:51-117).
ChainMeetsSpecification ==
    LET Settled == Guarded \/ HasForeignFinalizer(obj.meta)
        Used == IF obj.meta.owners = {} THEN referenced ELSE OwnerLives
    IN  /\ Found.class = "protected" <=> Guarded
        /\ Found.class = "blocked" <=> ~Guarded /\ HasForeignFinalizer(obj.meta)
        /\ Found.class = "expired" => Expiring
        /\ Found.class = "error" => Misspelt
        /\ ~Settled /\ Expiring /\ ~Misspelt => Found.class = "expired"
        /\ Found.class \in {"active", "orphaned", "abandoned"} <=>
             ~Settled /\ ~Expiring /\ ~Misspelt
        /\ Found.class = "active" => Used
        /\ Found.class = "orphaned" => ~Used /\ obj.meta.owners # {}
        /\ Found.class = "abandoned" => ~Used /\ obj.meta.owners = {}
        /\ Found.class # "unknown"

\* Time alone never takes a finding back: while the owners and workloads stay,
\* an expired object stays expired and no other class than expired appears
\* (ttl_strategy.go:52-55, expiresat_strategy.go:49-52).
TimeOnlyExpires ==
    [][uidOf' = uidOf /\ referenced' = referenced =>
         \/ Found' = Found
         \/ Found'.class = "expired" /\ Found.class \notin {"protected", "blocked"}]_chainVars

=============================================================================
