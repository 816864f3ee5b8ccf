------------------------------ MODULE MCResolver ------------------------------
(***************************************************************************)
(* An instance of the resolvers: a ConfigMap, an owned ConfigMap and a     *)
(* Namespace, two Pods and a Deployment.                                   *)
(***************************************************************************)
EXTENDS Resolver, TLC

CONSTANTS p1, p2  \* Pods

Replicas == Permutations({p1, p2})

OwnerRefs == {[owner |-> "app", uid |-> 0, parses |-> TRUE],
              [owner |-> "app", uid |-> 0, parses |-> FALSE]}

MCObjects == {[kind |-> "ConfigMap", owners |-> {}],
              [kind |-> "ConfigMap", owners |-> OwnerRefs],
              [kind |-> "Namespace", owners |-> {}]}

MCUses == {{"envFrom"}, {"projected"}}

=============================================================================
