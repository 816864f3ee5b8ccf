----------------------------- MODULE MCExecutor -----------------------------
(***************************************************************************)
(* Instances of the executor: replicas that delete the same objects, one   *)
(* of them in a protected namespace.                                       *)
(***************************************************************************)
EXTENDS Executor, TLC

ConfigMapKey(ns) == [kind |-> "ConfigMap", namespace |-> ns, name |-> "settings"]
NamespaceKey(ns) == [kind |-> "Namespace", namespace |-> "", name |-> ns]

OneConfigMap == {ConfigMapKey("team")}
TwoKeys == OneConfigMap \cup {NamespaceKey("kube-system")}

Plain == [labels |-> {}, protected |-> "absent", ttl |-> Absent, expiresAt |-> Absent,
          override |-> "absent", finalizers |-> {}, owners |-> {}]

\* The ConfigMap is edited; the protected Namespace is there to be refused.
MCManifests ==
    [key \in Keys |->
       IF key.kind = "Namespace" THEN {Plain}
       ELSE {Plain,
             [Plain EXCEPT !.finalizers = {"janitor"}],
             [Plain EXCEPT !.finalizers = {"foreign"}],
             [Plain EXCEPT !.owners = {[owner |-> "app", uid |-> 0, parses |-> TRUE]}]}]

NoWorkloads == {{}}
NoPolicies == {{}}

\* The replicas are alike, and the runs check safety only.
Replicas == Permutations(Workers)

=============================================================================
