------------------------------ MODULE MCJanitor ------------------------------
(***************************************************************************)
(* Instances of the janitor.                                               *)
(***************************************************************************)
EXTENDS Janitor

CONSTANT w1  \* a worker

ConfigMapKey == [kind |-> "ConfigMap", namespace |-> "team", name |-> "settings"]
NamespaceKey == [kind |-> "Namespace", namespace |-> "", name |-> "team"]

OneConfigMap == {ConfigMapKey}
NamespaceAndContent == {NamespaceKey, ConfigMapKey}

OneWorker == {w1}

ForConfigMaps == [w \in Workers |-> "ConfigMap"]
ForNamespaces == [w \in Workers |-> "Namespace"]

-----------------------------------------------------------------------------
Plain == [labels |-> {}, protected |-> "absent", ttl |-> Absent, expiresAt |-> Absent,
          override |-> "absent", finalizers |-> {}, owners |-> {}]

Expiring == [Plain EXCEPT !.ttl = 1]
Dated == [Plain EXCEPT !.expiresAt = 2]
Guarded == [Plain EXCEPT !.protected = "true", !.ttl = 1]
Owned == [Plain EXCEPT !.owners = {[owner |-> "app", uid |-> 0, parses |-> TRUE]}]
Doomed == [Plain EXCEPT !.override = "delete"]
Misspelt == [Plain EXCEPT !.ttl = Malformed]

\* What is in the Namespace is protected.
ExpiryManifests ==
    [key \in Keys |-> IF key = NamespaceKey THEN {Expiring, Dated, Guarded, Misspelt}
                      ELSE {Guarded}]
ReferenceManifests == [key \in Keys |-> {Plain, Owned, Doomed}]

-----------------------------------------------------------------------------
DeletePolicy(threshold) ==
    [name |-> "clean", kinds |-> {"ConfigMap", "Namespace"},
     mode |-> "Delete", threshold |-> threshold]

DefaultPolicySet == {{DeletePolicy(Absent)}}
TwoPolicySets == {{DeletePolicy(Absent)}, {DeletePolicy(60)}}

NoWorkloads == {{}}
PodSets == {{}, {"pod"}}
DeploymentComesAndGoes == {{}, {"deployment"}}

=============================================================================
