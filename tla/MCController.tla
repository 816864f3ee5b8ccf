----------------------------- MODULE MCController -----------------------------
(***************************************************************************)
(* An instance of the Namespace controller: one Namespace that expires and *)
(* is held by a foreign finalizer from time to time, one whose annotation  *)
(* never parses, in one queue.                                             *)
(***************************************************************************)
EXTENDS Controller

CONSTANT w1  \* a worker

NamespaceKey(name) == [kind |-> "Namespace", namespace |-> "", name |-> name]

TwoNamespaces == {NamespaceKey("preview"), NamespaceKey("misspelt")}

OneWorker == {w1}
ForNamespaces == [w \in Workers |-> "Namespace"]

Plain == [labels |-> {}, protected |-> "absent", ttl |-> Absent, expiresAt |-> Absent,
          override |-> "absent", finalizers |-> {}, owners |-> {}]

Dated == [Plain EXCEPT !.expiresAt = 1]
Held == [Dated EXCEPT !.finalizers = {"foreign"}]
Misspelt == [Plain EXCEPT !.expiresAt = Malformed]

MCManifests == [key \in Keys |-> IF key = NamespaceKey("preview") THEN {Dated, Held}
                                 ELSE {Misspelt}]

Policies(mode) == {[name |-> "clean", kinds |-> {"Namespace"}, mode |-> mode, threshold |-> Absent]}
ChangingPolicies == {Policies("Report"), Policies("Delete")}

NoWorkloads == {{}}

\* Validate refuses the second.
MCFlagSets == {[Default EXCEPT !.dryRun = FALSE],
               [Default EXCEPT !.dryRun = FALSE, !.scanInterval = 0]}

=============================================================================
