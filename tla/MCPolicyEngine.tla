--------------------------- MODULE MCPolicyEngine ---------------------------
(***************************************************************************)
(* An instance of Evaluation: every finding the chain gives, the class no  *)
(* strategy gives, and policies of every mode around the thresholds.       *)
(***************************************************************************)
EXTENDS Evaluation

MCInstallable ==
    [name : PolicyNames, kinds : {{"ConfigMap"}, {"ConfigMap", "Namespace"}},
     mode : Modes, threshold : {Absent, 50, 60, 90, 100}]

MCFindings == {[class |-> c, confidence |-> High] :
                 c \in {"active", "expired", "protected", "blocked"}}
                \cup {[class |-> "abandoned", confidence |-> Medium],
                      [class |-> "unknown", confidence |-> Low]}

=============================================================================
