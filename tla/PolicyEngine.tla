---------------------------- MODULE PolicyEngine ----------------------------
(***************************************************************************)
(* internal/policy/engine.go: from a finding, the object's override        *)
(* annotation and the listed policies to a decision.  Pure: the Janitor    *)
(* takes the list from its cache and calls Evaluate.                       *)
(*                                                                         *)
(* listed is a sequence of policies, as List returns it.  A decision about *)
(* which no policy has a say carries the policy Absent.                    *)
(***************************************************************************)
EXTENDS Domain, Sequences

Decide(action, dryRun, policy) == [action |-> action, dryRun |-> dryRun, policy |-> policy]

DefaultDeleteThreshold == 90
DefaultReportThreshold == 60

\* Mutant: a policy without a threshold deletes at the report threshold.
Threshold_Report(policy) ==
    IF policy.threshold # Absent THEN policy.threshold ELSE DefaultReportThreshold

\* Mutant: the default thresholds are swapped.
Threshold_Swapped(policy) ==
    IF policy.threshold # Absent THEN policy.threshold
    ELSE IF policy.mode = "Delete" THEN DefaultReportThreshold ELSE DefaultDeleteThreshold

Threshold(policy) ==
    IF policy.threshold # Absent THEN policy.threshold
    ELSE IF policy.mode = "Delete" THEN DefaultDeleteThreshold ELSE DefaultReportThreshold

\* The reconcilers keep the policies that name the kind; the engine takes the
\* first of them.
Matching(kind, listed) == {i \in DOMAIN listed : kind \in listed[i].kinds}

\* Mutant: the policies are not filtered by kind.
FirstMatching_Head(kind, listed) == listed[1]

FirstMatching(kind, listed) ==
    listed[CHOOSE i \in Matching(kind, listed) : \A j \in Matching(kind, listed) : i <= j]

\* Without a policy, a class that calls for a cleanup is reported.
DefaultDecision(globalDryRun, finding) ==
    Decide(IF /\ finding.class \in {"expired", "orphaned", "abandoned", "ephemeral"}
              /\ finding.confidence >= DefaultReportThreshold
           THEN "report" ELSE "none",
           globalDryRun, Absent)

\* Mutant: only the policy's own mode makes a run dry.
PolicyDecision_ForgetsGlobal(globalDryRun, finding, policy) ==
    LET reached == finding.confidence >= Threshold(policy)
        action  == IF policy.mode = "Report"
                   THEN IF reached THEN "report" ELSE "none"
                   ELSE IF reached THEN "delete" ELSE "report"
    IN  Decide(action, policy.mode = "DryRun", policy.name)

\* Mutant: a global dry run only reports.
PolicyDecision_DryReports(globalDryRun, finding, policy) ==
    LET reached == finding.confidence >= Threshold(policy)
        action  == IF policy.mode = "Report"
                   THEN IF reached THEN "report" ELSE "none"
                   ELSE IF reached /\ ~globalDryRun THEN "delete" ELSE "report"
    IN  Decide(action, globalDryRun \/ policy.mode = "DryRun", policy.name)

\* Mutant: a finding at the threshold does not reach it.
PolicyDecision_Strict(globalDryRun, finding, policy) ==
    LET reached == finding.confidence > Threshold(policy)
        action  == IF policy.mode = "Report"
                   THEN IF reached THEN "report" ELSE "none"
                   ELSE IF reached THEN "delete" ELSE "report"
    IN  Decide(action, globalDryRun \/ policy.mode = "DryRun", policy.name)

\* DryRun decides what Delete would and marks it dry; below the threshold both
\* report, and Report stays silent.
PolicyDecision(globalDryRun, finding, policy) ==
    LET reached == finding.confidence >= Threshold(policy)
        action  == IF policy.mode = "Report"
                   THEN IF reached THEN "report" ELSE "none"
                   ELSE IF reached THEN "delete" ELSE "report"
    IN  Decide(action, globalDryRun \/ policy.mode = "DryRun", policy.name)

\* The annotation values that decide by themselves, and what they ask for.
OverrideAction == [skip |-> "none", report |-> "report", delete |-> "delete"]

Overridden(override) == override \in DOMAIN OverrideAction

\* Mutant: the override is looked at before the classes that forbid a deletion.
Evaluate_OverrideFirst(globalDryRun, override, finding, kind, listed) ==
    CASE Overridden(override) -> Decide(OverrideAction[override], globalDryRun, Absent)
      [] ~Overridden(override) /\ finding.class \in {"protected", "unknown"} ->
            Decide("none", globalDryRun, Absent)
      [] ~Overridden(override) /\ finding.class = "blocked" ->
            Decide("report", globalDryRun, Absent)
      [] OTHER ->
            IF Matching(kind, listed) = {} THEN DefaultDecision(globalDryRun, finding)
            ELSE PolicyDecision(globalDryRun, finding, FirstMatching(kind, listed))

Evaluate(globalDryRun, override, finding, kind, listed) ==
    CASE finding.class \in {"protected", "unknown"} -> Decide("none", globalDryRun, Absent)
      [] finding.class = "blocked"                  -> Decide("report", globalDryRun, Absent)
      [] OTHER ->
            IF Overridden(override) THEN Decide(OverrideAction[override], globalDryRun, Absent)
            ELSE IF Matching(kind, listed) = {} THEN DefaultDecision(globalDryRun, finding)
            ELSE PolicyDecision(globalDryRun, finding, FirstMatching(kind, listed))

=============================================================================
