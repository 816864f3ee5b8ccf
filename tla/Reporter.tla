------------------------------ MODULE Reporter ------------------------------
(***************************************************************************)
(* internal/report/reporter.go: the reason of the Kubernetes Event for a   *)
(* finding and the decision about it.  Pure; the reconcilers call it after *)
(* Execute has returned without an error, and never learn what Execute did.*)
(***************************************************************************)
EXTENDS Domain

EventReasons == {"Classified", "DryRunDelete", "Deleted", "Protected", "Blocked",
                 "TTLExpired", "Orphaned", "Abandoned"}

EventReason(finding, decision) ==
    CASE finding.class = "protected" -> "Protected"
      [] finding.class = "blocked"   -> "Blocked"
      [] finding.class = "expired"   ->
            IF decision.action # "delete" THEN "TTLExpired"
            ELSE IF decision.dryRun THEN "DryRunDelete" ELSE "Deleted"
      [] finding.class = "orphaned"  -> "Orphaned"
      [] finding.class = "abandoned" -> "Abandoned"
      [] OTHER                       -> "Classified"

=============================================================================
