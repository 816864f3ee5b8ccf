----------------------------- MODULE Evaluation -----------------------------
(***************************************************************************)
(* One finding in front of the policy engine of PolicyEngine.tla, while    *)
(* policies are created and deleted and the cache lists them in any order; *)
(* in every state the engine decides about it.                             *)
(***************************************************************************)
EXTENDS PolicyEngine, SequencesExt

CONSTANTS
    Installable,  \* the policies administrators may create
    Findings,     \* the findings the engine may be asked about
    MaxPolicies   \* bound on the policies listed

ASSUME EvaluationAssumption ==
    Installable \subseteq Policy /\ Findings \subseteq Finding /\ MaxPolicies \in Nat

VARIABLES globalDryRun, override, finding, kind, listed

engineVars == <<globalDryRun, override, finding, kind, listed>>

EngineInit ==
    /\ globalDryRun \in BOOLEAN
    /\ override \in Overrides
    /\ finding \in Findings
    /\ kind \in Kinds
    /\ listed = <<>>

\* A policy is created; List may return it before the others.
CreatePolicy ==
    /\ Len(listed) < MaxPolicies
    /\ \E policy \in Installable : \E at \in 1..(Len(listed) + 1) :
         /\ \A i \in DOMAIN listed : listed[i].name # policy.name
         /\ listed' = InsertAt(listed, at, policy)
    /\ UNCHANGED <<globalDryRun, override, finding, kind>>

DeletePolicy ==
    /\ \E i \in DOMAIN listed : listed' = RemoveAt(listed, i)
    /\ UNCHANGED <<globalDryRun, override, finding, kind>>

\* Listing the same policies again may return them in another order.
ListAgain ==
    /\ \E order \in Bijection(DOMAIN listed, DOMAIN listed) :
         listed' = [i \in DOMAIN listed |-> listed[order[i]]]
    /\ UNCHANGED <<globalDryRun, override, finding, kind>>

EngineNext == CreatePolicy \/ DeletePolicy \/ ListAgain

EngineSpec == EngineInit /\ [][EngineNext]_engineVars

-----------------------------------------------------------------------------
Decided == Evaluate(globalDryRun, override, finding, kind, listed)

\* A deletion that is not simulated has been asked for: by the object itself
\* through its annotation, or by a Delete policy for its kind whose threshold
\* the finding reaches, and in no case for a protected, a blocked or an
\* unclassified object or under the global dry-run (engine.go:69-100, 149-158,
\* 248-258).
DeletionIsAskedFor ==
    Decided.action = "delete" /\ ~Decided.dryRun =>
      /\ ~globalDryRun
      /\ finding.class \notin {"protected", "blocked", "unknown"}
      /\ \/ override = "delete"
         \/ \E i \in DOMAIN listed :
              /\ kind \in listed[i].kinds
              /\ listed[i].mode = "Delete"
              /\ finding.confidence >= IF listed[i].threshold = Absent THEN 90
                                       ELSE listed[i].threshold

\* The rehearsal is faithful: switching the global dry-run on changes no
\* action, it only marks it as simulated (engine.go:150-158, 205, 252).
DryRunRehearses ==
    LET rehearsed == Evaluate(TRUE, override, finding, kind, listed)
    IN  /\ rehearsed.dryRun
        /\ rehearsed.action = Decided.action

InMode(mode) == [i \in DOMAIN listed |-> [listed[i] EXCEPT !.mode = mode]]

\* What a policy in mode DryRun announces covers what the same policy will
\* delete in mode Delete: nothing is deleted after the switch that was not
\* announced before it (engine.go:207-226, 273-283).
DryRunPolicyAnnounces ==
    LET decided(mode) == Evaluate(globalDryRun, override, finding, kind, InMode(mode))
    IN  decided("Delete").action = "delete" => decided("DryRun").action = "delete"

\* A policy that does not match the kind has no influence, wherever the list
\* has it: without it the decision is the same (namespace_reconciler.go:116-131,
\* engine.go:182-192).
ForeignPolicyIsIgnored ==
    \A i \in DOMAIN listed :
      kind \notin listed[i].kinds =>
        Evaluate(globalDryRun, override, finding, kind, RemoveAt(listed, i)) = Decided

=============================================================================
