-------------------------------- MODULE Config --------------------------------
(***************************************************************************)
(* internal/config: the settings a manager is started with, as far as they *)
(* decide whether it starts and what it does.  The default is a dry run    *)
(* with a scan every five minutes.  ProtectedNamespaces is a constant of   *)
(* Domain.                                                                 *)
(***************************************************************************)
EXTENDS Integers

CONSTANT FlagSets  \* the settings a manager may be started with

\* Intervals are in seconds, thresholds are percentages.
Settings == [dryRun : BOOLEAN, scanInterval : Nat, deleteThreshold : Nat, metricsAddr : STRING]

ASSUME FlagSetsAssumption == FlagSets \subseteq Settings

Default == [dryRun |-> TRUE, scanInterval |-> 300, deleteThreshold |-> 90, metricsAddr |-> ":8080"]

\* Mutant: the scan interval is not looked at.
Validate_AnyInterval(config) ==
    /\ config.deleteThreshold \in 70..100
    /\ config.metricsAddr # ""

Validate(config) ==
    /\ config.scanInterval >= 30
    /\ config.deleteThreshold >= 70
    /\ config.deleteThreshold <= 100
    /\ config.metricsAddr # ""

\* main exits on any other.
ValidSettings == {config \in FlagSets : Validate(config)}

=============================================================================
