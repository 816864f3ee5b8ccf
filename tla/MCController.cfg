SPECIFICATION ControllerSpec
CONSTANTS
    w1 = w1
    Keys <- TwoNamespaces
    Owners = {}
    LabelPairs = {}
    PolicyNames = {"clean"}
    ProtectedNamespaces = {"kube-system"}
    Absent = Absent
    Malformed = Malformed
    DefaultTTL = 0
    ProtectionLabels = {}
    Manifests <- MCManifests
    WorkloadSets <- NoWorkloads
    PolicySets <- ChangingPolicies
    MaxUid = 2
    MaxTime = 1
    Workers <- OneWorker
    KindOf <- ForNamespaces
    FlagSets <- MCFlagSets
INVARIANTS
    ControllerInv
    KeyNeverLost
    TerminatingIsLeftAlone
PROPERTIES
    RipeGoesOn
    RipeIsDeleted
