SPECIFICATION Spec
CONSTANTS
    w1 = w1
    Keys <- NamespaceAndContent
    Owners = {}
    LabelPairs = {}
    PolicyNames = {"clean"}
    ProtectedNamespaces = {"kube-system"}
    Absent = Absent
    Malformed = Malformed
    DefaultTTL = 0
    ProtectionLabels = {}
    Manifests <- ExpiryManifests
    WorkloadSets <- NoWorkloads
    PolicySets <- DefaultPolicySet
    MaxUid = 2
    MaxTime = 3
    Workers <- OneWorker
    KindOf <- ForNamespaces
INVARIANTS
    ReGetCatchesProtection
