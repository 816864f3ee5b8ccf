SPECIFICATION Spec
CONSTANTS
    w1 = w1
    Keys <- OneConfigMap
    Owners = {"app"}
    LabelPairs = {}
    PolicyNames = {"clean"}
    ProtectedNamespaces = {"kube-system"}
    Absent = Absent
    Malformed = Malformed
    DefaultTTL = 0
    ProtectionLabels = {}
    Manifests <- ReferenceManifests
    WorkloadSets <- PodSets
    PolicySets <- TwoPolicySets
    MaxUid = 2
    MaxTime = 0
    Workers <- OneWorker
    KindOf <- ForConfigMaps
INVARIANTS
    DeadOwnersDoNotRefuse
