SPECIFICATION ExecutorSpec
CONSTANTS
    Keys <- TwoKeys
    Owners = {"app"}
    LabelPairs = {}
    PolicyNames = {}
    ProtectedNamespaces = {"kube-system"}
    Absent = Absent
    Malformed = Malformed
    Manifests <- MCManifests
    WorkloadSets <- NoWorkloads
    PolicySets <- NoPolicies
    MaxUid = 2
    MaxTime = 0
    Workers = {blue, green}
SYMMETRY Replicas
INVARIANTS
    ExecutorTypeOK
    ExecutorInv
    DeletionsAreCovered
    DeletionsAreCountedOnce
PROPERTIES
    ImplementsSafeDeletion
