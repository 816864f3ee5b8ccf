SPECIFICATION Spec
CONSTANTS
    w1 = w1
    Keys <- NamespaceAndContent
    Owners = {}
    LabelPairs = {}
    PolicyNames = {"clean"}
    ProtectedNamespaces = {"kube-system"}
    Absent = Absent
    Malformed = Malformed
    DefaultTTL = 0
    ProtectionLabels = {}
    Manifests <- ExpiryManifests
    WorkloadSets <- DeploymentComesAndGoes
    PolicySets <- DefaultPolicySet
    MaxUid = 2
    MaxTime = 2
    Workers <- OneWorker
    KindOf <- ForNamespaces
INVARIANTS
    NothingExpiresEarly
    DeletionFromCleanCopy
    ReportsAreHonest
    FindingsAreOfTheChain
