SPECIFICATION ResolverSpec
CONSTANTS
    p1 = p1
    p2 = p2
    Pods = {p1, p2}
    Deployments = {"web"}
    Uses <- MCUses
    Objects <- MCObjects
    Keys = {}
    Owners = {"app"}
    LabelPairs = {}
    PolicyNames = {}
    ProtectedNamespaces = {"kube-system"}
    Absent = Absent
    Malformed = Malformed
    DefaultTTL = 0
    ProtectionLabels = {}
SYMMETRY Replicas
INVARIANTS
    ResolverInv
    SteadyReferenceIsFound
    EvidenceIsReal
    AbsenceIsAnswered
