SPECIFICATION ChainSpec
CONSTANTS
    Keys <- MCKeys
    Owners = {"app"}
    LabelPairs <- MCLabelPairs
    PolicyNames = {"p"}
    ProtectedNamespaces = {"kube-system"}
    Absent = Absent
    Malformed = Malformed
    DefaultTTL = 0
    ProtectionLabels = {"keep=yes", "tier=gold"}
    Metas <- MCMetas
    OwnerUids <- MCOwnerUids
    LastTick = 3
INVARIANTS
    ChainMeetsSpecification
PROPERTIES
    TimeOnlyExpires
