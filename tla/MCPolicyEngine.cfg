SPECIFICATION EngineSpec
CONSTANTS
    Keys = {}
    Owners = {}
    LabelPairs = {}
    PolicyNames = {"p", "q"}
    ProtectedNamespaces = {}
    Absent = Absent
    Malformed = Malformed
    Installable <- MCInstallable
    Findings <- MCFindings
    MaxPolicies = 2
INVARIANTS
    DeletionIsAskedFor
    DryRunRehearses
    DryRunPolicyAnnounces
    ForeignPolicyIsIgnored
