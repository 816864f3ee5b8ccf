---------------------------- MODULE MCClassifier ----------------------------
(***************************************************************************)
(* An instance of Classification: a ConfigMap, one in a protected          *)
(* namespace and a protected Namespace with every combination of the       *)
(* metadata the strategies look at.                                        *)
(***************************************************************************)
EXTENDS Classification

ConfigMapKey(ns) == [kind |-> "ConfigMap", namespace |-> ns, name |-> "settings"]
NamespaceKey(ns) == [kind |-> "Namespace", namespace |-> "", name |-> ns]

MCKeys == {ConfigMapKey("team"), ConfigMapKey("kube-system"), NamespaceKey("kube-system")}

MCLabelPairs == {"keep=yes", "tier=gold"}

\* The TTLs: none, zero, one that elapses within the bound, one already
\* elapsed and one that does not parse.
MCTTLs == {Absent, Malformed, -1, 0, 1}

MCMetas ==
    {[labels |-> l, protected |-> p, ttl |-> t, expiresAt |-> e,
      override |-> "absent", finalizers |-> f, owners |-> o] :
        l \in {{}, {"keep=yes"}, {"keep=yes", "tier=gold"}}, p \in Protections, t \in MCTTLs,
        e \in {Absent, Malformed, 2}, f \in {{}, {"janitor"}, {"janitor", "foreign"}},
        o \in {{}, {[owner |-> "app", uid |-> 1, parses |-> TRUE]},
               {[owner |-> "app", uid |-> 1, parses |-> FALSE]}}}

\* The owner of the reference, another one of its name, none.
MCOwnerUids == {1, 2, Absent}

=============================================================================
