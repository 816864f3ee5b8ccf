------------------------------- MODULE Resolver -------------------------------
(***************************************************************************)
(* internal/resolver: the registry and its resolvers, which look for live  *)
(* references to an object, and the last strategy of the chain, which      *)
(* judges by what they found (internal/classifier/resolver_strategy.go).   *)
(* Each GET and each List is a step, and between any two of them the Pods, *)
(* the Deployments and the owners move.  Janitor.tla keeps of all this the *)
(* two Lists and which kinds of workloads there are.                       *)
(***************************************************************************)
EXTENDS Classifier, Sequences

CONSTANTS
    Pods,         \* names of Pods in the Namespace
    Deployments,  \* names of Deployments in it
    Uses,         \* how the Pods may use the ConfigMap
    Objects       \* what is looked at: the kind and the ownerReferences

ASSUME ResolverAssumption ==
    /\ Objects \subseteq [kind : Kinds, owners : SUBSET OwnerRef]
    /\ Absent \notin Objects

VARIABLES
    ownerUid,     \* the owners, as in Cluster
    pods,         \* pods[name] is the Pod of that name, or Absent
    deployments,  \* the Deployments
    obj,          \* the object being looked at, or Absent
    turn,         \* whose turn it is: an index of Resolvers
    todo,         \* the ownerReferences not looked up yet
    listed,       \* the Namespace's Pods have been listed and none was live
    found,        \* what the resolver of this turn has found
    refs,         \* what those before it returned
    failed,       \* those before it that returned an error
    verdict,      \* the verdict, or Absent
    always,       \* history: the references that have held all the while
    ever,         \* history: those that have held at some time
    answered      \* history: the sources the API server has answered about

clusterVars == <<ownerUid, pods, deployments>>
walkVars == <<obj, turn, todo, listed, found, refs, failed, verdict>>
historyVars == <<always, ever, answered>>
resolverVars == <<clusterVars, walkVars, historyVars>>

\* How a Pod may use a ConfigMap; a projected volume is not looked at.
Ways == {"volume", "envFrom", "env", "projected"}

ASSUME UsesAssumption == Uses \subseteq SUBSET Ways

Phases == {"Pending", "Running", "over"}

Pod == [phase : Phases, uses : Uses]

\* In the order of their registration (main.go:119-122).
Resolvers == <<"ownerref", "configmap", "namespace">>

\* Mutant: a resolver is asked about objects of its own kind without owners only.
Handles_Unowned(name, object) ==
    \/ name = "ownerref" /\ object.owners # {}
    \/ name = "configmap" /\ object.kind = "ConfigMap" /\ object.owners = {}
    \/ name = "namespace" /\ object.kind = "Namespace" /\ object.owners = {}

Handles(name, object) ==
    \/ name = "ownerref" /\ object.owners # {}
    \/ name = "configmap" /\ object.kind = "ConfigMap"
    \/ name = "namespace" /\ object.kind = "Namespace"

\* A Pod of any phase holds the ConfigMaps its volumes and environment name.
RefersToConfigMap(pod) == pod.uses \cap {"volume", "envFrom", "env"} # {}

\* A Pod that is over does not keep its Namespace.
KeepsNamespace(pod) == pod.phase \in {"Running", "Pending"}

\* The references to the object there are now: what the resolvers look for.
PodReferences(object) ==
    {<<"pod", name>> : name \in {p \in Pods :
        /\ pods[p] # Absent
        /\ \/ object.kind = "ConfigMap" /\ RefersToConfigMap(pods[p])
           \/ object.kind = "Namespace" /\ KeepsNamespace(pods[p])}}

DeploymentReferences(object) ==
    IF object.kind = "Namespace" THEN {<<"deployment", name>> : name \in deployments} ELSE {}

OwnerReferences(object) ==
    {<<"owner", ownerRef>> : ownerRef \in {o \in object.owners : IsLive(o, ownerUid)}}

References(object) ==
    PodReferences(object) \cup DeploymentReferences(object) \cup OwnerReferences(object)

ResolverTypeOK ==
    /\ ownerUid \in [Owners -> Nat \cup {Absent}]
    /\ pods \in [Pods -> Pod \cup {Absent}]
    /\ deployments \subseteq Deployments
    /\ obj \in Objects \cup {Absent}
    /\ turn \in 1..(Len(Resolvers) + 1)
    /\ todo \subseteq OwnerRef
    /\ listed \in BOOLEAN
    /\ failed \subseteq {"ownerref", "configmap", "namespace"}
    /\ verdict \in Verdicts \cup {Absent}

ResolverInit ==
    /\ ownerUid \in [Owners -> {0}]
    /\ pods = [name \in Pods |-> Absent]
    /\ deployments = {}
    /\ obj = Absent
    /\ turn = 1
    /\ todo = {}
    /\ listed = FALSE
    /\ found = {}
    /\ refs = {}
    /\ failed = {}
    /\ verdict = Absent
    /\ always = {}
    /\ ever = {}
    /\ answered = {}

-----------------------------------------------------------------------------
(* The cluster moves *)

\* A Pod comes or goes.
PodComesOrGoes(name) ==
    /\ pods' \in {[pods EXCEPT ![name] = pod] :
                   pod \in IF pods[name] = Absent THEN Pod ELSE {Absent}}
    /\ UNCHANGED <<ownerUid, deployments>>

\* Its spec does not change, and what is over stays over.
PodProceeds(name) ==
    /\ pods[name] # Absent
    /\ pods[name].phase # "over"
    /\ \E phase \in Phases : pods' = [pods EXCEPT ![name].phase = phase]
    /\ UNCHANGED <<ownerUid, deployments>>

DeploymentChanges(name) ==
    /\ deployments' \in {deployments \cup {name}, deployments \ {name}}
    /\ UNCHANGED <<ownerUid, pods>>

\* An owner dies, or another one of its name comes.
OwnerChanges(owner) ==
    /\ \E uid \in {1, Absent} : ownerUid' = [ownerUid EXCEPT ![owner] = uid]
    /\ UNCHANGED <<pods, deployments>>

WorkloadsMove ==
    /\ \/ \E name \in Pods : PodComesOrGoes(name) \/ PodProceeds(name)
       \/ \E name \in Deployments : DeploymentChanges(name)
       \/ \E owner \in Owners : OwnerChanges(owner)
    /\ UNCHANGED <<walkVars, answered>>
    /\ always' = IF obj = Absent THEN {} ELSE always \cap References(obj)'
    /\ ever' = IF obj = Absent THEN {} ELSE ever \cup References(obj)'

-----------------------------------------------------------------------------
(* ResolveAll *)

Start(object) ==
    /\ obj = Absent
    /\ obj' = object
    /\ todo' = object.owners
    /\ always' = References(object)
    /\ ever' = References(object)
    /\ UNCHANGED <<clusterVars, turn, listed, found, refs, failed, verdict, answered>>

\* It is the turn of the resolver, and it handles the object.
Runs(name) ==
    /\ obj # Absent
    /\ turn <= Len(Resolvers)
    /\ Resolvers[turn] = name
    /\ Handles(name, obj)

Skip ==
    /\ obj # Absent
    /\ turn <= Len(Resolvers)
    /\ ~Handles(Resolvers[turn], obj)
    /\ turn' = turn + 1
    /\ UNCHANGED <<clusterVars, obj, todo, listed, found, refs, failed, verdict, historyVars>>

\* The resolver returns its references, and the next one has its turn.
Returns(references) ==
    /\ refs' = refs \cup references
    /\ found' = {}
    /\ turn' = turn + 1

\* OwnerRefResolver: one GET per ownerReference.
GetOwner ==
    /\ Runs("ownerref")
    /\ \E ownerRef \in todo :
         LET now == IF IsLive(ownerRef, ownerUid) THEN found \cup {<<"owner", ownerRef>>} ELSE found
         IN  /\ todo' = todo \ {ownerRef}
             /\ answered' = answered \cup {<<"GET", ownerRef>>}
             /\ IF todo = {ownerRef}
                THEN Returns(now)
                ELSE found' = now /\ UNCHANGED <<refs, turn>>
    /\ UNCHANGED <<clusterVars, obj, listed, failed, verdict, always, ever>>

\* ConfigMapResolver: the Pods of the Namespace.
ListPodsOfConfigMap ==
    /\ Runs("configmap")
    /\ Returns(PodReferences(obj))
    /\ answered' = answered \cup {<<"LIST", "pods">>}
    /\ UNCHANGED <<clusterVars, obj, todo, listed, failed, verdict, always, ever>>

\* NamespaceResolver: a live Pod is enough, otherwise the Deployments decide.
ListPodsOfNamespace ==
    /\ Runs("namespace")
    /\ ~listed
    /\ IF PodReferences(obj) # {}
       THEN \E one \in PodReferences(obj) : Returns({one}) /\ UNCHANGED listed
       ELSE listed' = TRUE /\ UNCHANGED <<refs, found, turn>>
    /\ answered' = answered \cup {<<"LIST", "pods">>}
    /\ UNCHANGED <<clusterVars, obj, todo, failed, verdict, always, ever>>

ListDeploymentsOfNamespace ==
    /\ Runs("namespace")
    /\ listed
    /\ IF deployments # {}
       THEN \E one \in DeploymentReferences(obj) : Returns({one})
       ELSE Returns({})
    /\ answered' = answered \cup {<<"LIST", "deployments">>}
    /\ UNCHANGED <<clusterVars, obj, todo, listed, failed, verdict, always, ever>>

\* A read fails: what the resolver has found is dropped, the others go on.
\* Nothing is read for an ownerReference that does not parse.
ResolverFails ==
    /\ \/ Runs("ownerref") /\ \E ownerRef \in todo : ownerRef.parses
       \/ Runs("configmap")
       \/ Runs("namespace")
    /\ failed' = failed \cup {Resolvers[turn]}
    /\ found' = {}
    /\ turn' = turn + 1
    /\ UNCHANGED <<clusterVars, obj, todo, listed, refs, verdict, historyVars>>

\* Mutant: the references that were found stand although a resolver failed.
Judgement_Lenient == ResolverVerdict(refs # {})

Judgement == IF failed # {} THEN Failed ELSE ResolverVerdict(refs # {})

Judge ==
    /\ obj # Absent
    /\ turn = Len(Resolvers) + 1
    /\ verdict = Absent
    /\ verdict' = Judgement
    /\ UNCHANGED <<clusterVars, obj, turn, todo, listed, found, refs, failed, historyVars>>

\* Mutant: the resolvers keep what they know in their fields.
Forgets_Little ==
    /\ listed' = listed
    /\ refs' = refs
    /\ failed' = {}

\* The resolvers and the registry have no fields that change.
Forgets ==
    /\ listed' = FALSE
    /\ refs' = {}
    /\ failed' = {}

\* The caller takes the verdict; the next call starts anew.
Leave ==
    /\ verdict # Absent
    /\ Forgets
    /\ obj' = Absent
    /\ turn' = 1
    /\ todo' = {}
    /\ found' = {}
    /\ verdict' = Absent
    /\ always' = {}
    /\ ever' = {}
    /\ answered' = {}
    /\ UNCHANGED clusterVars

ResolverNext ==
    \/ WorkloadsMove
    \/ \E object \in Objects : Start(object)
    \/ Skip
    \/ GetOwner
    \/ ListPodsOfConfigMap
    \/ ListPodsOfNamespace
    \/ ListDeploymentsOfNamespace
    \/ ResolverFails
    \/ Judge
    \/ Leave

ResolverSpec == ResolverInit /\ [][ResolverNext]_resolverVars

-----------------------------------------------------------------------------
(* Properties *)

Found(class) == verdict # Absent /\ verdict.class = class

\* An object that something referred to all the while the resolvers looked is
\* not called abandoned, whatever else came and went between their reads and
\* whichever of them failed.  What moves from one list to the other may be
\* missed: a Namespace that was never empty can be found empty
\* (namespace_resolver.go:71-118, registry.go:34-56).
SteadyReferenceIsFound == Found("abandoned") => always = {}

\* An object is called active for references it had while the resolvers looked:
\* never for those of another object or of an earlier look
\* (registry.go:35-54, resolver_strategy.go:45-55).
EvidenceIsReal == Found("active") => refs \cap ever # {}

\* What an object may be referred from: each ownerReference that can be looked
\* up, the Pods, and for a Namespace the Deployments.
Sources(object) ==
    {<<"GET", ownerRef>> : ownerRef \in {o \in object.owners : o.parses}}
      \cup {<<"LIST", "pods">>}
      \cup (IF object.kind = "Namespace" THEN {<<"LIST", "deployments">>} ELSE {})

\* No answer is not an answer: an object is called abandoned only when the API
\* server has answered about every source in this look
\* (registry.go:44-53, resolver_strategy.go:40-43, namespace_resolver.go:72, 99,
\* ownerref_resolver.go:62-66).
AbsenceIsAnswered == Found("abandoned") => Sources(obj) \subseteq answered

-----------------------------------------------------------------------------
(* What the properties rest on: the invariant that ResolverProofs shows to *)
(* be inductive.                                                           *)

\* Between two calls nothing is known.
IdleIsClean ==
    obj = Absent =>
      /\ turn = 1 /\ ~listed
      /\ todo = {} /\ found = {} /\ refs = {} /\ failed = {}
      /\ verdict = Absent /\ always = {} /\ answered = {}

\* The Pods are listed for a Namespace in the last turn only.
ListedInTurn == listed => turn >= 3

\* What is left to look up are ownerReferences of the object.
TodoIsOwed == obj # Absent => todo \subseteq obj.owners

\* What has held all the while holds now, and is known as soon as its source
\* has been read.
SteadyIsKnown ==
    obj # Absent =>
      /\ always \subseteq References(obj)
      /\ failed # {} \/ refs # {} \/
         \A ref \in always :
           \/ ref[1] = "owner" /\ turn = 1 /\ (ref[2] \in todo \/ found # {})
           \/ ref[1] = "pod" /\ (turn <= 2 \/ (obj.kind = "Namespace" /\ turn = 3 /\ ~listed))
           \/ ref[1] = "deployment" /\ turn <= 3

\* Evidence is what held at some time of this look.
EvidenceIsKept == obj # Absent => found \cup refs \cup References(obj) \subseteq ever

\* As long as nothing failed, what is behind has been answered; only a Namespace
\* with a live Pod is not asked for its Deployments.
ReadIsAnswered ==
    obj # Absent /\ failed = {} =>
      /\ \A ownerRef \in obj.owners :
           <<"GET", ownerRef>> \in answered \/ (turn = 1 /\ ownerRef \in todo)
      /\ listed \/ turn > 3 \/ (turn = 3 /\ obj.kind = "ConfigMap")
           => <<"LIST", "pods">> \in answered
      /\ turn > 3 /\ obj.kind = "Namespace" => refs # {} \/ <<"LIST", "deployments">> \in answered

VerdictIsJudged == verdict # Absent => turn = 4 /\ verdict = Judgement

ResolverInv ==
    /\ ResolverTypeOK
    /\ IdleIsClean
    /\ ListedInTurn
    /\ TodoIsOwed
    /\ SteadyIsKnown
    /\ EvidenceIsKept
    /\ ReadIsAnswered
    /\ VerdictIsJudged

=============================================================================
