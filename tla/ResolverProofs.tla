---------------------------- MODULE ResolverProofs ----------------------------
(***************************************************************************)
(* The resolvers' promises for any objects, Pods, Deployments and owners:  *)
(* ResolverInv is inductive, and what the last strategy answers follows.   *)
(***************************************************************************)
EXTENDS Resolver, TLAPS

\* What refers to an object is tagged with where it is looked for.
LEMMA ReferencesAreTagged ==
    ASSUME NEW object \in Objects, NEW ref \in References(object)
    PROVE  /\ ref[1] \in {"owner", "pod", "deployment"}
           /\ ref[1] = "owner" => ref[2] \in object.owners /\ IsLive(ref[2], ownerUid)
           /\ ref[1] = "pod" => ref \in PodReferences(object)
           /\ ref[1] = "deployment" => ref \in DeploymentReferences(object)
<1>1. CASE ref \in PodReferences(object)
  <2>1. ref[1] = "pod"
    BY <1>1 DEF PodReferences
  <2> QED BY <1>1, <2>1
<1>2. CASE ref \in DeploymentReferences(object)
  <2>1. ref[1] = "deployment"
    BY <1>2 DEF DeploymentReferences
  <2> QED BY <1>2, <2>1
<1>3. CASE ref \in OwnerReferences(object)
  <2>1. PICK o \in object.owners : IsLive(o, ownerUid) /\ ref = <<"owner", o>>
    BY <1>3 DEF OwnerReferences
  <2>2. ref[1] = "owner" /\ ref[2] = o
    BY <2>1
  <2> QED BY <2>1, <2>2
<1> QED BY <1>1, <1>2, <1>3 DEF References

\* Each turn belongs to one resolver.
LEMMA Turns ==
    /\ Len(Resolvers) = 3
    /\ Resolvers[1] = "ownerref"
    /\ Resolvers[2] = "configmap"
    /\ Resolvers[3] = "namespace"
BY DEF Resolvers

\* Whose turn it is when a resolver runs, and what it has been given.
LEMMA RunsInTurn ==
    ASSUME ResolverInv
    PROVE  /\ Runs("ownerref") => turn = 1 /\ obj \in Objects /\ obj # Absent
           /\ Runs("configmap") => turn = 2 /\ obj \in Objects /\ obj # Absent /\ obj.kind = "ConfigMap"
           /\ Runs("namespace") => turn = 3 /\ obj \in Objects /\ obj # Absent /\ obj.kind = "Namespace"
<1>1. turn \in 1..4 /\ obj \in Objects \cup {Absent}
  BY Turns DEF ResolverInv, ResolverTypeOK
<1>2. turn <= 3 => turn = 1 \/ turn = 2 \/ turn = 3
  BY <1>1
<1> QED BY <1>1, <1>2, Turns DEF Runs, Handles

\* While it is somebody's turn there is no verdict.
LEMMA NoVerdictYet ==
    ASSUME ResolverInv, turn <= 3
    PROVE  verdict = Absent
BY DEF ResolverInv, VerdictIsJudged

LEMMA InitIsInv == ResolverInit => ResolverInv
<1> SUFFICES ASSUME ResolverInit PROVE ResolverInv
  OBVIOUS
<1>1. ResolverTypeOK
  <2>1. ownerUid \in [Owners -> Nat \cup {Absent}]
    BY DEF ResolverInit
  <2>2. pods \in [Pods -> Pod \cup {Absent}]
    BY DEF ResolverInit
  <2>3. 1 \in 1..(Len(Resolvers) + 1)
    BY Turns
  <2> QED BY <2>1, <2>2, <2>3 DEF ResolverInit, ResolverTypeOK
<1>2. obj = Absent /\ verdict = Absent /\ listed = FALSE
  BY DEF ResolverInit
<1>3. IdleIsClean
  BY DEF ResolverInit, IdleIsClean
<1> QED BY <1>1, <1>2, <1>3
  DEF ResolverInv, ListedInTurn, TodoIsOwed, SteadyIsKnown, EvidenceIsKept, ReadIsAnswered, VerdictIsJudged

\* The cluster's moves take from what has held all the while, and add to what
\* has held at some time.
LEMMA MovesKeepInv ==
    ASSUME ResolverInv, WorkloadsMove
    PROVE  ResolverInv'
<1>1. UNCHANGED <<obj, turn, todo, listed, found, refs, failed, verdict, answered>>
  BY DEF WorkloadsMove, walkVars
<1>2. /\ always' = IF obj = Absent THEN {} ELSE always \cap References(obj)'
      /\ ever' = IF obj = Absent THEN {} ELSE ever \cup References(obj)'
  BY DEF WorkloadsMove
<1>3. ResolverTypeOK'
  <2>1. (ownerUid \in [Owners -> Nat \cup {Absent}])'
    <3>1. CASE \E owner \in Owners : OwnerChanges(owner)
      BY <3>1 DEF OwnerChanges, ResolverInv, ResolverTypeOK
    <3>2. CASE ownerUid' = ownerUid
      BY <3>2 DEF ResolverInv, ResolverTypeOK
    <3> QED BY <3>1, <3>2 DEF WorkloadsMove, PodComesOrGoes, PodProceeds, DeploymentChanges
  <2>2. (pods \in [Pods -> Pod \cup {Absent}])'
    <3>1. ASSUME NEW name \in Pods, PodComesOrGoes(name)
          PROVE  (pods \in [Pods -> Pod \cup {Absent}])'
      BY <3>1 DEF PodComesOrGoes, ResolverInv, ResolverTypeOK
    <3>2. ASSUME NEW name \in Pods, PodProceeds(name)
          PROVE  (pods \in [Pods -> Pod \cup {Absent}])'
      <4>1. pods \in [Pods -> Pod \cup {Absent}] /\ pods[name] \in Pod
        BY <3>2 DEF PodProceeds, ResolverInv, ResolverTypeOK
      <4>2. PICK phase \in Phases : pods' = [pods EXCEPT ![name].phase = phase]
        BY <3>2 DEF PodProceeds
      <4>3. [pods[name] EXCEPT !.phase = phase] \in Pod
        BY <4>1 DEF Pod
      <4> QED BY <4>1, <4>2, <4>3
    <3>3. CASE pods' = pods
      BY <3>3 DEF ResolverInv, ResolverTypeOK
    <3> QED BY <3>1, <3>2, <3>3 DEF WorkloadsMove, DeploymentChanges, OwnerChanges
  <2>3. (deployments \subseteq Deployments)'
    <3>1. ASSUME NEW name \in Deployments, DeploymentChanges(name)
          PROVE  (deployments \subseteq Deployments)'
      BY <3>1 DEF DeploymentChanges, ResolverInv, ResolverTypeOK
    <3> QED BY <3>1
      DEF WorkloadsMove, PodComesOrGoes, PodProceeds, OwnerChanges, ResolverInv, ResolverTypeOK
  <2> QED BY <1>1, <2>1, <2>2, <2>3 DEF ResolverInv, ResolverTypeOK
<1>4. IdleIsClean' /\ ListedInTurn' /\ TodoIsOwed' /\ ReadIsAnswered'
  BY <1>1, <1>2 DEF ResolverInv, IdleIsClean, ListedInTurn, TodoIsOwed, ReadIsAnswered
<1>5. VerdictIsJudged'
  BY <1>1 DEF ResolverInv, VerdictIsJudged, Judgement
<1>6. SteadyIsKnown'
  <2> SUFFICES ASSUME obj # Absent PROVE SteadyIsKnown'
    BY <1>1 DEF SteadyIsKnown
  <2>1. always' \subseteq always /\ always' \subseteq References(obj)'
    BY <1>2
  <2> QED BY <1>1, <2>1 DEF ResolverInv, SteadyIsKnown
<1>7. EvidenceIsKept'
  <2> SUFFICES ASSUME obj # Absent PROVE EvidenceIsKept'
    BY <1>1 DEF EvidenceIsKept
  <2>1. found \cup refs \subseteq ever
    BY DEF ResolverInv, EvidenceIsKept
  <2> QED BY <1>1, <1>2, <2>1 DEF EvidenceIsKept
<1> QED BY <1>3, <1>4, <1>5, <1>6, <1>7 DEF ResolverInv

\* A look begins with everything unknown.
LEMMA StartKeepsInv ==
    ASSUME ResolverInv, NEW object \in Objects, Start(object)
    PROVE  ResolverInv'
<1>1. /\ obj = Absent /\ obj' = object /\ todo' = object.owners
      /\ UNCHANGED <<ownerUid, pods, deployments, turn, listed, found, refs, failed, verdict, answered>>
  BY DEF Start, clusterVars
<1>2. always' = References(object) /\ ever' = References(object)
  BY DEF Start
<1>3. /\ turn = 1 /\ ~listed /\ found = {} /\ refs = {} /\ failed = {} /\ verdict = Absent
  BY <1>1 DEF ResolverInv, IdleIsClean
<1>4. object # Absent /\ object.owners \subseteq OwnerRef
  BY ResolverAssumption
<1>5. ResolverTypeOK'
  BY <1>1, <1>4 DEF ResolverInv, ResolverTypeOK
<1>6. IdleIsClean' /\ ListedInTurn' /\ TodoIsOwed' /\ VerdictIsJudged'
  BY <1>1, <1>3, <1>4 DEF IdleIsClean, ListedInTurn, TodoIsOwed, VerdictIsJudged
<1>7. References(obj)' = References(object)
  BY <1>1
  DEF References, PodReferences, DeploymentReferences, OwnerReferences
<1>8. SteadyIsKnown'
  <2>1. ASSUME NEW ref \in always'
        PROVE  \/ ref[1] = "owner" /\ ref[2] \in todo'
               \/ ref[1] = "pod"
               \/ ref[1] = "deployment"
    BY <1>1, <1>2, ReferencesAreTagged
  <2> QED BY <1>1, <1>2, <1>3, <1>7, <2>1 DEF SteadyIsKnown
<1>9. EvidenceIsKept' /\ ReadIsAnswered'
  BY <1>1, <1>2, <1>3, <1>7 DEF EvidenceIsKept, ReadIsAnswered
<1> QED BY <1>5, <1>6, <1>8, <1>9 DEF ResolverInv

\* A resolver that does not handle the object could not have found anything.
LEMMA SkipKeepsInv ==
    ASSUME ResolverInv, Skip
    PROVE  ResolverInv'
<1>1. /\ turn' = turn + 1
      /\ UNCHANGED <<ownerUid, pods, deployments, obj, todo, listed, found, refs, failed, verdict>>
      /\ UNCHANGED <<always, ever, answered>>
  BY DEF Skip, clusterVars, historyVars
<1>2. obj \in Objects /\ obj # Absent /\ turn \in 1..3
  BY Turns DEF Skip, ResolverInv, ResolverTypeOK
<1>3. /\ turn = 1 => obj.owners = {}
      /\ turn = 2 => obj.kind = "Namespace"
      /\ turn = 3 => obj.kind = "ConfigMap"
  BY <1>2, Turns, ResolverAssumption DEF Skip, Handles, Kinds
<1>4. ResolverTypeOK'
  BY <1>1, <1>2, Turns DEF ResolverInv, ResolverTypeOK
<1>5. References(obj)' = References(obj)
  BY <1>1 DEF References, PodReferences, DeploymentReferences, OwnerReferences
<1>6. IdleIsClean' /\ ListedInTurn' /\ TodoIsOwed' /\ VerdictIsJudged'
  BY <1>1, <1>2, NoVerdictYet DEF ResolverInv, IdleIsClean, ListedInTurn, TodoIsOwed, VerdictIsJudged
<1>7. SteadyIsKnown'
  <2>1. ASSUME failed = {}, refs = {}, NEW ref \in always
        PROVE  \/ ref[1] = "pod" /\ (turn' <= 2 \/ (obj.kind = "Namespace" /\ turn' = 3 /\ ~listed))
               \/ ref[1] = "deployment" /\ turn' <= 3
    <3>1. ref \in References(obj)
      BY <1>2 DEF ResolverInv, SteadyIsKnown
    <3>2. /\ ref[1] \in {"owner", "pod", "deployment"}
          /\ ref[1] = "owner" => ref[2] \in obj.owners
          /\ ref[1] = "pod" => ref \in PodReferences(obj)
          /\ ref[1] = "deployment" => ref \in DeploymentReferences(obj)
      BY <1>2, <3>1, ReferencesAreTagged
    <3>3. \/ ref[1] = "owner" /\ turn = 1
          \/ ref[1] = "pod" /\ (turn <= 2 \/ (obj.kind = "Namespace" /\ turn = 3 /\ ~listed))
          \/ ref[1] = "deployment" /\ turn <= 3
      BY <1>2, <2>1 DEF ResolverInv, SteadyIsKnown
    <3>4. turn = 3 => ref[1] # "deployment"
      BY <1>3, <3>2 DEF DeploymentReferences
    <3>5. turn <= 2 => ~listed
      BY <1>2 DEF ResolverInv, ListedInTurn
    <3> QED BY <1>1, <1>2, <1>3, <3>2, <3>3, <3>4, <3>5
  <2>2. always \subseteq References(obj)
    BY <1>2 DEF ResolverInv, SteadyIsKnown
  <2> QED BY <1>1, <1>5, <2>1, <2>2 DEF SteadyIsKnown
<1>8. EvidenceIsKept'
  BY <1>1, <1>5 DEF ResolverInv, EvidenceIsKept
<1>9. ReadIsAnswered'
  <2>1. turn <= 2 => ~listed
    BY <1>2 DEF ResolverInv, ListedInTurn
  <2> QED BY <1>1, <1>2, <1>3, <2>1 DEF ResolverInv, ReadIsAnswered
<1> QED BY <1>4, <1>6, <1>7, <1>8, <1>9 DEF ResolverInv

\* A resolver ends its turn: what the conjuncts about Idle, types and the verdict
\* need to know of it.
LEMMA TurnsKeepShape ==
    ASSUME ResolverInv, obj # Absent, turn \in 1..3,
           UNCHANGED <<ownerUid, pods, deployments, obj, verdict>>,
           turn' \in {turn, turn + 1},
           todo' \subseteq todo,
           listed' \in BOOLEAN, listed' => listed \/ turn = 3,
           failed' \subseteq failed \cup {Resolvers[turn]}
    PROVE  ResolverTypeOK' /\ IdleIsClean' /\ ListedInTurn' /\ TodoIsOwed' /\ VerdictIsJudged'
<1>1. verdict' = Absent
  BY NoVerdictYet
<1>2. Resolvers[turn] \in {"ownerref", "configmap", "namespace"}
  BY Turns
<1>3. turn' \in 1..(Len(Resolvers) + 1)
  BY Turns
<1>4. ResolverTypeOK'
  BY <1>2, <1>3 DEF ResolverInv, ResolverTypeOK
<1> QED BY <1>1, <1>4 DEF ResolverInv, ResolverTypeOK, IdleIsClean, ListedInTurn,
    TodoIsOwed, VerdictIsJudged

\* A read does not move what is read.
LEMMA ReferencesStay ==
    ASSUME UNCHANGED <<ownerUid, pods, deployments, obj>>
    PROVE  References(obj)' = References(obj)
BY DEF References, PodReferences, DeploymentReferences, OwnerReferences

\* An owner that has lived all the while is found when its turn comes.
LEMMA GetOwnerKeepsInv ==
    ASSUME ResolverInv, GetOwner
    PROVE  ResolverInv'
<1>1. turn = 1 /\ obj \in Objects /\ obj # Absent
  BY RunsInTurn DEF GetOwner
<1>2. PICK ownerRef \in todo :
        LET now == IF IsLive(ownerRef, ownerUid) THEN found \cup {<<"owner", ownerRef>>} ELSE found
        IN  /\ todo' = todo \ {ownerRef}
            /\ answered' = answered \cup {<<"GET", ownerRef>>}
            /\ IF todo = {ownerRef}
               THEN Returns(now)
               ELSE found' = now /\ UNCHANGED <<refs, turn>>
  BY DEF GetOwner
<1> DEFINE now == IF IsLive(ownerRef, ownerUid) THEN found \cup {<<"owner", ownerRef>>} ELSE found
<1>3. /\ UNCHANGED <<ownerUid, pods, deployments, obj, listed, failed, verdict, always, ever>>
      /\ todo' = todo \ {ownerRef}
      /\ answered' = answered \cup {<<"GET", ownerRef>>}
  BY <1>2 DEF GetOwner, clusterVars
<1>4. \/ todo = {ownerRef} /\ refs' = refs \cup now /\ found' = {} /\ turn' = 2
      \/ todo # {ownerRef} /\ refs' = refs /\ found' = now /\ turn' = 1
  BY <1>1, <1>2 DEF Returns
<1>5. ~listed
  BY <1>1 DEF ResolverInv, ListedInTurn
<1>6. ResolverTypeOK' /\ IdleIsClean' /\ ListedInTurn' /\ TodoIsOwed' /\ VerdictIsJudged'
  <2>1. /\ turn \in 1..3 /\ turn' \in {turn, turn + 1} /\ todo' \subseteq todo
        /\ listed' \in BOOLEAN /\ (listed' => listed \/ turn = 3)
    BY <1>1, <1>3, <1>4, <1>5 DEF ResolverInv, ResolverTypeOK
  <2>2. failed' \subseteq failed \cup {Resolvers[turn]}
    BY <1>3
  <2> QED BY <1>1, <1>3, <2>1, <2>2, TurnsKeepShape
<1>7. References(obj)' = References(obj) /\ always \subseteq References(obj)
  BY <1>1, <1>3, ReferencesStay DEF ResolverInv, SteadyIsKnown
<1>8. SteadyIsKnown'
  <2>1. ASSUME failed = {}, refs = {}, refs' = {}, NEW ref \in always
        PROVE  \/ ref[1] = "owner" /\ turn' = 1 /\ (ref[2] \in todo' \/ found' # {})
               \/ ref[1] = "pod" /\ turn' <= 2
               \/ ref[1] = "deployment" /\ turn' <= 3
    <3>1. ref[1] \in {"owner", "pod", "deployment"}
          /\ (ref[1] = "owner" => IsLive(ref[2], ownerUid))
      BY <1>1, <1>7, ReferencesAreTagged
    <3>2. ref[1] = "owner" => ref[2] \in todo \/ found # {}
      BY <1>1, <2>1 DEF ResolverInv, SteadyIsKnown
    <3>3. ref[1] = "owner" /\ (found # {} \/ ref[2] = ownerRef) => now # {}
      BY <3>1
    <3>4. ref[1] = "owner" => turn' = 1 /\ (ref[2] \in todo' \/ found' # {})
      <4> SUFFICES ASSUME ref[1] = "owner" PROVE turn' = 1 /\ (ref[2] \in todo' \/ found' # {})
        OBVIOUS
      <4>1. CASE found # {} \/ ref[2] = ownerRef
        <5>1. now # {}
          BY <3>3, <4>1
        <5>2. refs' # refs \cup now
          BY <2>1, <5>1
        <5> QED BY <1>4, <5>1, <5>2
      <4>2. CASE found = {} /\ ref[2] # ownerRef
        <5>1. ref[2] \in todo /\ todo # {ownerRef}
          BY <3>2, <4>2
        <5>2. turn' = 1
          BY <1>4, <5>1
        <5>3. ref[2] \in todo \ {ownerRef}
          BY <4>2, <5>1
        <5> QED BY <1>3, <5>2, <5>3
      <4> QED BY <4>1, <4>2
    <3>5. turn' <= 2 /\ turn' <= 3
      BY <1>4
    <3> QED BY <3>1, <3>4, <3>5
  <2>2. refs # {} => refs' # {}
    BY <1>4
  <2> QED BY <1>1, <1>3, <1>7, <2>1, <2>2 DEF SteadyIsKnown
<1>9. EvidenceIsKept'
  <2>1. found \cup refs \cup References(obj) \subseteq ever
    BY <1>1 DEF ResolverInv, EvidenceIsKept
  <2>2. IsLive(ownerRef, ownerUid) => <<"owner", ownerRef>> \in References(obj)
    <3>1. todo \subseteq obj.owners
      BY <1>1 DEF ResolverInv, TodoIsOwed
    <3> QED BY <1>2, <3>1 DEF References, OwnerReferences
  <2>3. now \subseteq ever
    BY <2>1, <2>2
  <2> QED BY <1>3, <1>4, <1>7, <2>1, <2>3 DEF EvidenceIsKept
<1>10. ReadIsAnswered'
  BY <1>1, <1>3, <1>4, <1>5 DEF ResolverInv, ReadIsAnswered
<1> QED BY <1>6, <1>8, <1>9, <1>10 DEF ResolverInv

\* A Pod that has held the ConfigMap all the while is in the list.
LEMMA ListPodsOfConfigMapKeepsInv ==
    ASSUME ResolverInv, ListPodsOfConfigMap
    PROVE  ResolverInv'
<1>1. turn = 2 /\ obj \in Objects /\ obj # Absent /\ obj.kind = "ConfigMap"
  BY RunsInTurn DEF ListPodsOfConfigMap
<1>2. /\ UNCHANGED <<ownerUid, pods, deployments, obj, todo, listed, failed, verdict, always, ever>>
      /\ answered' = answered \cup {<<"LIST", "pods">>}
      /\ refs' = refs \cup PodReferences(obj) /\ found' = {} /\ turn' = 3
  BY <1>1 DEF ListPodsOfConfigMap, clusterVars, Returns
<1>3. ~listed
  BY <1>1 DEF ResolverInv, ListedInTurn
<1>4. ResolverTypeOK' /\ IdleIsClean' /\ ListedInTurn' /\ TodoIsOwed' /\ VerdictIsJudged'
  <2>1. turn \in 1..3 /\ turn' \in {turn, turn + 1} /\ listed' \in BOOLEAN
        /\ failed' \subseteq failed \cup {Resolvers[turn]}
    BY <1>1, <1>2, <1>3 DEF ResolverInv, ResolverTypeOK
  <2> QED BY <1>1, <1>2, <1>3, <2>1, TurnsKeepShape
<1>5. References(obj)' = References(obj) /\ always \subseteq References(obj)
  BY <1>1, <1>2, ReferencesStay DEF ResolverInv, SteadyIsKnown
<1>6. SteadyIsKnown'
  <2>1. ASSUME failed = {}, refs' = {}, NEW ref \in always
        PROVE  ref[1] = "deployment"
    <3>1. ref[1] \in {"owner", "pod", "deployment"}
          /\ (ref[1] = "pod" => ref \in PodReferences(obj))
      BY <1>1, <1>5, ReferencesAreTagged
    <3>2. refs = {} /\ PodReferences(obj) = {}
      BY <1>2, <2>1
    <3>3. ref[1] # "owner"
      BY <1>1, <2>1, <3>2 DEF ResolverInv, SteadyIsKnown
    <3> QED BY <3>1, <3>2, <3>3
  <2> QED BY <1>2, <1>5, <2>1 DEF SteadyIsKnown
<1>7. EvidenceIsKept'
  BY <1>1, <1>2, <1>5 DEF ResolverInv, EvidenceIsKept, References
<1>8. ReadIsAnswered'
  BY <1>1, <1>2, <1>3 DEF ResolverInv, ReadIsAnswered
<1> QED BY <1>4, <1>6, <1>7, <1>8 DEF ResolverInv

\* A Pod that has kept the Namespace all the while is in the list; if none is,
\* the Deployments are still to come.
LEMMA ListPodsOfNamespaceKeepsInv ==
    ASSUME ResolverInv, ListPodsOfNamespace
    PROVE  ResolverInv'
<1>1. turn = 3 /\ obj \in Objects /\ obj # Absent /\ obj.kind = "Namespace" /\ ~listed
  BY RunsInTurn DEF ListPodsOfNamespace
<1>2. /\ UNCHANGED <<ownerUid, pods, deployments, obj, todo, failed, verdict, always, ever>>
      /\ answered' = answered \cup {<<"LIST", "pods">>}
  BY DEF ListPodsOfNamespace, clusterVars
<1>3. \/ /\ refs' # {} /\ refs' \subseteq refs \cup PodReferences(obj)
         /\ found' = {} /\ turn' = 4 /\ listed' = listed
      \/ /\ PodReferences(obj) = {}
         /\ listed' = TRUE /\ refs' = refs /\ found' = found /\ turn' = 3
  <2>1. CASE PodReferences(obj) # {}
    BY <1>1, <2>1 DEF ListPodsOfNamespace, Returns
  <2>2. CASE PodReferences(obj) = {}
    BY <1>1, <2>2 DEF ListPodsOfNamespace
  <2> QED BY <2>1, <2>2
<1>4. ResolverTypeOK' /\ IdleIsClean' /\ ListedInTurn' /\ TodoIsOwed' /\ VerdictIsJudged'
  <2>1. turn \in 1..3 /\ turn' \in {turn, turn + 1}
    BY <1>1, <1>3
  <2>2. listed' \in BOOLEAN
    BY <1>3 DEF ResolverInv, ResolverTypeOK
  <2>3. failed' \subseteq failed \cup {Resolvers[turn]}
    BY <1>2
  <2> QED BY <1>1, <1>2, <2>1, <2>2, <2>3, TurnsKeepShape
<1>5. References(obj)' = References(obj) /\ always \subseteq References(obj)
  BY <1>1, <1>2, ReferencesStay DEF ResolverInv, SteadyIsKnown
<1>6. SteadyIsKnown'
  <2>1. ASSUME failed = {}, refs' = {}, NEW ref \in always
        PROVE  ref[1] = "deployment" /\ turn' = 3
    <3>1. ref[1] \in {"owner", "pod", "deployment"}
          /\ (ref[1] = "pod" => ref \in PodReferences(obj))
      BY <1>1, <1>5, ReferencesAreTagged
    <3>2. refs = {} /\ PodReferences(obj) = {} /\ turn' = 3
      BY <1>3, <2>1
    <3>3. ref[1] # "owner"
      BY <1>1, <2>1, <3>2 DEF ResolverInv, SteadyIsKnown
    <3> QED BY <3>1, <3>2, <3>3
  <2> QED BY <1>2, <1>5, <2>1 DEF SteadyIsKnown
<1>7. EvidenceIsKept'
  BY <1>1, <1>2, <1>3, <1>5 DEF ResolverInv, EvidenceIsKept, References
<1>8. ReadIsAnswered'
  BY <1>1, <1>2, <1>3 DEF ResolverInv, ReadIsAnswered
<1> QED BY <1>4, <1>6, <1>7, <1>8 DEF ResolverInv

\* A Deployment that has been there all the while is in the list.
LEMMA ListDeploymentsKeepsInv ==
    ASSUME ResolverInv, ListDeploymentsOfNamespace
    PROVE  ResolverInv'
<1>1. turn = 3 /\ obj \in Objects /\ obj # Absent /\ obj.kind = "Namespace" /\ listed
  BY RunsInTurn DEF ListDeploymentsOfNamespace
<1>2. /\ UNCHANGED <<ownerUid, pods, deployments, obj, todo, listed, failed, verdict, always, ever>>
      /\ answered' = answered \cup {<<"LIST", "deployments">>}
  BY DEF ListDeploymentsOfNamespace, clusterVars
<1>3. /\ refs' \subseteq refs \cup DeploymentReferences(obj) /\ refs \subseteq refs'
      /\ refs' # {} \/ deployments = {}
      /\ found' = {} /\ turn' = 4
  <2>1. CASE deployments # {}
    <3>1. PICK one \in DeploymentReferences(obj) : Returns({one})
      BY <2>1 DEF ListDeploymentsOfNamespace
    <3> QED BY <1>1, <3>1 DEF Returns
  <2>2. CASE deployments = {}
    BY <1>1, <2>2 DEF ListDeploymentsOfNamespace, Returns
  <2> QED BY <2>1, <2>2
<1>4. ResolverTypeOK' /\ IdleIsClean' /\ ListedInTurn' /\ TodoIsOwed' /\ VerdictIsJudged'
  <2>1. turn \in 1..3 /\ turn' \in {turn, turn + 1} /\ listed' \in BOOLEAN
        /\ failed' \subseteq failed \cup {Resolvers[turn]}
    BY <1>1, <1>2, <1>3 DEF ResolverInv, ResolverTypeOK
  <2> QED BY <1>1, <1>2, <1>3, <2>1, TurnsKeepShape
<1>5. References(obj)' = References(obj) /\ always \subseteq References(obj)
  BY <1>1, <1>2, ReferencesStay DEF ResolverInv, SteadyIsKnown
<1>6. SteadyIsKnown'
  <2>1. ASSUME failed = {}, refs' = {}, NEW ref \in always
        PROVE  FALSE
    <3>1. ref[1] = "deployment" => ref \in DeploymentReferences(obj)
      BY <1>1, <1>5, ReferencesAreTagged
    <3>2. refs = {} /\ DeploymentReferences(obj) = {}
      BY <1>3, <2>1 DEF DeploymentReferences
    <3>3. ref[1] = "deployment"
      BY <1>1, <2>1, <3>2 DEF ResolverInv, SteadyIsKnown
    <3> QED BY <3>1, <3>2, <3>3
  <2> QED BY <1>2, <1>5, <2>1 DEF SteadyIsKnown
<1>7. EvidenceIsKept'
  BY <1>1, <1>2, <1>3, <1>5 DEF ResolverInv, EvidenceIsKept, References
<1>8. ReadIsAnswered'
  BY <1>1, <1>2, <1>3 DEF ResolverInv, ReadIsAnswered
<1> QED BY <1>4, <1>6, <1>7, <1>8 DEF ResolverInv

\* After a failure nothing is concluded any more.
LEMMA ResolverFailsKeepsInv ==
    ASSUME ResolverInv, ResolverFails
    PROVE  ResolverInv'
<1>1. turn \in 1..3 /\ obj \in Objects /\ obj # Absent
  BY RunsInTurn DEF ResolverFails
<1>2. /\ UNCHANGED <<ownerUid, pods, deployments, obj, todo, listed, refs, verdict, always, ever, answered>>
      /\ failed' = failed \cup {Resolvers[turn]} /\ found' = {} /\ turn' = turn + 1
  BY DEF ResolverFails, clusterVars, historyVars
<1>3. ResolverTypeOK' /\ IdleIsClean' /\ ListedInTurn' /\ TodoIsOwed' /\ VerdictIsJudged'
  <2>1. listed' \in BOOLEAN /\ (listed' => listed)
    BY <1>2 DEF ResolverInv, ResolverTypeOK
  <2> QED BY <1>1, <1>2, <2>1, TurnsKeepShape
<1>4. References(obj)' = References(obj) /\ failed' # {}
  BY <1>2, ReferencesStay
<1>5. SteadyIsKnown' /\ EvidenceIsKept' /\ ReadIsAnswered'
  BY <1>1, <1>2, <1>4 DEF ResolverInv, SteadyIsKnown, EvidenceIsKept, ReadIsAnswered
<1> QED BY <1>3, <1>5 DEF ResolverInv

\* The verdict changes nothing it rests on.
LEMMA JudgeKeepsInv ==
    ASSUME ResolverInv, Judge
    PROVE  ResolverInv'
<1>1. /\ UNCHANGED <<ownerUid, pods, deployments, obj, turn, todo, listed, found, refs, failed>>
      /\ UNCHANGED <<always, ever, answered>>
      /\ obj # Absent /\ turn = 4 /\ verdict' = Judgement
  BY Turns DEF Judge, clusterVars, historyVars
<1>2. verdict' \in Verdicts
  BY <1>1
  DEF Judgement, ResolverVerdict, Failed, Verdict, Verdicts, Classes, Confidences, Low, Medium, High
<1>3. ResolverTypeOK'
  BY <1>1, <1>2 DEF ResolverInv, ResolverTypeOK
<1>4. References(obj)' = References(obj)
  BY <1>1, ReferencesStay
<1>5. VerdictIsJudged'
  BY <1>1 DEF VerdictIsJudged, Judgement
<1>6. IdleIsClean' /\ ListedInTurn' /\ TodoIsOwed' /\ ReadIsAnswered'
  BY <1>1 DEF ResolverInv, IdleIsClean, ListedInTurn, TodoIsOwed, ReadIsAnswered
<1>7. SteadyIsKnown' /\ EvidenceIsKept'
  BY <1>1, <1>4 DEF ResolverInv, SteadyIsKnown, EvidenceIsKept
<1> QED BY <1>3, <1>5, <1>6, <1>7 DEF ResolverInv

\* The next look starts anew.
LEMMA LeaveKeepsInv ==
    ASSUME ResolverInv, Leave
    PROVE  ResolverInv'
<1>1. /\ UNCHANGED <<ownerUid, pods, deployments>>
      /\ obj' = Absent /\ turn' = 1 /\ todo' = {} /\ listed' = FALSE /\ found' = {}
      /\ refs' = {} /\ failed' = {} /\ verdict' = Absent /\ always' = {} /\ answered' = {}
  BY DEF Leave, Forgets, clusterVars
<1>2. 1 \in 1..(Len(Resolvers) + 1)
  BY Turns
<1>3. ResolverTypeOK'
  BY <1>1, <1>2 DEF ResolverInv, ResolverTypeOK
<1>4. IdleIsClean' /\ ListedInTurn' /\ TodoIsOwed' /\ VerdictIsJudged'
  BY <1>1 DEF IdleIsClean, ListedInTurn, TodoIsOwed, VerdictIsJudged
<1>5. SteadyIsKnown' /\ EvidenceIsKept' /\ ReadIsAnswered'
  BY <1>1 DEF SteadyIsKnown, EvidenceIsKept, ReadIsAnswered
<1> QED BY <1>3, <1>4, <1>5 DEF ResolverInv

-----------------------------------------------------------------------------
(* The theorems *)

LEMMA StutteringKeepsInv ==
    ASSUME ResolverInv, UNCHANGED resolverVars
    PROVE  ResolverInv'
<1>1. UNCHANGED <<ownerUid, pods, deployments, obj, turn, todo, listed, found, refs, failed, verdict,
                  always, ever, answered>>
  BY DEF resolverVars, clusterVars, walkVars, historyVars
<1>2. References(obj)' = References(obj)
  BY <1>1, ReferencesStay
<1>3. ResolverTypeOK' /\ IdleIsClean' /\ ListedInTurn' /\ TodoIsOwed'
  BY <1>1 DEF ResolverInv, ResolverTypeOK, IdleIsClean, ListedInTurn, TodoIsOwed
<1>4. SteadyIsKnown' /\ EvidenceIsKept' /\ ReadIsAnswered'
  BY <1>1, <1>2 DEF ResolverInv, SteadyIsKnown, EvidenceIsKept, ReadIsAnswered
<1>5. VerdictIsJudged'
  BY <1>1 DEF ResolverInv, VerdictIsJudged, Judgement
<1> QED BY <1>3, <1>4, <1>5 DEF ResolverInv

\* The invariant of the resolvers holds, whatever moves between their reads.
THEOREM ResolverInvariant == ResolverSpec => []ResolverInv
<1>1. ResolverInv /\ [ResolverNext]_resolverVars => ResolverInv'
  <2> SUFFICES ASSUME ResolverInv, [ResolverNext]_resolverVars PROVE ResolverInv'
    OBVIOUS
  <2> QED BY MovesKeepInv, StartKeepsInv, SkipKeepsInv, GetOwnerKeepsInv, ListPodsOfConfigMapKeepsInv,
             ListPodsOfNamespaceKeepsInv, ListDeploymentsKeepsInv, ResolverFailsKeepsInv,
             JudgeKeepsInv, LeaveKeepsInv, StutteringKeepsInv
          DEF ResolverNext
<1> QED BY InitIsInv, <1>1, PTL DEF ResolverSpec

\* An abandoned object has been through every turn, and nothing failed or was found.
LEMMA AbandonedIsUnfound ==
    ASSUME ResolverInv, Found("abandoned")
    PROVE  /\ obj \in Objects /\ obj # Absent /\ turn = 4
           /\ failed = {} /\ refs = {}
<1>1. verdict # Absent /\ turn = 4 /\ verdict = Judgement /\ verdict.class = "abandoned"
  BY DEF ResolverInv, VerdictIsJudged, Found
<1>2. obj # Absent
  BY <1>1 DEF ResolverInv, IdleIsClean
<1>3. failed = {} /\ refs = {}
  BY <1>1 DEF Judgement, ResolverVerdict, Failed, Verdict
<1> QED BY <1>1, <1>2, <1>3 DEF ResolverInv, ResolverTypeOK

\* However many Pods, Deployments and owners come and go, an object that
\* something held all the while is not called abandoned
\* (namespace_resolver.go:71-118, registry.go:34-56).
THEOREM ResolversFindSteadyReferences == ResolverSpec => []SteadyReferenceIsFound
<1>1. ResolverInv => SteadyReferenceIsFound
  <2> SUFFICES ASSUME ResolverInv, Found("abandoned") PROVE always = {}
    BY DEF SteadyReferenceIsFound
  <2>1. obj # Absent /\ turn = 4 /\ failed = {} /\ refs = {}
    BY AbandonedIsUnfound
  <2> QED BY <2>1 DEF ResolverInv, SteadyIsKnown
<1> QED BY ResolverInvariant, <1>1, PTL

\* Nothing is called abandoned on a question that was not answered
\* (registry.go:44-53, resolver_strategy.go:40-43).
THEOREM ResolversAwaitAnswers == ResolverSpec => []AbsenceIsAnswered
<1>1. ResolverInv => AbsenceIsAnswered
  <2> SUFFICES ASSUME ResolverInv, Found("abandoned") PROVE Sources(obj) \subseteq answered
    BY DEF AbsenceIsAnswered
  <2>1. obj # Absent /\ turn = 4 /\ failed = {} /\ refs = {}
    BY AbandonedIsUnfound
  <2> QED BY <2>1 DEF ResolverInv, ReadIsAnswered, Sources
<1> QED BY ResolverInvariant, <1>1, PTL

\* Nothing is called active for a reference of another object or another look
\* (registry.go:35-54, resolver_strategy.go:45-55).
THEOREM ResolversGiveRealEvidence == ResolverSpec => []EvidenceIsReal
<1>1. ResolverInv => EvidenceIsReal
  <2> SUFFICES ASSUME ResolverInv, Found("active") PROVE refs \cap ever # {}
    BY DEF EvidenceIsReal
  <2>1. verdict # Absent /\ verdict = Judgement /\ verdict.class = "active"
    BY DEF ResolverInv, VerdictIsJudged, Found
  <2>2. refs # {}
    BY <2>1 DEF Judgement, ResolverVerdict, Failed, Verdict
  <2>3. refs \subseteq ever
    BY <2>1 DEF ResolverInv, IdleIsClean, EvidenceIsKept
  <2> QED BY <2>2, <2>3
<1> QED BY ResolverInvariant, <1>1, PTL

=============================================================================
