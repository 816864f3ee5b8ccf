------------------------------ MODULE StageProofs ------------------------------
(***************************************************************************)
(* The theorems about the two pure stages in front of a changing cluster:  *)
(* what Classification and Evaluation check on their instances, for any    *)
(* object, any metadata, any clock and any number of policies.             *)
(***************************************************************************)
EXTENDS Classification, Evaluation, PipelineProofs

-----------------------------------------------------------------------------
(* The chain *)

\* What the chain is asked about has its type.
ChainTypeOK ==
    /\ key \in Keys
    /\ obj \in Object
    /\ now \in Nat
    /\ uidOf \in [Owners -> Nat \cup {Absent}]
    /\ referenced \in BOOLEAN

LEMMA ChainTypeCorrect == ChainSpec => []ChainTypeOK
<1>1. ChainInit => ChainTypeOK
  <2> SUFFICES ASSUME ChainInit PROVE ChainTypeOK
    OBVIOUS
  <2>1. key \in Keys /\ now \in Nat /\ referenced \in BOOLEAN
    BY ClassificationAssumption DEF ChainInit
  <2>2. uidOf \in [Owners -> Nat \cup {Absent}]
    BY ClassificationAssumption DEF ChainInit
  <2>3. PICK meta \in Metas :
          obj = [uid |-> 1, created |-> now, terminating |-> FALSE, meta |-> meta]
    BY DEF ChainInit
  <2>4. obj \in Object
    BY <2>1, <2>3, ClassificationAssumption DEF Object
  <2> QED BY <2>1, <2>2, <2>4 DEF ChainTypeOK
<1>2. ASSUME ChainTypeOK, [ChainNext]_chainVars PROVE ChainTypeOK'
  <2> USE <1>2 DEF ChainTypeOK
  <2>1. CASE PassTime
    BY <2>1 DEF PassTime
  <2>2. CASE ReplaceOwners
    BY <2>2, ClassificationAssumption DEF ReplaceOwners
  <2>3. CASE MoveWorkloads
    BY <2>3 DEF MoveWorkloads
  <2>4. CASE UNCHANGED chainVars
    BY <2>4 DEF chainVars
  <2> QED BY <2>1, <2>2, <2>3, <2>4 DEF ChainNext
<1> QED BY <1>1, <1>2, PTL DEF ChainSpec

\* The classes of the six verdicts, and when each strategy passes.
LEMMA ClassCases ==
    ChainTypeOK =>
      /\ ProtectionVerdict(key, obj.meta).class = IF Guarded THEN "protected" ELSE "unknown"
      /\ FinalizerVerdict(obj.meta).class =
           IF HasForeignFinalizer(obj.meta) THEN "blocked" ELSE "unknown"
      /\ OwnerRefVerdict(obj.meta, LiveOwners(obj.meta, uidOf)).class =
           IF obj.meta.owners = {} THEN "unknown"
           ELSE IF OwnerLives THEN "active" ELSE "orphaned"
      /\ ResolverVerdict(referenced).class = IF referenced THEN "active" ELSE "abandoned"
<1> SUFFICES ASSUME ChainTypeOK
             PROVE  /\ ProtectionVerdict(key, obj.meta).class =
                         IF Guarded THEN "protected" ELSE "unknown"
                    /\ FinalizerVerdict(obj.meta).class =
                         IF HasForeignFinalizer(obj.meta) THEN "blocked" ELSE "unknown"
                    /\ OwnerRefVerdict(obj.meta, LiveOwners(obj.meta, uidOf)).class =
                         IF obj.meta.owners = {} THEN "unknown"
                         ELSE IF OwnerLives THEN "active" ELSE "orphaned"
                    /\ ResolverVerdict(referenced).class =
                         IF referenced THEN "active" ELSE "abandoned"
  OBVIOUS
<1> USE DEF Verdict, Passed
<1>1. IsProtected(key, obj.meta) <=> Guarded
  <2>1. key \in Keys
    BY DEF ChainTypeOK
  <2>2. key.kind = "Namespace" <=> key.namespace = ""
    BY <2>1, KeysAssumption
  <2> QED BY <2>2 DEF IsProtected, InProtectedNamespace, Guarded
<1>2. LiveOwners(obj.meta, uidOf) # {} <=> OwnerLives
  BY DEF LiveOwners, OwnerLives
<1> QED BY <1>1, <1>2 DEF ProtectionVerdict, FinalizerVerdict, OwnerRefVerdict, ResolverVerdict

\* Whatever object the chain is asked about, class by class.
LEMMA MeetsInOneState == ChainTypeOK => ChainMeetsSpecification
<1> SUFFICES ASSUME ChainTypeOK PROVE ChainMeetsSpecification
  OBVIOUS
<1> DEFINE protection == ProtectionVerdict(key, obj.meta)
           finalizer == FinalizerVerdict(obj.meta)
           ttl == TTLVerdict(obj, now)
           date == ExpiresAtVerdict(obj.meta, now)
           owners == OwnerRefVerdict(obj.meta, LiveOwners(obj.meta, uidOf))
           late == \/ obj.meta.ttl \in Int \ {0} /\ obj.created + obj.meta.ttl < now
                   \/ obj.meta.ttl = Absent /\ DefaultTTL > 0 /\ obj.created + DefaultTTL < now
           due == obj.meta.expiresAt \in Int /\ obj.meta.expiresAt <= now
<1>1. /\ key \in Keys
      /\ obj \in Object
      /\ now \in Nat
  BY DEF ChainTypeOK
<1>2. ttl.class = IF obj.meta.ttl = Malformed THEN "error"
                  ELSE IF late THEN "expired" ELSE "unknown"
  BY <1>1, TTLCases DEF Verdict, Passed, Failed
<1>3. date.class = IF obj.meta.expiresAt = Malformed THEN "error"
                   ELSE IF due THEN "expired" ELSE "unknown"
  BY <1>1, DateCases DEF Verdict, Passed, Failed
<1>4. Expiring <=> late \/ due
  BY DEF Expiring
<1>5. Found.class = IF protection.class # "unknown" THEN protection.class
                    ELSE IF finalizer.class # "unknown" THEN finalizer.class
                    ELSE IF ttl.class # "unknown" THEN ttl.class
                    ELSE IF date.class # "unknown" THEN date.class
                    ELSE IF owners.class # "unknown" THEN owners.class
                    ELSE ResolverVerdict(referenced).class
  BY <1>1, ChainCases DEF Found, Classify
<1> HIDE DEF late, due, ttl, date
<1> QED BY <1>2, <1>3, <1>4, <1>5, ClassCases
        DEF ChainMeetsSpecification, Misspelt

\* The class of the whole chain for any object at any moment: what decides it
\* is protection, then a foreign finalizer, then the annotations, and the rest
\* of the cluster only for what none of them decides (classifier.go:57-79 over
\* main.go:124-135).
THEOREM ChainMeetsItsSpecification == ChainSpec => []ChainMeetsSpecification
BY MeetsInOneState, ChainTypeCorrect, PTL

\* With time the verdict of the chain stays or becomes "expired".
LEMMA OneTick ==
    ASSUME NEW k \in Keys, NEW o \in Object, NEW t \in Nat, NEW u, NEW r
    PROVE  LET before == Classify(k, o, t, u, r)
               after == Classify(k, o, t + 1, u, r)
           IN  \/ after = before
               \/ after.class = "expired" /\ before.class \notin {"protected", "blocked"}
<1> DEFINE Late(time) ==
             \/ o.meta.ttl \in Int \ {0} /\ o.created + o.meta.ttl < time
             \/ o.meta.ttl = Absent /\ DefaultTTL > 0 /\ o.created + DefaultTTL < time
           Due(time) == o.meta.expiresAt \in Int /\ o.meta.expiresAt <= time
<1>1. t + 1 \in Nat
  OBVIOUS
<1>2. Late(t) => Late(t + 1)
  <2>1. o.created \in Nat
    BY DEF Object
  <2> QED BY <2>1, DefaultTTLAssumption
<1>3. Due(t) => Due(t + 1)
  OBVIOUS
<1>4. \A time \in Nat :
        TTLVerdict(o, time) = IF o.meta.ttl = Malformed THEN Failed
                              ELSE IF Late(time) THEN Verdict("expired", High) ELSE Passed
  BY TTLCases
<1>5. \A time \in Nat :
        ExpiresAtVerdict(o.meta, time) =
          IF o.meta.expiresAt = Malformed THEN Failed
          ELSE IF Due(time) THEN Verdict("expired", High) ELSE Passed
  BY DateCases
<1>6. /\ ProtectionVerdict(k, o.meta).class \in {"protected", "unknown"}
      /\ FinalizerVerdict(o.meta).class \in {"blocked", "unknown"}
      /\ OwnerRefVerdict(o.meta, LiveOwners(o.meta, u)).class \notin {"protected", "blocked"}
      /\ ResolverVerdict(r).class \notin {"protected", "blocked"}
  BY DEF ProtectionVerdict, FinalizerVerdict, OwnerRefVerdict, ResolverVerdict, Verdict, Passed
<1>7. /\ Failed.class = "error"
      /\ Passed.class = "unknown"
      /\ Verdict("expired", High).class = "expired"
  BY DEF Failed, Passed, Verdict
<1> HIDE DEF Late, Due
<1> QED BY <1>1, <1>2, <1>3, <1>4, <1>5, <1>6, <1>7, ChainCases DEF Classify

\* Whatever the object and however the clock goes on: time takes no finding
\* back (ttl_strategy.go:52-55, expiresat_strategy.go:49-52).
THEOREM ChainFindingsOnlyExpire == ChainSpec => TimeOnlyExpires
<1> DEFINE Kept == \/ Found' = Found
                   \/ Found'.class = "expired" /\ Found.class \notin {"protected", "blocked"}
<1>1. ASSUME ChainTypeOK, [ChainNext]_chainVars, uidOf' = uidOf, referenced' = referenced
      PROVE  Kept
  <2>1. CASE PassTime
    <3>1. /\ key \in Keys
          /\ obj \in Object
          /\ now \in Nat
      BY <1>1 DEF ChainTypeOK
    <3>2. Found' = Classify(key, obj, now + 1, uidOf, referenced)
      BY <2>1 DEF PassTime, Found
    <3> QED BY <3>1, <3>2, OneTick DEF Found
  <2>2. CASE UNCHANGED <<key, obj, now>>
    BY <1>1, <2>2 DEF Found
  <2> QED BY <1>1, <2>1, <2>2 DEF ChainNext, chainVars, ReplaceOwners, MoveWorkloads
<1> QED BY <1>1, ChainTypeCorrect, PTL DEF ChainSpec, TimeOnlyExpires

-----------------------------------------------------------------------------
(* The policy engine *)

\* What the engine is asked about has its type.
EngineTypeOK ==
    /\ globalDryRun \in BOOLEAN
    /\ override \in Overrides
    /\ finding \in Finding
    /\ kind \in Kinds
    /\ listed \in Seq(Policy)

\* A list without one of its entries.
LEMMA RemovalShifts ==
    ASSUME NEW list \in Seq(Policy), NEW n \in DOMAIN list
    PROVE  /\ RemoveAt(list, n) \in Seq(Policy)
           /\ DOMAIN RemoveAt(list, n) = 1..(Len(list) - 1)
           /\ \A i \in 1..(Len(list) - 1) :
                RemoveAt(list, n)[i] = IF i < n THEN list[i] ELSE list[i + 1]
<1>1. /\ n \in Nat
      /\ 1 <= n
      /\ n <= Len(list)
      /\ Len(list) \in Nat
  OBVIOUS
<1> DEFINE head == SubSeq(list, 1, n - 1)
           tail == SubSeq(list, n + 1, Len(list))
<1>2. /\ head \in Seq(Policy)
      /\ Len(head) = n - 1
      /\ \A i \in 1..(n - 1) : head[i] = list[i]
  BY <1>1
<1>3. /\ tail \in Seq(Policy)
      /\ Len(tail) = Len(list) - n
      /\ \A i \in 1..(Len(list) - n) : tail[i] = list[i + n]
  BY <1>1
<1>4. RemoveAt(list, n) = head \o tail
  BY DEF RemoveAt
<1> HIDE DEF head, tail
<1>5. /\ head \o tail \in Seq(Policy)
      /\ Len(head \o tail) = Len(list) - 1
  BY <1>1, <1>2, <1>3
<1>6. ASSUME NEW i \in 1..(Len(list) - 1)
      PROVE  (head \o tail)[i] = IF i < n THEN list[i] ELSE list[i + 1]
  <2>1. CASE i < n
    BY <1>1, <1>2, <1>3, <2>1
  <2>2. CASE ~(i < n)
    <3>1. (head \o tail)[i] = tail[i - (n - 1)]
      <4>1. \A s, t \in Seq(Policy), j \in Nat :
              Len(s) < j /\ j <= Len(s) + Len(t) => (s \o t)[j] = t[j - Len(s)]
        OBVIOUS
      <4>2. /\ i \in Nat
            /\ n - 1 < i
            /\ i <= (n - 1) + (Len(list) - n)
        BY <1>1, <2>2
      <4> QED BY <1>2, <1>3, <4>1, <4>2
    <3>2. i - (n - 1) \in 1..(Len(list) - n)
      BY <1>1, <2>2
    <3>3. tail[i - (n - 1)] = list[(i - (n - 1)) + n]
      BY <1>3, <3>2
    <3>4. (i - (n - 1)) + n = i + 1
      BY <1>1
    <3> QED BY <2>2, <3>1, <3>3, <3>4
  <2> QED BY <2>1, <2>2
<1> QED BY <1>1, <1>4, <1>5, <1>6

LEMMA EngineTypeCorrect == EngineSpec => []EngineTypeOK
<1>1. EngineInit => EngineTypeOK
  BY EvaluationAssumption DEF EngineInit, EngineTypeOK
<1>2. ASSUME EngineTypeOK, [EngineNext]_engineVars PROVE EngineTypeOK'
  <2> USE <1>2
  <2>1. CASE CreatePolicy
    <3>1. PICK policy \in Installable, at \in 1..(Len(listed) + 1) :
            listed' = SubSeq(listed, 1, at - 1) \o <<policy>> \o SubSeq(listed, at, Len(listed))
      BY <2>1 DEF CreatePolicy, InsertAt
    <3>2. listed \in Seq(Policy) /\ policy \in Policy
      BY EvaluationAssumption DEF EngineTypeOK
    <3>3. /\ SubSeq(listed, 1, at - 1) \in Seq(Policy)
          /\ SubSeq(listed, at, Len(listed)) \in Seq(Policy)
          /\ <<policy>> \in Seq(Policy)
      BY <3>2
    <3>4. listed' \in Seq(Policy)
      BY <3>1, <3>3
    <3> QED BY <2>1, <3>4 DEF EngineTypeOK, CreatePolicy
  <2>2. CASE DeletePolicy
    BY <2>2, RemovalShifts DEF EngineTypeOK, DeletePolicy
  <2>3. CASE ListAgain
    <3>1. PICK order \in Bijection(DOMAIN listed, DOMAIN listed) :
            listed' = [i \in DOMAIN listed |-> listed[order[i]]]
      BY <2>3 DEF ListAgain
    <3>2. order \in [DOMAIN listed -> DOMAIN listed]
      BY DEF Bijection, Injection
    <3>3. listed \in Seq(Policy)
      BY DEF EngineTypeOK
    <3>4. \A i \in DOMAIN listed : listed[order[i]] \in Policy
      BY <3>2, <3>3
    <3>5. /\ DOMAIN listed = 1..Len(listed)
          /\ Len(listed) \in Nat
      BY <3>3
    <3>6. listed' \in [1..Len(listed) -> Policy]
      BY <3>1, <3>4, <3>5
    <3>7. listed' \in Seq(Policy)
      BY <3>5, <3>6
    <3> QED BY <2>3, <3>7 DEF EngineTypeOK, ListAgain
  <2>4. CASE UNCHANGED engineVars
    BY <2>4 DEF EngineTypeOK, engineVars
  <2> QED BY <2>1, <2>2, <2>3, <2>4 DEF EngineNext
<1> QED BY <1>1, <1>2, PTL DEF EngineSpec

\* The operator theorem for the policies listed now, with the thresholds written out.
LEMMA AskedForInOneState == EngineTypeOK => DeletionIsAskedFor
<1> SUFFICES ASSUME EngineTypeOK, Decided.action = "delete", ~Decided.dryRun
             PROVE  DeletionIsAskedFor
  BY DEF DeletionIsAskedFor
<1>1. /\ finding.class \notin {"protected", "blocked", "unknown"}
      /\ ~globalDryRun
      /\ \/ override = "delete"
         \/ \E i \in DOMAIN listed : /\ listed[i].mode = "Delete"
                                     /\ kind \in listed[i].kinds
                                     /\ finding.confidence >= Threshold(listed[i])
  BY DeletionsAreAskedFor DEF EngineTypeOK, Decided
<1>2. \A i \in DOMAIN listed :
        listed[i].mode = "Delete" =>
          Threshold(listed[i]) = IF listed[i].threshold = Absent THEN 90 ELSE listed[i].threshold
  BY DEF Threshold, DefaultDeleteThreshold
<1> QED BY <1>1, <1>2 DEF DeletionIsAskedFor

\* For any policies in any order: a deletion for real was asked for
\* (engine.go:69-100, 117-168, 194-271).
THEOREM EngineDeletesWhatIsAskedFor == EngineSpec => []DeletionIsAskedFor
BY AskedForInOneState, EngineTypeCorrect, PTL

\* For any policies: the global dry run changes no action
\* (engine.go:69-100, 150-158, 205, 252, 306).
THEOREM EngineRehearsesFaithfully == EngineSpec => []DryRunRehearses
<1>1. EngineTypeOK => DryRunRehearses
  BY RehearsalIsFaithful DEF EngineTypeOK, DryRunRehearses, Decided
<1> QED BY <1>1, EngineTypeCorrect, PTL

\* The first matching policy is the one with the least index.
LEMMA FirstMatchingIs ==
    ASSUME NEW k, NEW list \in Seq(Policy), NEW i \in Matching(k, list),
           \A j \in Matching(k, list) : i <= j
    PROVE  FirstMatching(k, list) = list[i]
<1> DEFINE matching == Matching(k, list)
           first == CHOOSE m \in matching : \A j \in matching : m <= j
<1>1. matching \subseteq Nat
  BY DEF Matching
<1>2. first \in matching /\ \A j \in matching : first <= j
  <2> HIDE DEF matching
  <2>1. \E m \in matching : \A j \in matching : m <= j
    BY DEF matching
  <2> QED BY <2>1
<1>3. FirstMatching(k, list) = list[first]
  BY DEF FirstMatching
<1> HIDE DEF first
<1>4. first = i
  <2>1. first <= i /\ i <= first
    BY <1>2
  <2> QED BY <1>1, <1>2, <2>1
<1> QED BY <1>3, <1>4

\* A list has a first matching policy or none.
LEMMA LeastMatching ==
    ASSUME NEW k, NEW list \in Seq(Policy), Matching(k, list) # {}
    PROVE  \E i \in Matching(k, list) : \A j \in Matching(k, list) : i <= j
<1>1. Matching(k, list) \subseteq Nat
  BY DEF Matching
<1> QED BY <1>1, LeastIndex

\* Without a policy for another kind the same policy comes first.
LEMMA RemovalKeepsFirst ==
    ASSUME NEW k, NEW list \in Seq(Policy), NEW n \in DOMAIN list, k \notin list[n].kinds
    PROVE  LET rest == RemoveAt(list, n)
           IN  /\ Matching(k, rest) = {} <=> Matching(k, list) = {}
               /\ Matching(k, list) # {} => FirstMatching(k, rest) = FirstMatching(k, list)
<1> DEFINE rest == RemoveAt(list, n)
           Before(i) == IF i < n THEN i ELSE i - 1
           After(i) == IF i < n THEN i ELSE i + 1
<1>1. /\ rest \in Seq(Policy)
      /\ DOMAIN rest = 1..(Len(list) - 1)
      /\ \A i \in 1..(Len(list) - 1) : rest[i] = list[After(i)]
  <2>1. \A i \in 1..(Len(list) - 1) : RemoveAt(list, n)[i] = IF i < n THEN list[i] ELSE list[i + 1]
    BY RemovalShifts
  <2> QED BY <2>1, RemovalShifts
<1>2. n \in Nat /\ Len(list) \in Nat /\ n \in 1..Len(list) /\ DOMAIN list = 1..Len(list)
  OBVIOUS
<1> HIDE DEF rest
<1>3. ASSUME NEW i \in Matching(k, rest)
      PROVE  After(i) \in Matching(k, list) /\ Before(After(i)) = i
  <2>1. i \in 1..(Len(list) - 1) /\ k \in rest[i].kinds
    BY <1>1 DEF Matching
  <2>2. After(i) \in DOMAIN list /\ Before(After(i)) = i
    BY <1>2, <2>1
  <2> QED BY <1>1, <2>1, <2>2 DEF Matching
<1>4. ASSUME NEW i \in Matching(k, list)
      PROVE  Before(i) \in Matching(k, rest) /\ After(Before(i)) = i /\ i \in 1..Len(list) /\ i # n
  <2>1. i \in 1..Len(list) /\ k \in list[i].kinds /\ i # n
    BY <1>2 DEF Matching
  <2>2. Before(i) \in 1..(Len(list) - 1) /\ After(Before(i)) = i
    BY <1>2, <2>1
  <2>3. rest[Before(i)] = list[i]
    BY <1>1, <2>2
  <2> QED BY <1>1, <2>1, <2>2, <2>3 DEF Matching
<1>5. Matching(k, rest) = {} <=> Matching(k, list) = {}
  BY <1>3, <1>4
<1>6. ASSUME Matching(k, list) # {}
      PROVE  FirstMatching(k, rest) = FirstMatching(k, list)
  <2>1. PICK i \in Matching(k, list) : \A j \in Matching(k, list) : i <= j
    BY <1>6, LeastMatching
  <2>2. i \in 1..Len(list) /\ i # n
    BY <1>4
  <2>3. ASSUME NEW j \in Matching(k, rest) PROVE Before(i) <= j
    <3>1. i <= After(j)
      BY <1>3, <2>1
    <3>2. j \in 1..(Len(list) - 1)
      BY <1>1 DEF Matching
    <3> QED BY <1>2, <2>2, <3>1, <3>2
  <2>4. Before(i) \in Matching(k, rest) /\ After(Before(i)) = i
    BY <1>4
  <2>5. FirstMatching(k, rest) = rest[Before(i)]
    <3> HIDE DEF Before
    <3> QED BY <1>1, <2>3, <2>4, FirstMatchingIs
  <2>6. FirstMatching(k, list) = list[i]
    BY <2>1, FirstMatchingIs
  <2>7. rest[Before(i)] = list[i]
    <3>1. Before(i) \in 1..(Len(list) - 1)
      BY <1>1, <2>4 DEF Matching
    <3> QED BY <1>1, <2>4, <3>1
  <2> QED BY <2>5, <2>6, <2>7
<1> QED BY <1>5, <1>6 DEF rest

\* Without a foreign policy the first matching one is the same.
LEMMA IgnoredInOneState == EngineTypeOK => ForeignPolicyIsIgnored
<1> SUFFICES ASSUME EngineTypeOK, NEW n \in DOMAIN listed, kind \notin listed[n].kinds
             PROVE  Evaluate(globalDryRun, override, finding, kind, RemoveAt(listed, n)) = Decided
  BY DEF ForeignPolicyIsIgnored
<1>1. /\ Matching(kind, RemoveAt(listed, n)) = {} <=> Matching(kind, listed) = {}
      /\ Matching(kind, listed) # {} =>
           FirstMatching(kind, RemoveAt(listed, n)) = FirstMatching(kind, listed)
  BY RemovalKeepsFirst DEF EngineTypeOK
<1> QED BY <1>1 DEF Evaluate, Decided

\* A policy for another kind has no say wherever any list has it
\* (namespace_reconciler.go:116-131, engine.go:182-192).
THEOREM EngineIgnoresForeignPolicies == EngineSpec => []ForeignPolicyIsIgnored
BY IgnoredInOneState, EngineTypeCorrect, PTL

\* Setting the mode of every policy leaves the kinds and thresholds alone, so
\* that the same one comes first.
LEMMA ModesKeepFirst ==
    ASSUME EngineTypeOK, NEW mode \in Modes
    PROVE  /\ Matching(kind, InMode(mode)) = Matching(kind, listed)
           /\ Matching(kind, listed) # {} =>
                FirstMatching(kind, InMode(mode)) = [FirstMatching(kind, listed) EXCEPT !.mode = mode]
<1>1. listed \in Seq(Policy)
  BY DEF EngineTypeOK
<1>2. /\ InMode(mode) \in Seq(Policy)
      /\ DOMAIN InMode(mode) = DOMAIN listed
      /\ \A i \in DOMAIN listed : InMode(mode)[i] = [listed[i] EXCEPT !.mode = mode]
  <2>1. ASSUME NEW policy \in Policy PROVE [policy EXCEPT !.mode = mode] \in Policy
    BY DEF Policy
  <2>2. \A i \in DOMAIN listed : listed[i] \in Policy
    BY <1>1
  <2> QED BY <1>1, <2>1, <2>2 DEF InMode
<1>3. \A i \in DOMAIN listed : InMode(mode)[i].kinds = listed[i].kinds
  <2>1. ASSUME NEW policy \in Policy PROVE [policy EXCEPT !.mode = mode].kinds = policy.kinds
    BY DEF Policy
  <2>2. \A i \in DOMAIN listed : listed[i] \in Policy
    BY <1>1
  <2> QED BY <1>2, <2>1, <2>2
<1>4. Matching(kind, InMode(mode)) = Matching(kind, listed)
  BY <1>2, <1>3 DEF Matching
<1>5. ASSUME Matching(kind, listed) # {}
      PROVE  FirstMatching(kind, InMode(mode)) = [FirstMatching(kind, listed) EXCEPT !.mode = mode]
  <2>1. PICK i \in Matching(kind, listed) : \A j \in Matching(kind, listed) : i <= j
    BY <1>1, <1>5, LeastMatching
  <2>2. FirstMatching(kind, listed) = listed[i]
    BY <1>1, <2>1, FirstMatchingIs
  <2>3. FirstMatching(kind, InMode(mode)) = InMode(mode)[i]
    BY <1>2, <1>4, <2>1, FirstMatchingIs
  <2> QED BY <1>2, <2>2, <2>3 DEF Matching
<1> QED BY <1>4, <1>5

\* In either mode the same policy is asked, and DryRun asks for no more confidence.
LEMMA AnnouncedInOneState == EngineTypeOK => DryRunPolicyAnnounces
<1> SUFFICES ASSUME EngineTypeOK,
                    Evaluate(globalDryRun, override, finding, kind, InMode("Delete")).action = "delete"
             PROVE  Evaluate(globalDryRun, override, finding, kind, InMode("DryRun")).action = "delete"
  BY DEF DryRunPolicyAnnounces
<1>1. finding.class \notin {"protected", "unknown", "blocked"}
  BY DEF Evaluate, Decide
<1>2. CASE Overridden(override)
  BY <1>1, <1>2 DEF Evaluate, Decide
<1>3. CASE ~Overridden(override)
  <2> DEFINE policy == FirstMatching(kind, listed)
             Switched(mode) == [policy EXCEPT !.mode = mode]
  <2>1. "Delete" \in Modes /\ "DryRun" \in Modes
    BY DEF Modes
  <2>2. Matching(kind, listed) # {}
    BY <1>1, <1>3, <2>1, ModesKeepFirst DEF Evaluate, DefaultDecision, Decide
  <2>3. \A mode \in {"Delete", "DryRun"} :
          Evaluate(globalDryRun, override, finding, kind, InMode(mode)) =
            PolicyDecision(globalDryRun, finding, Switched(mode))
    BY <1>1, <1>3, <2>1, <2>2, ModesKeepFirst DEF Evaluate
  <2>4. policy \in Policy
    BY <2>2, FirstMatchingChoice DEF EngineTypeOK
  <2> HIDE DEF policy
  <2>5. /\ Switched("Delete").threshold = policy.threshold
        /\ Switched("DryRun").threshold = policy.threshold
        /\ Switched("Delete").mode = "Delete"
        /\ Switched("DryRun").mode = "DryRun"
    BY <2>4 DEF Policy
  <2> HIDE DEF Switched
  <2>6. finding.confidence >= Threshold(Switched("Delete"))
    BY <2>3, <2>5 DEF PolicyDecision, Decide
  <2>7. finding.confidence >= Threshold(Switched("DryRun"))
    <3>1. finding.confidence \in Nat
      BY DEF EngineTypeOK, Finding, Confidences, Low, Medium, High
    <3>2. CASE policy.threshold = Absent
      BY <2>5, <2>6, <3>1, <3>2 DEF Threshold, DefaultDeleteThreshold, DefaultReportThreshold
    <3>3. CASE policy.threshold # Absent
      BY <2>5, <2>6, <3>3 DEF Threshold
    <3> QED BY <3>2, <3>3
  <2> QED BY <2>3, <2>5, <2>7 DEF PolicyDecision, Decide
<1> QED BY <1>2, <1>3

\* For any policies: those that are switched from DryRun to Delete delete
\* nothing they would not have announced (engine.go:207-226, 273-283).
THEOREM EngineAnnouncesDeletions == EngineSpec => []DryRunPolicyAnnounces
BY AnnouncedInOneState, EngineTypeCorrect, PTL

=============================================================================
