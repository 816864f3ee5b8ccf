---------------------------- MODULE PipelineProofs ----------------------------
(***************************************************************************)
(* What the two pure stages of the pipeline guarantee for every object,    *)
(* every finding and every list of policies: the chain of strategies and   *)
(* the policy engine.                                                      *)
(***************************************************************************)
EXTENDS Classifier, PolicyEngine, WellFoundedInduction, TLAPS

\* A nonempty set of indices has a first one.
LEMMA LeastIndex ==
    ASSUME NEW S, S \subseteq Nat, S # {}
    PROVE  \E i \in S : \A j \in S : i <= j
<1> DEFINE R == {ss \in Nat \X Nat : ss[1] < ss[2]}
<1>1. IsWellFoundedOn(R, Nat)
  BY NatLessThanWellFounded DEF OpToRel
<1> HIDE DEF R
<1>2. PICK i \in S : \A j \in S : ~(<<j, i>> \in R)
  BY <1>1, WFMin
<1>3. ASSUME NEW j \in S PROVE i <= j
  <2>1. ~(<<j, i>> \in R)
    BY <1>2
  <2>2. ~(j < i)
    BY <2>1 DEF R
  <2> QED BY <2>2
<1> QED BY <1>3

-----------------------------------------------------------------------------
(* The chain *)

\* Every verdict a local strategy gives is one.
LEMMA LocalVerdictsType ==
    ASSUME NEW key \in Keys, NEW obj \in Object, NEW now \in Nat
    PROVE  LocalVerdicts(key, obj, now) \in Seq(Verdicts)
<1> USE DEF Verdicts, Classes, Confidences, Low, Medium, High, Verdict, Passed, Failed
<1>1. ProtectionVerdict(key, obj.meta) \in Verdicts
  BY DEF ProtectionVerdict
<1>2. FinalizerVerdict(obj.meta) \in Verdicts
  BY DEF FinalizerVerdict
<1>3. TTLVerdict(obj, now) \in Verdicts
  BY DEF TTLVerdict
<1>4. ExpiresAtVerdict(obj.meta, now) \in Verdicts
  BY DEF ExpiresAtVerdict
<1> HIDE DEF Verdicts
<1> QED BY <1>1, <1>2, <1>3, <1>4 DEF LocalVerdicts

\* The chain answers "unknown" when every strategy passes, and otherwise the
\* verdict of the first strategy that does not.
LEMMA FirstDecisiveChoice ==
    ASSUME NEW verdicts \in Seq(Verdicts)
    PROVE  \/ /\ \A i \in DOMAIN verdicts : verdicts[i].class = "unknown"
              /\ FirstDecisive(verdicts) = Passed
           \/ \E i \in DOMAIN verdicts :
                /\ FirstDecisive(verdicts) = verdicts[i]
                /\ verdicts[i].class # "unknown"
                /\ \A j \in DOMAIN verdicts : j < i => verdicts[j].class = "unknown"
<1> DEFINE decisive == {i \in DOMAIN verdicts : verdicts[i].class # "unknown"}
           first == CHOOSE i \in decisive : \A j \in decisive : i <= j
<1>1. CASE decisive = {}
  BY <1>1 DEF FirstDecisive
<1>2. CASE decisive # {}
  <2>1. decisive \subseteq Nat
    OBVIOUS
  <2>2. \E i \in decisive : \A j \in decisive : i <= j
    <3> HIDE DEF decisive
    <3> QED BY <1>2, <2>1, LeastIndex
  <2>3. first \in decisive /\ \A j \in decisive : first <= j
    <3> HIDE DEF decisive
    <3> QED BY <2>2
  <2>4. FirstDecisive(verdicts) = verdicts[first]
    BY <1>2 DEF FirstDecisive
  <2> HIDE DEF first
  <2>5. ASSUME NEW j \in DOMAIN verdicts, j < first PROVE verdicts[j].class = "unknown"
    BY <2>1, <2>3, <2>5
  <2> QED BY <2>3, <2>4, <2>5
<1> QED BY <1>1, <1>2

\* The whole chain gives verdicts.
LEMMA ChainVerdictsType ==
    ASSUME NEW k \in Keys, NEW o \in Object, NEW t \in Nat, NEW found, NEW r
    PROVE  LocalVerdicts(k, o, t) \o << OwnerRefVerdict(o.meta, found),
                                        ResolverVerdict(r) >> \in Seq(Verdicts)
<1>1. LocalVerdicts(k, o, t) \in Seq(Verdicts)
  BY LocalVerdictsType
<1>2. OwnerRefVerdict(o.meta, found) \in Verdicts
  BY DEF OwnerRefVerdict, Verdicts, Classes, Confidences, Low, Medium, High, Verdict, Passed
<1>3. ResolverVerdict(r) \in Verdicts
  BY DEF ResolverVerdict, Verdicts, Classes, Confidences, Low, Medium, High, Verdict
<1> QED BY <1>1, <1>2, <1>3

\* The chain answers the verdict of the first of its six strategies that does
\* not pass, and one of them never does.
LEMMA ChainCases ==
    ASSUME NEW k \in Keys, NEW o \in Object, NEW t \in Nat, NEW found, NEW r
    PROVE  LET verdict == ClassifyWith(k, o, t, found, r)
               protection == ProtectionVerdict(k, o.meta)
               finalizer == FinalizerVerdict(o.meta)
               ttl == TTLVerdict(o, t)
               date == ExpiresAtVerdict(o.meta, t)
               owners == OwnerRefVerdict(o.meta, found)
           IN  IF protection.class # "unknown" THEN verdict = protection
               ELSE IF finalizer.class # "unknown" THEN verdict = finalizer
               ELSE IF ttl.class # "unknown" THEN verdict = ttl
               ELSE IF date.class # "unknown" THEN verdict = date
               ELSE IF owners.class # "unknown" THEN verdict = owners
               ELSE verdict = ResolverVerdict(r)
<1> DEFINE verdicts == LocalVerdicts(k, o, t) \o << OwnerRefVerdict(o.meta, found),
                                                    ResolverVerdict(r) >>
<1>1. verdicts \in Seq(Verdicts)
  BY ChainVerdictsType
<1>2. /\ DOMAIN verdicts = 1..6
      /\ verdicts[1] = ProtectionVerdict(k, o.meta)
      /\ verdicts[2] = FinalizerVerdict(o.meta)
      /\ verdicts[3] = TTLVerdict(o, t)
      /\ verdicts[4] = ExpiresAtVerdict(o.meta, t)
      /\ verdicts[5] = OwnerRefVerdict(o.meta, found)
      /\ verdicts[6] = ResolverVerdict(r)
  BY DEF LocalVerdicts
<1>3. ClassifyWith(k, o, t, found, r) = FirstDecisive(verdicts)
  BY DEF ClassifyWith
<1>4. verdicts[6].class # "unknown"
  BY <1>2 DEF ResolverVerdict, Verdict
<1> HIDE DEF verdicts
<1>5. PICK i \in 1..6 : /\ FirstDecisive(verdicts) = verdicts[i]
                        /\ verdicts[i].class # "unknown"
                        /\ \A j \in 1..6 : j < i => verdicts[j].class = "unknown"
  BY <1>1, <1>2, <1>4, FirstDecisiveChoice
<1>6. \A j \in 1..6 : verdicts[j].class # "unknown" => i <= j
  BY <1>5
<1>7. i \in {1, 2, 3, 4, 5, 6}
  OBVIOUS
<1> QED BY <1>2, <1>3, <1>5, <1>6, <1>7

\* The part of it before the first remote read.
LEMMA LocalCases ==
    ASSUME NEW k \in Keys, NEW o \in Object, NEW t \in Nat
    PROVE  LET verdict == ClassifyLocally(k, o, t)
               protection == ProtectionVerdict(k, o.meta)
               finalizer == FinalizerVerdict(o.meta)
               ttl == TTLVerdict(o, t)
               date == ExpiresAtVerdict(o.meta, t)
           IN  IF protection.class # "unknown" THEN verdict = protection
               ELSE IF finalizer.class # "unknown" THEN verdict = finalizer
               ELSE IF ttl.class # "unknown" THEN verdict = ttl
               ELSE IF date.class # "unknown" THEN verdict = date
               ELSE verdict = Passed
<1> DEFINE verdicts == LocalVerdicts(k, o, t)
<1>1. verdicts \in Seq(Verdicts)
  BY LocalVerdictsType
<1>2. /\ DOMAIN verdicts = 1..4
      /\ verdicts[1] = ProtectionVerdict(k, o.meta)
      /\ verdicts[2] = FinalizerVerdict(o.meta)
      /\ verdicts[3] = TTLVerdict(o, t)
      /\ verdicts[4] = ExpiresAtVerdict(o.meta, t)
  BY DEF LocalVerdicts
<1>3. ClassifyLocally(k, o, t) = FirstDecisive(verdicts)
  BY DEF ClassifyLocally
<1> HIDE DEF verdicts
<1>4. CASE /\ \A i \in DOMAIN verdicts : verdicts[i].class = "unknown"
           /\ FirstDecisive(verdicts) = Passed
  BY <1>2, <1>3, <1>4
<1>5. ASSUME NEW i \in 1..4,
             FirstDecisive(verdicts) = verdicts[i],
             verdicts[i].class # "unknown",
             \A j \in 1..4 : j < i => verdicts[j].class = "unknown"
      PROVE  \/ i = 1
             \/ i = 2 /\ verdicts[1].class = "unknown"
             \/ i = 3 /\ verdicts[1].class = "unknown" /\ verdicts[2].class = "unknown"
             \/ /\ i = 4
                /\ verdicts[1].class = "unknown"
                /\ verdicts[2].class = "unknown"
                /\ verdicts[3].class = "unknown"
  BY <1>5
<1>6. CASE \E i \in DOMAIN verdicts :
             /\ FirstDecisive(verdicts) = verdicts[i]
             /\ verdicts[i].class # "unknown"
             /\ \A j \in DOMAIN verdicts : j < i => verdicts[j].class = "unknown"
  BY <1>2, <1>3, <1>5, <1>6
<1> QED BY <1>1, <1>4, <1>6, FirstDecisiveChoice

\* So a verdict before the first remote read is that of the whole chain, and
\* what is left to ask decides otherwise (classifier.go:57-79).
LEMMA ChainGoesOn ==
    ASSUME NEW k \in Keys, NEW o \in Object, NEW t \in Nat, NEW found, NEW r
    PROVE  LET verdict == ClassifyLocally(k, o, t)
               owners == OwnerRefVerdict(o.meta, found)
           IN  ClassifyWith(k, o, t, found, r) =
                 IF verdict.class # "unknown" THEN verdict
                 ELSE IF owners.class # "unknown" THEN owners
                 ELSE ResolverVerdict(r)
<1>1. Passed.class = "unknown"
  BY DEF Passed, Verdict
<1> QED BY <1>1, LocalCases, ChainCases

\* When the TTL of an object has elapsed, and when its date has come.
LEMMA TTLCases ==
    ASSUME NEW o \in Object, NEW t \in Nat
    PROVE  LET elapsed == \/ o.meta.ttl \in Int \ {0} /\ o.created + o.meta.ttl < t
                          \/ o.meta.ttl = Absent /\ DefaultTTL > 0 /\ o.created + DefaultTTL < t
           IN  TTLVerdict(o, t) = IF o.meta.ttl = Malformed THEN Failed
                                  ELSE IF elapsed THEN Verdict("expired", High) ELSE Passed
<1>1. o.created \in Nat /\ o.meta.ttl \in Int \cup {Absent, Malformed}
  BY DEF Object, Meta, Times
<1>2. CASE o.meta.ttl = Malformed
  BY <1>2, SentinelAssumption DEF TTLVerdict, ResolveTTL
<1>3. CASE o.meta.ttl = Absent
  BY <1>1, <1>3, SentinelAssumption, DefaultTTLAssumption DEF TTLVerdict, ResolveTTL, TTLElapsed
<1>4. CASE o.meta.ttl \in Int
  BY <1>1, <1>4, SentinelAssumption DEF TTLVerdict, ResolveTTL, TTLElapsed
<1> QED BY <1>1, <1>2, <1>3, <1>4

LEMMA DateCases ==
    ASSUME NEW o \in Object, NEW t \in Nat
    PROVE  ExpiresAtVerdict(o.meta, t) =
             IF o.meta.expiresAt = Malformed THEN Failed
             ELSE IF o.meta.expiresAt \in Int /\ o.meta.expiresAt <= t THEN Verdict("expired", High)
             ELSE Passed
<1>1. o.meta.expiresAt \in Int \cup {Absent, Malformed}
  BY DEF Object, Meta, Times
<1> QED BY <1>1, SentinelAssumption DEF ExpiresAtVerdict

\* Time alone does not take back that an object is expired
\* (ttl_strategy.go:52-55, expiresat_strategy.go:49-52).
LEMMA ExpiredStays ==
    ASSUME NEW k \in Keys, NEW o \in Object, NEW early \in Nat, NEW late \in Nat,
           early <= late,
           ClassifyLocally(k, o, early).class = "expired"
    PROVE  ClassifyLocally(k, o, late) = Verdict("expired", High)
<1> DEFINE Late(time) ==
             \/ o.meta.ttl \in Int \ {0} /\ o.created + o.meta.ttl < time
             \/ o.meta.ttl = Absent /\ DefaultTTL > 0 /\ o.created + DefaultTTL < time
           Due(time) == o.meta.expiresAt \in Int /\ o.meta.expiresAt <= time
<1>1. Late(early) => Late(late)
  <2>1. o.created \in Nat
    BY DEF Object
  <2> QED BY <2>1, DefaultTTLAssumption
<1>2. Due(early) => Due(late)
  OBVIOUS
<1>3. \A time \in Nat :
        TTLVerdict(o, time) = IF o.meta.ttl = Malformed THEN Failed
                              ELSE IF Late(time) THEN Verdict("expired", High) ELSE Passed
  BY TTLCases
<1>4. \A time \in Nat :
        ExpiresAtVerdict(o.meta, time) =
          IF o.meta.expiresAt = Malformed THEN Failed
          ELSE IF Due(time) THEN Verdict("expired", High) ELSE Passed
  BY DateCases
<1>5. /\ ProtectionVerdict(k, o.meta).class \in {"protected", "unknown"}
      /\ FinalizerVerdict(o.meta).class \in {"blocked", "unknown"}
  BY DEF ProtectionVerdict, FinalizerVerdict, Verdict, Passed
<1>6. /\ Failed.class = "error"
      /\ Passed.class = "unknown"
      /\ Verdict("expired", High).class = "expired"
  BY DEF Failed, Passed, Verdict
<1> HIDE DEF Late, Due
<1> QED BY <1>1, <1>2, <1>3, <1>4, <1>5, <1>6, LocalCases

\* The local strategies answer a verdict; a class other than protected,
\* blocked or error is only answered for an object that neither is protected
\* nor holds a foreign finalizer (classifier.go:57-79 over main.go:124-135).
THEOREM ChainGuardsProtection ==
    ASSUME NEW key \in Keys, NEW obj \in Object, NEW now \in Nat
    PROVE  LET verdict == ClassifyLocally(key, obj, now)
           IN  /\ verdict \in Verdicts
               /\ verdict.class \notin {"protected", "blocked", "error"} =>
                    ~IsProtected(key, obj.meta) /\ ~HasForeignFinalizer(obj.meta)
<1> DEFINE verdicts == LocalVerdicts(key, obj, now)
<1>1. verdicts \in Seq(Verdicts)
  BY LocalVerdictsType
<1>2. /\ DOMAIN verdicts = 1..4
      /\ verdicts[1] = ProtectionVerdict(key, obj.meta)
      /\ verdicts[2] = FinalizerVerdict(obj.meta)
  BY DEF LocalVerdicts
<1>3. /\ IsProtected(key, obj.meta) => verdicts[1].class = "protected"
      /\ HasForeignFinalizer(obj.meta) => verdicts[2].class = "blocked"
      /\ verdicts[1].class \in {"protected", "unknown"}
      /\ verdicts[2].class \in {"blocked", "unknown"}
  BY <1>2 DEF ProtectionVerdict, FinalizerVerdict, Verdict, Passed
<1>4. Passed \in Verdicts
  BY DEF Passed, Verdict, Verdicts, Classes, Confidences, Low
<1> HIDE DEF verdicts
<1>5. CASE /\ \A i \in DOMAIN verdicts : verdicts[i].class = "unknown"
           /\ FirstDecisive(verdicts) = Passed
  BY <1>2, <1>3, <1>4, <1>5 DEF ClassifyLocally, verdicts
<1>6. ASSUME NEW i \in DOMAIN verdicts,
             FirstDecisive(verdicts) = verdicts[i],
             verdicts[i].class # "unknown",
             \A j \in DOMAIN verdicts : j < i => verdicts[j].class = "unknown"
      PROVE  /\ FirstDecisive(verdicts) \in Verdicts
             /\ FirstDecisive(verdicts).class \notin {"protected", "blocked", "error"} =>
                  ~IsProtected(key, obj.meta) /\ ~HasForeignFinalizer(obj.meta)
  <2>1. FirstDecisive(verdicts) \in Verdicts
    BY <1>1, <1>6
  <2>2. ASSUME verdicts[i].class \notin {"protected", "blocked", "error"}
        PROVE  verdicts[1].class = "unknown" /\ verdicts[2].class = "unknown"
    BY <1>2, <1>3, <1>6, <2>2
  <2> QED BY <1>3, <1>6, <2>1, <2>2
<1> QED BY <1>1, <1>5, <1>6, FirstDecisiveChoice DEF ClassifyLocally, verdicts

-----------------------------------------------------------------------------
(* The policy engine *)

\* The first matching policy is a listed one for the kind.
LEMMA FirstMatchingChoice ==
    ASSUME NEW kind, NEW listed \in Seq(Policy), Matching(kind, listed) # {}
    PROVE  \E i \in DOMAIN listed : /\ FirstMatching(kind, listed) = listed[i]
                                    /\ kind \in listed[i].kinds
<1> DEFINE matching == Matching(kind, listed)
           first == CHOOSE i \in matching : \A j \in matching : i <= j
<1>1. matching \subseteq DOMAIN listed /\ DOMAIN listed \subseteq Nat
  BY DEF Matching
<1>2. first \in matching
  <2> HIDE DEF matching
  <2>1. \E i \in matching : \A j \in matching : i <= j
    BY <1>1, LeastIndex DEF matching
  <2> QED BY <2>1
<1>3. FirstMatching(kind, listed) = listed[first]
  BY DEF FirstMatching
<1> HIDE DEF first
<1> QED BY <1>2, <1>3 DEF Matching

\* A decision is one of the three actions, by a listed policy or by none.
LEMMA EvaluateType ==
    ASSUME NEW globalDryRun \in BOOLEAN, NEW override \in Overrides, NEW finding \in Finding,
           NEW kind, NEW listed \in Seq(Policy)
    PROVE  Evaluate(globalDryRun, override, finding, kind, listed) \in Decision
<1> USE DEF Decision, Actions, Decide
<1>1. DefaultDecision(globalDryRun, finding) \in Decision
  BY DEF DefaultDecision
<1>2. ASSUME NEW policy \in Policy
      PROVE  PolicyDecision(globalDryRun, finding, policy) \in Decision
  BY DEF PolicyDecision, Policy
<1>3. Matching(kind, listed) # {} => FirstMatching(kind, listed) \in Policy
  BY FirstMatchingChoice
<1>4. Overridden(override) =>
        Decide(OverrideAction[override], globalDryRun, Absent) \in Decision
  BY DEF Overridden, OverrideAction
<1> HIDE DEF Decision, Actions
<1>5. Decide("none", globalDryRun, Absent) \in Decision
  BY DEF Decision, Actions
<1>6. Decide("report", globalDryRun, Absent) \in Decision
  BY DEF Decision, Actions
<1> HIDE DEF Decide
<1> QED BY <1>1, <1>2, <1>3, <1>4, <1>5, <1>6 DEF Evaluate

\* Under the global dry run every decision is marked, and the mark is all
\* that it changes: what is rehearsed is what would be done
\* (engine.go:69-100, 150-158, 205, 252, 306).
THEOREM RehearsalIsFaithful ==
    ASSUME NEW override, NEW finding, NEW kind, NEW listed, NEW globalDryRun \in BOOLEAN
    PROVE  LET rehearsed == Evaluate(TRUE, override, finding, kind, listed)
               decided == Evaluate(globalDryRun, override, finding, kind, listed)
           IN  /\ rehearsed.dryRun
               /\ rehearsed.action = decided.action
               /\ rehearsed.policy = decided.policy
  BY DEF Evaluate, Decide, DefaultDecision, PolicyDecision

\* A deletion for real was asked for, by the object or by a Delete policy for
\* its kind whose threshold the finding reaches; never for a protected, a
\* blocked or an unclassified object, and never under the global dry run
\* (engine.go:69-100, 117-168, 194-271).
THEOREM DeletionsAreAskedFor ==
    ASSUME NEW globalDryRun \in BOOLEAN, NEW override \in Overrides, NEW finding \in Finding,
           NEW kind, NEW listed \in Seq(Policy),
           Evaluate(globalDryRun, override, finding, kind, listed).action = "delete"
    PROVE  /\ finding.class \notin {"protected", "blocked", "unknown"}
           /\ ~Evaluate(globalDryRun, override, finding, kind, listed).dryRun =>
                /\ ~globalDryRun
                /\ \/ override = "delete"
                   \/ \E i \in DOMAIN listed :
                        /\ listed[i].mode = "Delete"
                        /\ kind \in listed[i].kinds
                        /\ finding.confidence >= Threshold(listed[i])
<1> DEFINE decision == Evaluate(globalDryRun, override, finding, kind, listed)
<1>1. finding.class \notin {"protected", "blocked", "unknown"}
  BY DEF Evaluate, Decide
<1>2. CASE Overridden(override)
  BY <1>1, <1>2 DEF Evaluate, Decide, Overridden, OverrideAction
<1>3. CASE ~Overridden(override)
  <2>1. Matching(kind, listed) # {}
    BY <1>1, <1>3 DEF Evaluate, Decide, DefaultDecision
  <2>2. decision = PolicyDecision(globalDryRun, finding, FirstMatching(kind, listed))
    BY <1>1, <1>3, <2>1 DEF Evaluate
  <2>3. PICK i \in DOMAIN listed : /\ FirstMatching(kind, listed) = listed[i]
                                   /\ kind \in listed[i].kinds
    BY <2>1, FirstMatchingChoice
  <2>4. listed[i] \in Policy
    OBVIOUS
  <2> HIDE DEF decision
  <2>5. ~decision.dryRun =>
          /\ ~globalDryRun
          /\ listed[i].mode # "DryRun"
    BY <2>2, <2>3 DEF PolicyDecision, Decide
  <2>6. decision.action = "delete" /\ ~decision.dryRun =>
          /\ listed[i].mode = "Delete"
          /\ finding.confidence >= Threshold(listed[i])
    BY <2>2, <2>3, <2>4, <2>5 DEF PolicyDecision, Decide, Policy, Modes
  <2> QED BY <1>1, <2>3, <2>5, <2>6 DEF decision
<1> QED BY <1>2, <1>3

=============================================================================
