----------------------------- MODULE Classifier -----------------------------
(***************************************************************************)
(* internal/classifier: the chain of strategies that turns one object into *)
(* one finding.  The strategies are pure: what they read from the API      *)
(* server (owners, references) and the clock are parameters, so that       *)
(* Janitor.tla can take each remote read in a step of its own.             *)
(*                                                                         *)
(* A strategy answers a verdict.  The verdict "unknown" passes the object  *)
(* on to the next strategy, "error" aborts the chain, any other class ends *)
(* it.  The chain is the one cmd/manager/main.go builds.                   *)
(***************************************************************************)
EXTENDS Domain, Sequences

CONSTANTS
    DefaultTTL,       \* NewTTLStrategy's second argument: 0 in main.go
    ProtectionLabels  \* ProtectionStrategy.Labels: empty in main.go

ASSUME DefaultTTLAssumption == DefaultTTL \in Int

ASSUME ProtectionLabelsAssumption == ProtectionLabels \subseteq LabelPairs

Verdict(class, confidence) == [class |-> class, confidence |-> confidence]

Verdicts == [class : Classes \cup {"error"}, confidence : Confidences]

Passed == Verdict("unknown", Low)
Failed == Verdict("error", Low)

-----------------------------------------------------------------------------
(* The strategies that look at the object and the clock only *)

IsProtected(key, meta) ==
    \/ InProtectedNamespace(key)
    \/ meta.protected = "true"
    \/ ProtectionLabels # {} /\ ProtectionLabels \subseteq meta.labels

ProtectionVerdict(key, meta) ==
    IF IsProtected(key, meta) THEN Verdict("protected", High) ELSE Passed

FinalizerVerdict(meta) ==
    IF HasForeignFinalizer(meta) THEN Verdict("blocked", High) ELSE Passed

\* The annotation takes precedence; a TTL of zero is no TTL.
ResolveTTL(meta) ==
    CASE meta.ttl # Absent                  -> meta.ttl
      [] meta.ttl = Absent /\ DefaultTTL > 0 -> DefaultTTL
      [] OTHER                              -> 0

\* Mutant: the TTL counts from the epoch, not from the creation.
TTLElapsed_FromEpoch(ttl, created, now) == ttl # 0 /\ now > ttl

\* Mutant: an object is expired in the one instant after its TTL only.
TTLElapsed_OneTick(ttl, created, now) == ttl # 0 /\ now - created = ttl + 1

TTLElapsed(ttl, created, now) == ttl # 0 /\ now - created > ttl

TTLVerdict(obj, now) ==
    LET ttl == ResolveTTL(obj.meta)
    IN  IF ttl = Malformed THEN Failed
        ELSE IF TTLElapsed(ttl, obj.created, now) THEN Verdict("expired", High)
        ELSE Passed

ExpiresAtVerdict(meta, now) ==
    IF meta.expiresAt = Malformed THEN Failed
    ELSE IF meta.expiresAt # Absent /\ meta.expiresAt <= now THEN Verdict("expired", High)
    ELSE Passed

-----------------------------------------------------------------------------
(* The strategies that ask the API server *)

\* The owner of an ownerReference is live when it parses, the owner exists and
\* is not another object of that name; uidOf gives the UID the server answers.
IsLive(ownerRef, uidOf) == ownerRef.parses /\ uidOf[ownerRef.owner] = ownerRef.uid

LiveOwners(meta, uidOf) == {ownerRef \in meta.owners : IsLive(ownerRef, uidOf)}

OwnerRefVerdict(meta, live) ==
    IF meta.owners = {} THEN Passed
    ELSE Verdict(IF live # {} THEN "active" ELSE "orphaned", High)

ResolverVerdict(referenced) ==
    IF referenced THEN Verdict("active", High) ELSE Verdict("abandoned", Medium)

-----------------------------------------------------------------------------
(* The chain *)

\* The first strategy that does not pass decides, by a class or by an error.
FirstDecisive(verdicts) ==
    LET decisive == {i \in DOMAIN verdicts : verdicts[i].class # "unknown"}
    IN  IF decisive = {} THEN Passed
        ELSE verdicts[CHOOSE i \in decisive : \A j \in decisive : i <= j]

\* Mutant: the TTL is looked at before the protection.
LocalVerdicts_TTLFirst(key, obj, now) ==
    << TTLVerdict(obj, now), ProtectionVerdict(key, obj.meta),
       FinalizerVerdict(obj.meta), ExpiresAtVerdict(obj.meta, now) >>

LocalVerdicts(key, obj, now) ==
    << ProtectionVerdict(key, obj.meta), FinalizerVerdict(obj.meta),
       TTLVerdict(obj, now), ExpiresAtVerdict(obj.meta, now) >>

\* What the strategies before the first remote read decide.
ClassifyLocally(key, obj, now) == FirstDecisive(LocalVerdicts(key, obj, now))

\* The whole chain, once its reads are answered.
ClassifyWith(key, obj, now, live, referenced) ==
    FirstDecisive(LocalVerdicts(key, obj, now)
                    \o << OwnerRefVerdict(obj.meta, live), ResolverVerdict(referenced) >>)

\* The whole chain, had it one instant for all its reads.
Classify(key, obj, now, uidOf, referenced) ==
    ClassifyWith(key, obj, now, LiveOwners(obj.meta, uidOf), referenced)

=============================================================================
