------------------------------ MODULE Executor ------------------------------
(***************************************************************************)
(* internal/action/executor.go: DefaultExecutor.Execute, called by the     *)
(* worker of a controller with a key, the UID the finding was made for and *)
(* a decision.  A deletion takes two calls of the API server, the re-GET   *)
(* and the DELETE, and the cluster moves between them; either may fail,    *)
(* and the answer of a DELETE that was carried out may be lost.            *)
(***************************************************************************)
EXTENDS Cluster

CONSTANT Workers  \* the controllers' workers, one per kind and manager

VARIABLES
    epc,     \* epc[w]: where worker w is in Execute
    job,     \* job[w]: the arguments of Execute
    fresh,   \* fresh[w]: the object the re-GET answered, when it passed the checks
    victim,  \* victim[w]: the object this Execute deleted, as it was then, or Absent
    result   \* result[w]: how Execute ended

executorVars == <<epc, job, fresh, victim, result>>

Jobs == [key : Keys, uid : Nat, decision : Decision]

ASSUME AbsentJobAssumption == Absent \notin Jobs

\* How Execute ends.
Results == {"none", "noop", "reported", "simulated", "gone", "deleted",
            "refused", "unread", "undeleted"}

\* Mutant: an error of the DELETE is logged and not returned.
Errors_Swallowed == {"refused", "unread"}

\* It returns an error exactly when a pre-flight check refused, the re-GET failed
\* or the DELETE failed.
Errors == {"refused", "unread", "undeleted"}

ExecutorTypeOK ==
    /\ ClusterTypeOK
    /\ epc \in [Workers -> {"idle", "reget", "delete", "returned"}]
    /\ job \in [Workers -> Jobs \cup {Absent}]
    /\ fresh \in [Workers -> Object \cup {Absent}]
    /\ victim \in [Workers -> Object \cup {Absent}]
    /\ result \in [Workers -> Results]
    /\ \A w \in Workers : epc[w] # "idle" \/ victim[w] # Absent => job[w] \in Jobs

ExecutorInit ==
    /\ epc = [w \in Workers |-> "idle"]
    /\ job = [w \in Workers |-> Absent]
    /\ fresh = [w \in Workers |-> Absent]
    /\ victim = [w \in Workers |-> Absent]
    /\ result = [w \in Workers |-> "none"]

ReturnWith(w, how) ==
    /\ epc' = [epc EXCEPT ![w] = "returned"]
    /\ result' = [result EXCEPT ![w] = how]

-----------------------------------------------------------------------------
(* Execute up to its first call of the API server *)

\* Mutant: the decision's dry-run mark is ignored.
Simulated_Never(decision) == FALSE

Simulated(decision) == decision.dryRun

\* Mutant: the protected namespaces are compared with the object's namespace
\* only, which a Namespace does not have.
RefusesNamespace_Scoped(key) == key.namespace \in ProtectedNamespaces

RefusesNamespace(key) ==
    \/ key.namespace \in ProtectedNamespaces
    \/ key.namespace = "" /\ key.name \in ProtectedNamespaces

Execute(w, key, uid, decision) ==
    /\ epc[w] = "idle"
    /\ job' = [job EXCEPT ![w] = [key |-> key, uid |-> uid, decision |-> decision]]
    /\ fresh' = [fresh EXCEPT ![w] = Absent]
    /\ victim' = [victim EXCEPT ![w] = Absent]
    /\ \/ decision.action = "none" /\ ReturnWith(w, "noop")
       \/ decision.action = "report" /\ ReturnWith(w, "reported")
       \/ /\ decision.action = "delete"
          /\ \/ Simulated(decision) /\ ReturnWith(w, "simulated")
             \/ ~Simulated(decision) /\ RefusesNamespace(key) /\ ReturnWith(w, "refused")
             \/ /\ ~Simulated(decision)
                /\ ~RefusesNamespace(key)
                /\ epc' = [epc EXCEPT ![w] = "reget"]
                /\ result' = [result EXCEPT ![w] = "none"]

-----------------------------------------------------------------------------
(* The pre-flight re-GET; fresh is what executor.go:120 calls it *)

\* Mutant: the UID is not compared.
PassesPreflight_AnyUid(uid, obj) ==
    /\ ~HasForeignFinalizer(obj.meta)
    /\ obj.meta.owners = {}

\* Mutant: the ownerReferences are not looked at again.
PassesPreflight_Owned(uid, obj) ==
    /\ obj.uid = uid
    /\ ~HasForeignFinalizer(obj.meta)

PassesPreflight(uid, obj) ==
    /\ obj.uid = uid
    /\ ~HasForeignFinalizer(obj.meta)
    /\ obj.meta.owners = {}

ReGet(w) ==
    /\ epc[w] = "reget"
    /\ LET obj == server[job[w].key]
       IN  \/ ReturnWith(w, "unread") /\ UNCHANGED fresh
           \/ obj = Absent /\ ReturnWith(w, "gone") /\ UNCHANGED fresh
           \/ /\ obj # Absent
              /\ ~PassesPreflight(job[w].uid, obj)
              /\ ReturnWith(w, "refused")
              /\ UNCHANGED fresh
           \/ /\ obj # Absent
              /\ PassesPreflight(job[w].uid, obj)
              /\ epc' = [epc EXCEPT ![w] = "delete"]
              /\ fresh' = [fresh EXCEPT ![w] = obj]
              /\ UNCHANGED result
    /\ UNCHANGED <<clusterVars, job, victim>>

-----------------------------------------------------------------------------
(* The DELETE: by name, without a precondition on the UID *)

\* Mutant: not finding the object counts as a deletion.
Missed_Counted(w) ==
    /\ ~Exists(job[w].key)
    /\ ReturnWith(w, "deleted")
    /\ UNCHANGED <<server, victim>>

Missed(w) ==
    /\ ~Exists(job[w].key)
    /\ ReturnWith(w, "gone")
    /\ UNCHANGED <<server, victim>>

\* The server carries the call out; its answer may get lost.
Hit(w) ==
    LET key == job[w].key
    IN  /\ Exists(key)
        /\ server' = [server EXCEPT ![key] = AfterDelete(key, server[key])]
        /\ victim' = [victim EXCEPT ![w] = server[key]]
        /\ \E how \in {"deleted", "undeleted"} : ReturnWith(w, how)

Rejected(w) == ReturnWith(w, "undeleted") /\ UNCHANGED <<server, victim>>

SendDelete(w) ==
    /\ epc[w] = "delete"
    /\ Missed(w) \/ Hit(w) \/ Rejected(w)
    /\ UNCHANGED <<ownerUid, workloads, policies, nextUid, now, job, fresh>>

\* The caller takes the result.
Return(w) ==
    /\ epc[w] = "returned"
    /\ epc' = [epc EXCEPT ![w] = "idle"]
    /\ UNCHANGED <<clusterVars, job, fresh, victim, result>>

\* Mutant: the position is kept in a field of the executor that outlives the
\* call.
Abandon_KeepsPosition(w) ==
    /\ job' = [job EXCEPT ![w] = Absent]
    /\ fresh' = [fresh EXCEPT ![w] = Absent]
    /\ victim' = [victim EXCEPT ![w] = Absent]
    /\ result' = [result EXCEPT ![w] = "none"]
    /\ UNCHANGED epc

\* DefaultExecutor has no field that changes: when the caller is done with the
\* call, or the process dies, what Execute knew is lost, what it did is done.
Abandon(w) ==
    /\ epc' = [epc EXCEPT ![w] = "idle"]
    /\ job' = [job EXCEPT ![w] = Absent]
    /\ fresh' = [fresh EXCEPT ![w] = Absent]
    /\ victim' = [victim EXCEPT ![w] = Absent]
    /\ result' = [result EXCEPT ![w] = "none"]

-----------------------------------------------------------------------------
(* The executor by itself, called with any finding that was once made: a   *)
(* key and a UID given out by then.                                        *)

Call(w) ==
    /\ \E key \in Keys, uid \in 1..(nextUid - 1), decision \in Decision :
         Execute(w, key, uid, decision)
    /\ UNCHANGED clusterVars

Die(w) == Abandon(w) /\ UNCHANGED clusterVars

ExecutorInitial == ClusterInit /\ ExecutorInit

ExecutorNext ==
    \/ ClusterNext /\ UNCHANGED executorVars
    \/ \E w \in Workers : Call(w) \/ ReGet(w) \/ SendDelete(w) \/ Return(w) \/ Die(w)

ExecutorSpec == ExecutorInitial /\ [][ExecutorNext]_<<clusterVars, executorVars>>

-----------------------------------------------------------------------------
(* Properties *)

\* Whatever the executor deletes, it was told to delete for real and it lies in
\* no protected namespace.  The re-GET saw the object of the finding, free of
\* foreign finalizers and of ownerReferences, and the DELETE hit that object,
\* a later edit of it or a younger object of its name: never an older one and
\* never one that was recreated before the re-GET (executor.go:86-149).
DeletionsAreCovered ==
    \A w \in Workers :
      victim[w] # Absent =>
        /\ job[w].decision.action = "delete"
        /\ ~job[w].decision.dryRun
        /\ ~InProtectedNamespace(job[w].key)
        /\ fresh[w].uid = job[w].uid
        /\ fresh[w].meta.owners = {}
        /\ ~HasForeignFinalizer(fresh[w].meta)
        /\ victim[w].uid >= fresh[w].uid

\* A counted deletion is one that happened, and the deletion of one object is
\* counted by one worker only, unless a finalizer or the Namespace's own
\* termination kept the object in reach (executor.go:159-168).
DeletionsAreCountedOnce ==
    /\ \A w \in Workers : result[w] = "deleted" => victim[w] # Absent
    /\ \A v, w \in Workers :
         /\ v # w
         /\ result[v] = "deleted"
         /\ result[w] = "deleted"
         /\ victim[v].uid = victim[w].uid
         => \/ job[v].key.kind = "Namespace"
            \/ victim[v].meta.finalizers # {} \/ victim[w].meta.finalizers # {}

\* Neither an object seen from outside nor a warrant is taken for none.
ASSUME AbsentWarrantAssumption == /\ Absent \notin [uid : Nat, free : BOOLEAN]
                                  /\ Absent \notin [key : Keys, uid : Nat]

\* What the executor may look like from outside: the objects with what makes
\* them free to go, and the checked object as the warrant for the DELETE.
Safe == INSTANCE SafeDeletion WITH
    Sanctuary <- {key \in Keys : InProtectedNamespace(key)},
    objects   <- [key \in Keys |->
                    IF Exists(key)
                    THEN [uid |-> server[key].uid,
                          free |-> /\ server[key].meta.owners = {}
                                   /\ ~HasForeignFinalizer(server[key].meta)]
                    ELSE Absent],
    born      <- nextUid,
    warrants  <- [w \in Workers |-> IF epc[w] = "delete"
                                    THEN [key |-> job[w].key, uid |-> fresh[w].uid]
                                    ELSE Absent],
    struck    <- [w \in Workers |-> IF victim[w] = Absent THEN Absent ELSE victim[w].uid]

\* The executor implements the safe deletion: every DELETE that reaches an
\* object was preceded by a look at an object of that name that was free to
\* go, and no failure, retry, edit or second replica makes it strike without
\* such a look or twice on the same one (executor.go:107-171).
ImplementsSafeDeletion == Safe!Spec

\* executor.go:29 says that the UID comparison catches a recreated object.
RecreationIsCaught ==
    \A w \in Workers : victim[w] # Absent => victim[w].uid = job[w].uid

-----------------------------------------------------------------------------
(* What DeletionsAreCovered rests on: the invariant that ExecutorProofs    *)
(* shows to be inductive.                                                  *)

UidsAreGivenOut == \A key \in Keys : Exists(key) => server[key].uid < nextUid

\* Before the first remote call of a deletion the decision and the namespace
\* have been looked at, and nothing has been deleted yet.
DeletionsAreMeant ==
    \A w \in Workers :
      epc[w] \in {"reget", "delete"} =>
        /\ job[w].decision.action = "delete"
        /\ ~job[w].decision.dryRun
        /\ ~InProtectedNamespace(job[w].key)
        /\ victim[w] = Absent

\* From the re-GET to the DELETE the checked object is remembered, and the one
\* on the server is this one, a later edit of it, a younger one or none.
PreflightHolds ==
    \A w \in Workers :
      epc[w] = "delete" =>
        /\ fresh[w] \in Object
        /\ PassesPreflight(job[w].uid, fresh[w])
        /\ fresh[w].uid < nextUid
        /\ Exists(job[w].key) => server[job[w].key].uid >= fresh[w].uid

ExecutorInv ==
    /\ ExecutorTypeOK
    /\ UidsAreGivenOut
    /\ DeletionsAreMeant
    /\ PreflightHolds
    /\ DeletionsAreCovered

\* What DeletionsAreCountedOnce rests on, on top of ExecutorInv: an object
\* that somebody deleted is on the server only under the same key and only if
\* its deletion lingers.
Lingers(w) == job[w].key.kind = "Namespace" \/ victim[w].meta.finalizers # {}

UidsAreUnique ==
    \A key, other \in Keys :
      Exists(key) /\ Exists(other) /\ server[key].uid = server[other].uid => key = other

CountsAreTrue == \A w \in Workers : result[w] = "deleted" => victim[w] # Absent

VictimsAreGone ==
    \A w \in Workers :
      victim[w] # Absent =>
        /\ victim[w].uid < nextUid
        /\ \A key \in Keys :
             Exists(key) /\ server[key].uid = victim[w].uid => key = job[w].key /\ Lingers(w)

VictimsDiffer ==
    \A v, w \in Workers :
      /\ v # w
      /\ victim[v] # Absent
      /\ victim[w] # Absent
      /\ victim[v].uid = victim[w].uid
      => job[v].key = job[w].key /\ (Lingers(v) \/ Lingers(w))

CountingInv == UidsAreUnique /\ CountsAreTrue /\ VictimsAreGone /\ VictimsDiffer

=============================================================================
