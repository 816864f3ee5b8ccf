--------------------------- MODULE ControllerProofs ---------------------------
(***************************************************************************)
(* The controllers implement the janitor and lose no key: for any cluster, *)
(* any number of controllers, any settings that Validate accepts and any   *)
(* order of events, timers and crashes.  Nothing here needs fairness.      *)
(***************************************************************************)
EXTENDS Controller, ReportProofs, FindingProofs

-----------------------------------------------------------------------------
(* The queue *)

LEMMA AppendQueues ==
    ASSUME NEW list \in Seq(Keys), NEW key \in Keys
    PROVE  /\ Append(list, key) \in Seq(Keys)
           /\ \A k : (\E i \in DOMAIN Append(list, key) : Append(list, key)[i] = k)
                       <=> k = key \/ \E i \in DOMAIN list : list[i] = k
<1>1. /\ Append(list, key) \in Seq(Keys)
      /\ Len(Append(list, key)) = Len(list) + 1
      /\ \A i \in 1..Len(list) : Append(list, key)[i] = list[i]
      /\ Append(list, key)[Len(list) + 1] = key
      /\ DOMAIN list = 1..Len(list)
      /\ DOMAIN Append(list, key) = 1..(Len(list) + 1)
      /\ Len(list) \in Nat
  OBVIOUS
<1> QED BY <1>1

LEMMA TailQueues ==
    ASSUME NEW list \in Seq(Keys), list # <<>>
    PROVE  /\ Tail(list) \in Seq(Keys)
           /\ Head(list) \in Keys
           /\ \E i \in DOMAIN list : list[i] = Head(list)
           /\ \A k : (\E i \in DOMAIN list : list[i] = k)
                       => k = Head(list) \/ \E i \in DOMAIN Tail(list) : Tail(list)[i] = k
           /\ \A k : (\E i \in DOMAIN Tail(list) : Tail(list)[i] = k)
                       => \E i \in DOMAIN list : list[i] = k
<1>1. /\ Tail(list) \in Seq(Keys)
      /\ Len(list) \in Nat \ {0}
      /\ Len(Tail(list)) = Len(list) - 1
      /\ \A i \in 1..(Len(list) - 1) : Tail(list)[i] = list[i + 1]
      /\ Head(list) = list[1]
      /\ DOMAIN list = 1..Len(list)
      /\ DOMAIN Tail(list) = 1..(Len(list) - 1)
  OBVIOUS
<1>2. \A i \in DOMAIN list : i = 1 \/ (i - 1 \in DOMAIN Tail(list) /\ Tail(list)[i - 1] = list[i])
  BY <1>1
<1>3. \A i \in DOMAIN Tail(list) : i + 1 \in DOMAIN list /\ Tail(list)[i] = list[i + 1]
  BY <1>1
<1>4. 1 \in DOMAIN list /\ list[1] \in Keys
  BY <1>1
<1> QED BY <1>1, <1>2, <1>3, <1>4

\* What Add does to the queue of one worker and leaves of the others'.
LEMMA AddQueues ==
    ASSUME QueueTypeOK, NEW w \in Workers, NEW key \in Keys, Add(w, key)
    PROVE  /\ queue' \in [Workers -> Seq(Keys)]
           /\ dirty' \in [Workers -> SUBSET Keys]
           /\ dirty'[w] = dirty[w] \cup {key}
           /\ \A v \in Workers \ {w} : queue'[v] = queue[v] /\ dirty'[v] = dirty[v]
           /\ Queued(w) \subseteq Queued(w)'
           /\ Queued(w)' \subseteq Queued(w) \cup {key}
           /\ key \in dirty[w] \/ key = processing[w] \/ key \in Queued(w)'
<1>1. queue \in [Workers -> Seq(Keys)] /\ dirty \in [Workers -> SUBSET Keys]
  BY DEF QueueTypeOK
<1>2. /\ dirty' \in [Workers -> SUBSET Keys]
      /\ dirty'[w] = dirty[w] \cup {key}
      /\ \A v \in Workers \ {w} : queue'[v] = queue[v] /\ dirty'[v] = dirty[v]
  BY <1>1 DEF Add
<1>3. CASE key \in dirty[w] \/ key = processing[w]
  <2>1. queue' \in [Workers -> Seq(Keys)] /\ queue'[w] = queue[w]
    BY <1>1, <1>3 DEF Add
  <2> QED BY <1>2, <1>3, <2>1 DEF Queued
<1>4. CASE ~(key \in dirty[w] \/ key = processing[w])
  <2>1. queue[w] \in Seq(Keys)
    BY <1>1
  <2>2. queue'[w] = Append(queue[w], key)
    BY <1>1, <1>4 DEF Add
  <2>3. Append(queue[w], key) \in Seq(Keys)
    BY <2>1, AppendQueues
  <2>4. queue' \in [Workers -> Seq(Keys)]
    BY <1>1, <2>3, <1>4 DEF Add
  <2>5. \A k : k \in Queued(w)' <=> k = key \/ k \in Queued(w)
    BY <2>1, <2>2, AppendQueues DEF Queued
  <2> QED BY <1>2, <2>4, <2>5
<1> QED BY <1>3, <1>4

-----------------------------------------------------------------------------
(* One worker at a time *)

\* The parts of QueueInOrder and KeyNeverLost that are about one worker.
InOrder(w) ==
    /\ Queued(w) \subseteq KeysOf(w)
    /\ processing[w] \in KeysOf(w) \cup {Absent}
    /\ dirty[w] \subseteq Queued(w) \cup {processing[w]}
    /\ pc[w] # "idle" => processing[w] # Absent
    /\ pc[w] = "missing" => cache[w][processing[w]] = Absent \/ processing[w] \in dirty[w]

LosesNothing(w) ==
    \A key \in KeysOf(w) :
      cache[w][key] # Absent => key \in Queued(w) \cup waiting[w] \cup {processing[w]}

\* A step leaves the queues and the cache of worker v alone.
Keeps(v) ==
    /\ queue'[v] = queue[v]
    /\ dirty'[v] = dirty[v]
    /\ processing'[v] = processing[v]
    /\ waiting'[v] = waiting[v]
    /\ cache'[v] = cache[v]
    /\ pc'[v] = pc[v]

LEMMA KeepingWorkers ==
    ASSUME NEW v \in Workers, InOrder(v), LosesNothing(v), Keeps(v)
    PROVE  InOrder(v)' /\ LosesNothing(v)'
<1>1. Queued(v)' = Queued(v)
  BY DEF Keeps, Queued
<1> QED BY <1>1 DEF Keeps, InOrder, LosesNothing, KeysOf

\* A step of worker w preserves the invariant if it does so for w.
LEMMA OneWorkerMoves ==
    ASSUME ControllerInv, JanitorTypeOK', QueueTypeOK',
           settings' \in [Workers -> ValidSettings],
           NEW w \in Workers, InOrder(w)', LosesNothing(w)',
           \A v \in Workers \ {w} : Keeps(v)
    PROVE  ControllerInv'
<1>1. \A v \in Workers : InOrder(v) /\ LosesNothing(v)
  BY DEF ControllerInv, QueueInOrder, KeyNeverLost, InOrder, LosesNothing
<1>2. \A v \in Workers : (InOrder(v) /\ LosesNothing(v))'
  BY <1>1, KeepingWorkers
<1> QED BY <1>2
  DEF ControllerInv, ControllerTypeOK, QueueInOrder, KeyNeverLost, InOrder, LosesNothing

-----------------------------------------------------------------------------
(* The controllers implement the janitor *)

LEMMA ControllerStepIsJanitorStep ==
    ASSUME ControllerInv, [ControllerNext]_allVars
    PROVE  [Next]_vars
<1>1. CASE ClusterNext /\ UNCHANGED <<executorVars, janitorVars, controllerVars>>
  BY <1>1 DEF Next
<1>2. ASSUME NEW w \in Workers, NEW key \in KeysOf(w), Deliver(w, key) \/ Fire(w, key)
      PROVE  [Next]_vars
  BY <1>2 DEF Deliver, Fire, Next, WorkerNext
<1>3. ASSUME NEW w \in Workers, DeliverPolicies(w) PROVE [Next]_vars
  BY <1>3 DEF DeliverPolicies, Next, WorkerNext
<1>4. ASSUME NEW w \in Workers, WorkerStep(w) PROVE [Next]_vars
  <2>1. processing[w] \in KeysOf(w) \cup {Absent}
    BY DEF ControllerInv, QueueInOrder
  <2> QED BY <1>4, <2>1 DEF WorkerStep, Take, Begin, Proceed, End, Next, WorkerNext
<1>5. ASSUME NEW w \in Workers, Restart(w) PROVE [Next]_vars
  BY <1>5 DEF Restart, Next, WorkerNext
<1>6. CASE UNCHANGED allVars
  BY <1>6 DEF allVars
<1> QED BY <1>1, <1>2, <1>3, <1>4, <1>5, <1>6 DEF ControllerNext

-----------------------------------------------------------------------------
(* The invariant is inductive *)

LEMMA ControllerInvParts ==
    ASSUME ControllerInv
    PROVE  /\ JanitorTypeOK /\ QueueTypeOK
           /\ settings \in [Workers -> ValidSettings]
           /\ \A w \in Workers : InOrder(w) /\ LosesNothing(w)
           /\ \A w \in Workers : KeysOf(w) \subseteq Keys
  BY DEF ControllerInv, ControllerTypeOK, QueueInOrder, KeyNeverLost, InOrder, LosesNothing,
         KeysOf

LEMMA ControllerInvInit ==
    ASSUME ControllerInit
    PROVE  ControllerInv
<1>1. JanitorTypeOK
  BY JanitorInvInit DEF ControllerInit, JanitorInv
<1>2. QueueTypeOK
  <2>1. <<>> \in Seq(Keys)
    OBVIOUS
  <2> QED BY <2>1 DEF ControllerInit, QueueTypeOK
<1>3. \A w \in Workers : /\ Queued(w) = {}
                         /\ dirty[w] = {}
                         /\ processing[w] = Absent
                         /\ pc[w] = "idle"
  BY DEF ControllerInit, Init, Queued
<1>4. \A w \in Workers, key \in Keys : cache[w][key] = Absent
  BY DEF ControllerInit, Init, ClusterInit
<1> QED
  BY <1>1, <1>2, <1>3, <1>4
  DEF ControllerInv, ControllerTypeOK, QueueInOrder, KeyNeverLost, ControllerInit, KeysOf

LEMMA ControllerInvDeliver ==
    ASSUME ControllerInv, JanitorTypeOK', NEW w \in Workers,
           DeliverPolicies(w) \/ \E key \in KeysOf(w) : Deliver(w, key)
    PROVE  ControllerInv'
<1> USE ControllerInvParts
<1>1. CASE DeliverPolicies(w)
  <2>1. \A v \in Workers : Keeps(v)
    BY <1>1 DEF DeliverPolicies, SyncPolicies, controllerVars, reconcileVars, Keeps
  <2>2. QueueTypeOK' /\ settings' \in [Workers -> ValidSettings]
    BY <1>1 DEF DeliverPolicies, controllerVars, QueueTypeOK
  <2> QED BY <2>1, <2>2, KeepingWorkers, OneWorkerMoves
<1>2. CASE \E key \in KeysOf(w) : Deliver(w, key)
  <2>1. PICK key \in KeysOf(w) : Deliver(w, key)
    BY <1>2
  <2>2. /\ \A k \in Keys \ {key} : cache'[w][k] = cache[w][k]
        /\ \A v \in Workers \ {w} : cache'[v] = cache[v]
        /\ pc' = pc
        /\ UNCHANGED <<processing, waiting, settings>>
    BY <2>1 DEF Deliver, SyncObject, JanitorTypeOK, reconcileVars
  <2>3. CASE Passes(cache[w][key], server[key])
    <3>1. Add(w, key)
      BY <2>1, <2>3 DEF Deliver
    <3>2. /\ queue' \in [Workers -> Seq(Keys)]
          /\ dirty' \in [Workers -> SUBSET Keys]
          /\ dirty'[w] = dirty[w] \cup {key}
          /\ \A v \in Workers \ {w} : queue'[v] = queue[v] /\ dirty'[v] = dirty[v]
          /\ Queued(w) \subseteq Queued(w)'
          /\ Queued(w)' \subseteq Queued(w) \cup {key}
          /\ key \in dirty[w] \/ key = processing[w] \/ key \in Queued(w)'
      BY <3>1, AddQueues
    <3>3. InOrder(w)'
      BY <2>2, <3>2 DEF InOrder, KeysOf
    <3>4. LosesNothing(w)'
      BY <2>2, <3>2 DEF InOrder, LosesNothing, KeysOf
    <3>5. QueueTypeOK' /\ settings' \in [Workers -> ValidSettings]
      BY <2>2, <3>2 DEF QueueTypeOK
    <3>6. \A v \in Workers \ {w} : Keeps(v)
      BY <2>2, <3>2 DEF Keeps
    <3> QED BY <3>3, <3>4, <3>5, <3>6, OneWorkerMoves
  <2>4. CASE ~Passes(cache[w][key], server[key])
    <3>1. UNCHANGED <<queue, dirty>>
      BY <2>1, <2>4 DEF Deliver
    <3>2. cache[w][key] # Absent
      BY <2>4 DEF Passes
    <3>3. InOrder(w)'
      BY <2>2, <3>1, <3>2 DEF InOrder, KeysOf, Queued
    <3>4. LosesNothing(w)'
      BY <2>2, <3>1, <3>2 DEF LosesNothing, KeysOf, Queued
    <3>5. QueueTypeOK' /\ settings' \in [Workers -> ValidSettings]
      BY <2>2, <3>1 DEF QueueTypeOK
    <3>6. \A v \in Workers \ {w} : Keeps(v)
      BY <2>2, <3>1 DEF Keeps
    <3> QED BY <3>3, <3>4, <3>5, <3>6, OneWorkerMoves
  <2> QED BY <2>3, <2>4
<1> QED BY <1>1, <1>2

LEMMA ControllerInvFire ==
    ASSUME ControllerInv, JanitorTypeOK', NEW w \in Workers, NEW key \in KeysOf(w), Fire(w, key)
    PROVE  ControllerInv'
<1> USE ControllerInvParts
<1>1. /\ queue' \in [Workers -> Seq(Keys)]
      /\ dirty' \in [Workers -> SUBSET Keys]
      /\ dirty'[w] = dirty[w] \cup {key}
      /\ \A v \in Workers \ {w} : queue'[v] = queue[v] /\ dirty'[v] = dirty[v]
      /\ Queued(w) \subseteq Queued(w)'
      /\ Queued(w)' \subseteq Queued(w) \cup {key}
      /\ key \in dirty[w] \/ key = processing[w] \/ key \in Queued(w)'
  BY AddQueues DEF Fire, TimerFires
<1>2. /\ UNCHANGED <<cache, pc, processing, settings>>
      /\ waiting' = [waiting EXCEPT ![w] = @ \ {key}]
  BY DEF Fire, TimerFires, vars, janitorVars, processVars, reconcileVars
<1>3. /\ waiting' \in [Workers -> SUBSET Keys]
      /\ waiting'[w] = waiting[w] \ {key}
      /\ \A v \in Workers \ {w} : waiting'[v] = waiting[v]
  BY <1>2 DEF QueueTypeOK
<1>4. InOrder(w)'
  BY <1>1, <1>2 DEF InOrder, KeysOf
<1>5. LosesNothing(w)'
  BY <1>1, <1>2, <1>3 DEF InOrder, LosesNothing, KeysOf
<1>6. QueueTypeOK' /\ settings' \in [Workers -> ValidSettings]
  BY <1>1, <1>2, <1>3 DEF QueueTypeOK
<1>7. \A v \in Workers \ {w} : Keeps(v)
  BY <1>1, <1>2, <1>3 DEF Keeps
<1> QED BY <1>4, <1>5, <1>6, <1>7, OneWorkerMoves

LEMMA ControllerInvTake ==
    ASSUME ControllerInv, JanitorTypeOK', NEW w \in Workers, Take(w)
    PROVE  ControllerInv'
<1> USE ControllerInvParts
<1> DEFINE head == Head(queue[w])
<1>1. queue[w] \in Seq(Keys) /\ queue[w] # <<>>
  BY DEF Take, Get, QueueTypeOK
<1>2. /\ Tail(queue[w]) \in Seq(Keys)
      /\ head \in Keys
      /\ head \in Queued(w)
      /\ \A k \in Queued(w) : k = head \/ \E i \in DOMAIN Tail(queue[w]) : Tail(queue[w])[i] = k
      /\ \A i \in DOMAIN Tail(queue[w]) : Tail(queue[w])[i] \in Queued(w)
  <2>1. /\ Tail(queue[w]) \in Seq(Keys)
        /\ head \in Keys
        /\ \E i \in DOMAIN queue[w] : queue[w][i] = head
        /\ \A k : (\E i \in DOMAIN queue[w] : queue[w][i] = k)
                  => k = head \/ \E i \in DOMAIN Tail(queue[w]) : Tail(queue[w])[i] = k
        /\ \A k : (\E i \in DOMAIN Tail(queue[w]) : Tail(queue[w])[i] = k)
                  => \E i \in DOMAIN queue[w] : queue[w][i] = k
    BY <1>1, TailQueues
  <2> HIDE DEF head
  <2>2. \A k : k \in Queued(w) <=> \E i \in DOMAIN queue[w] : queue[w][i] = k
    BY DEF Queued
  <2> QED BY <2>1, <2>2
<1>3. /\ processing[w] = Absent
      /\ processing' = [processing EXCEPT ![w] = head]
      /\ queue' = [queue EXCEPT ![w] = Tail(@)]
      /\ dirty' = [dirty EXCEPT ![w] = @ \ {head}]
      /\ pc[w] = "idle"
      /\ UNCHANGED <<cache, pc, waiting, settings>>
  BY DEF Take, Get, vars, janitorVars, processVars, reconcileVars
<1>4. /\ processing'[w] = head
      /\ queue'[w] = Tail(queue[w])
      /\ dirty'[w] = dirty[w] \ {head}
  BY <1>3 DEF QueueTypeOK
<1>5. QueueTypeOK' /\ settings' \in [Workers -> ValidSettings]
  BY <1>2, <1>3 DEF QueueTypeOK
<1>6. Queued(w)' \subseteq Queued(w) /\ Queued(w) \subseteq Queued(w)' \cup {head}
  <2>1. Queued(w)' = {Tail(queue[w])[i] : i \in DOMAIN Tail(queue[w])}
    BY <1>4 DEF Queued
  <2> QED BY <1>2, <2>1
<1>7. dirty[w] \subseteq Queued(w)
  BY <1>3, ControllerAssumption DEF InOrder, QueueTypeOK
<1>8. InOrder(w)'
  BY <1>2, <1>3, <1>4, <1>6, <1>7 DEF InOrder, KeysOf
<1>9. LosesNothing(w)'
  BY <1>2, <1>3, <1>4, <1>6, ControllerAssumption DEF LosesNothing, KeysOf
<1>10. \A v \in Workers \ {w} : Keeps(v)
  BY <1>3 DEF Keeps, QueueTypeOK
<1> QED BY <1>5, <1>8, <1>9, <1>10, OneWorkerMoves

\* Begin and Proceed move the worker and leave the queue alone.
LEMMA ControllerInvReconcile ==
    ASSUME ControllerInv, JanitorTypeOK', NEW w \in Workers, Begin(w) \/ Proceed(w)
    PROVE  ControllerInv'
<1> USE ControllerInvParts
<1>1. UNCHANGED <<controllerVars, cache>>
  BY DEF Begin, Proceed, Fetch, FetchMissing, FetchFails, ClassifyCopy, LookUpOwner, ListPods,
         ListDeployments, ReadFails, Act, ExecutorStep, Finish, janitorVars, processVars
<1>2. \A v \in Workers \ {w} : pc'[v] = pc[v]
  <2>1. CASE Begin(w)
    BY <2>1 DEF Begin, Fetch, FetchMissing, FetchFails, Goto, JanitorTypeOK
  <2>2. CASE ClassifyCopy(w) \/ LookUpOwner(w)
    <3>1. pc' = pc \/ \E step : pc' = [pc EXCEPT ![w] = step]
      BY <2>2 DEF ClassifyCopy, LookUpOwner, Classified, Goto
    <3> QED BY <3>1 DEF JanitorTypeOK
  <2>3. CASE ListPods(w) \/ ListDeployments(w) \/ ReadFails(w)
    BY <2>3 DEF ListPods, ListDeployments, ReadFails, Classified, Goto, JanitorTypeOK
  <2>4. CASE Act(w) \/ ExecutorStep(w) \/ Finish(w)
    BY <2>4 DEF Act, ExecutorStep, Finish, Goto, janitorVars, reconcileVars, JanitorTypeOK
  <2> QED BY <2>1, <2>2, <2>3, <2>4 DEF Proceed
<1>3. /\ pc'[w] = "missing" => pc[w] = "missing" \/ cache[w][processing[w]] = Absent
      /\ pc'[w] # "idle" => pc[w] # "idle" \/ processing[w] # Absent
  <2>1. CASE Begin(w)
    BY <2>1 DEF Begin, Fetch, FetchMissing, FetchFails, Goto, JanitorTypeOK
  <2>2. CASE ClassifyCopy(w) \/ LookUpOwner(w)
    <3>1. pc[w] # "idle"
      BY <2>2 DEF ClassifyCopy, LookUpOwner
    <3>2. \/ pc' = pc
          \/ \E step \in {"failed", "decide", "pods", "owners"} : pc' = [pc EXCEPT ![w] = step]
      BY <2>2 DEF ClassifyCopy, LookUpOwner, Classified, Goto, Unanswered
    <3> QED BY <3>1, <3>2 DEF JanitorTypeOK
  <2>3. CASE ListPods(w) \/ ListDeployments(w) \/ ReadFails(w)
    BY <2>3 DEF ListPods, ListDeployments, ReadFails, Classified, Goto, JanitorTypeOK
  <2>4. CASE Act(w) \/ ExecutorStep(w) \/ Finish(w)
    BY <2>4 DEF Act, ExecutorStep, Finish, Goto, janitorVars, reconcileVars, JanitorTypeOK
  <2> QED BY <2>1, <2>2, <2>3, <2>4 DEF Proceed
<1>4. Queued(w)' = Queued(w)
  BY <1>1 DEF Queued, controllerVars
<1>5. InOrder(w)'
  BY <1>1, <1>3, <1>4 DEF InOrder, controllerVars, KeysOf
<1>6. LosesNothing(w)'
  BY <1>1, <1>4 DEF LosesNothing, controllerVars, KeysOf
<1>7. QueueTypeOK' /\ settings' \in [Workers -> ValidSettings]
  BY <1>1 DEF QueueTypeOK, controllerVars
<1>8. \A v \in Workers \ {w} : Keeps(v)
  BY <1>1, <1>2 DEF Keeps, controllerVars
<1> QED BY <1>5, <1>6, <1>7, <1>8, OneWorkerMoves

LEMMA ControllerInvEnd ==
    ASSUME ControllerInv, JanitorTypeOK', NEW w \in Workers, End(w)
    PROVE  ControllerInv'
<1> USE ControllerInvParts
<1> DEFINE key == processing[w]
<1>1. /\ UNCHANGED <<cache, dirty, settings>>
      /\ pc[w] \in {"done", "missing", "failed"}
      /\ pc' = [pc EXCEPT ![w] = "idle"]
      /\ Done(w, Requeues(w))
  BY DEF End, Requeue, Forget, Goto, Done, processVars
<1>2. key \in KeysOf(w) /\ key \in Keys /\ queue[w] \in Seq(Keys)
  BY <1>1 DEF InOrder, QueueTypeOK
<1>3. /\ processing' \in [Workers -> Keys \cup {Absent}]
      /\ processing'[w] = Absent
      /\ waiting' \in [Workers -> SUBSET Keys]
      /\ waiting[w] \subseteq waiting'[w]
      /\ Requeues(w) => key \in waiting'[w]
  BY <1>1, <1>2 DEF Done, QueueTypeOK
<1>4. \A v \in Workers \ {w} : Keeps(v)
  BY <1>1 DEF Done, Keeps, QueueTypeOK, JanitorTypeOK
<1>5. /\ queue' \in [Workers -> Seq(Keys)]
      /\ Queued(w) \subseteq Queued(w)'
      /\ Queued(w)' \subseteq Queued(w) \cup {key}
      /\ key \in dirty[w] => key \in Queued(w)'
  <2>1. CASE key \in dirty[w]
    <3>1. queue'[w] = Append(queue[w], key)
      BY <1>1, <2>1 DEF Done, QueueTypeOK
    <3>2. /\ Append(queue[w], key) \in Seq(Keys)
          /\ \A k : k \in Queued(w)' <=> k = key \/ k \in Queued(w)
      BY <1>2, <3>1, AppendQueues DEF Queued
    <3>3. queue' \in [Workers -> Seq(Keys)]
      BY <1>1, <2>1, <3>2 DEF Done, QueueTypeOK
    <3> QED BY <3>2, <3>3
  <2>2. CASE key \notin dirty[w]
    <3>1. queue'[w] = queue[w] /\ queue' \in [Workers -> Seq(Keys)]
      BY <1>1, <2>2 DEF Done, QueueTypeOK
    <3> QED BY <2>2, <3>1 DEF Queued
  <2> QED BY <2>1, <2>2
<1>6. settings[w].scanInterval > 0
  <2>1. settings[w] \in ValidSettings
    OBVIOUS
  <2>2. settings[w] \in Settings /\ settings[w].scanInterval >= 30
    BY <2>1, FlagSetsAssumption DEF ValidSettings, Validate
  <2>3. settings[w].scanInterval \in Nat
    BY <2>2 DEF Settings
  <2> QED BY <2>2, <2>3
<1>7. pc[w] # "missing" => Requeues(w)
  BY <1>1, <1>6 DEF Requeues
<1>8. InOrder(w)'
  <2>1. pc'[w] = "idle"
    BY <1>1 DEF JanitorTypeOK
  <2> QED BY <1>1, <1>2, <1>3, <1>5, <2>1 DEF InOrder, KeysOf
<1>9. LosesNothing(w)'
  <2>1. ASSUME NEW k \in KeysOf(w), cache[w][k] # Absent
        PROVE  k \in Queued(w)' \cup waiting'[w]
    <3>1. CASE k # key
      BY <1>3, <1>5, <2>1, <3>1 DEF LosesNothing
    <3>2. CASE k = key /\ pc[w] = "missing"
      BY <1>5, <2>1, <3>2 DEF InOrder
    <3>3. CASE k = key /\ pc[w] # "missing"
      BY <1>3, <1>7, <3>3
    <3> QED BY <3>1, <3>2, <3>3
  <2> QED BY <1>1, <2>1 DEF LosesNothing, KeysOf
<1>10. QueueTypeOK' /\ settings' \in [Workers -> ValidSettings]
  BY <1>1, <1>3, <1>5 DEF QueueTypeOK
<1> QED BY <1>4, <1>8, <1>9, <1>10, OneWorkerMoves

\* A list of a finite set is a sequence of its members, all of them.
LEMMA ListingIsComplete ==
    ASSUME NEW set, IsFiniteSet(set), NEW list \in Listings(set)
    PROVE  list \in Seq(set) /\ {list[i] : i \in DOMAIN list} = set
<1>1. Cardinality(set) \in Nat
  BY FS_CardinalityType
<1>2. /\ list \in [1..Cardinality(set) -> set]
      /\ \A member \in set : \E i \in DOMAIN list : list[i] = member
  BY DEF Listings
<1>3. list \in Seq(set)
  BY <1>1, <1>2
<1>4. {list[i] : i \in DOMAIN list} = set
  BY <1>2
<1> QED BY <1>3, <1>4

\* The first list of the new process is complete.
LEMMA ControllerInvRestart ==
    ASSUME ControllerInv, JanitorTypeOK', NEW w \in Workers, Restart(w)
    PROVE  ControllerInv'
<1> USE ControllerInvParts
<1> DEFINE known == {key \in KeysOf(w) : Exists(key)}
<1>1. PICK list \in Listings(known) : Refill(w, list)
  BY DEF Restart
<1>2. list \in Seq(known) /\ {list[i] : i \in DOMAIN list} = known
  <2>1. IsFiniteSet(known)
    BY ControllerAssumption, FS_Subset DEF KeysOf
  <2> HIDE DEF known
  <2> QED BY <2>1, ListingIsComplete
<1>3. list \in Seq(Keys) /\ known \subseteq Keys /\ known \subseteq KeysOf(w)
  BY <1>2 DEF KeysOf
<1>4. /\ QueueTypeOK'
      /\ queue'[w] = list
      /\ dirty'[w] = known
      /\ processing'[w] = Absent
  BY <1>1, <1>2, <1>3 DEF Refill, QueueTypeOK
<1>5. settings' \in [Workers -> ValidSettings]
  BY DEF Restart
<1>6. pc' = [pc EXCEPT ![w] = "idle"] /\ cache' = [cache EXCEPT ![w] = server]
  BY DEF Restart, Crash, Forget, Goto
<1>7. \A v \in Workers \ {w} : Keeps(v)
  BY <1>1, <1>6 DEF Refill, Keeps, QueueTypeOK, JanitorTypeOK
<1>8. Queued(w)' = known
  BY <1>2, <1>4 DEF Queued
<1>9. InOrder(w)'
  BY <1>3, <1>4, <1>6, <1>8 DEF InOrder, KeysOf, JanitorTypeOK
<1>10. LosesNothing(w)'
  BY <1>4, <1>6, <1>8 DEF LosesNothing, KeysOf, JanitorTypeOK, Exists
<1> QED BY <1>4, <1>5, <1>7, <1>9, <1>10, OneWorkerMoves

LEMMA ControllerInvNext ==
    ASSUME ControllerInv, JanitorTypeOK', [ControllerNext]_allVars
    PROVE  ControllerInv'
<1> USE ControllerInvParts
<1>1. ASSUME UNCHANGED <<janitorVars, controllerVars>> PROVE ControllerInv'
  <2>1. \A v \in Workers : Keeps(v)
    BY <1>1 DEF janitorVars, processVars, reconcileVars, controllerVars, Keeps
  <2>2. \A v \in Workers : InOrder(v)' /\ LosesNothing(v)'
    BY <2>1, KeepingWorkers
  <2>3. QueueTypeOK' /\ settings' \in [Workers -> ValidSettings]
    BY <1>1 DEF controllerVars, QueueTypeOK
  <2> QED BY <2>2, <2>3
    DEF ControllerInv, ControllerTypeOK, QueueInOrder, KeyNeverLost, InOrder, LosesNothing
<1>2. CASE ClusterNext /\ UNCHANGED <<executorVars, janitorVars, controllerVars>>
  BY <1>1, <1>2
<1>3. CASE UNCHANGED allVars
  BY <1>1, <1>3 DEF allVars, vars
<1>4. ASSUME NEW w \in Workers,
             \/ \E key \in KeysOf(w) : Deliver(w, key) \/ Fire(w, key)
             \/ DeliverPolicies(w)
             \/ WorkerStep(w)
             \/ Restart(w)
      PROVE  ControllerInv'
  BY <1>4, ControllerInvDeliver, ControllerInvFire, ControllerInvTake, ControllerInvReconcile,
     ControllerInvEnd, ControllerInvRestart
  DEF WorkerStep
<1> QED BY <1>2, <1>3, <1>4 DEF ControllerNext

LEMMA ControllerNextIsJanitorNext ==
    ASSUME ControllerInv, JanitorInv, [ControllerNext]_allVars
    PROVE  [Next]_vars /\ JanitorInv' /\ ControllerInv'
<1>1. [Next]_vars
  BY ControllerStepIsJanitorStep
<1>2. JanitorInv'
  BY <1>1, JanitorInvNext
<1>3. JanitorTypeOK'
  BY <1>2 DEF JanitorInv
<1> QED BY <1>1, <1>2, <1>3, ControllerInvNext

-----------------------------------------------------------------------------
(* What the controllers promise *)

\* The queue, the timers and the events decide when a reconcile happens and
\* never what it does: whatever the janitor was shown never to do, with keys
\* taken at any moment, its controllers never do (main.go:172-180).
THEOREM ControllersImplementJanitor == ControllerSafetySpec => Spec
<1>1. ControllerInit => Init /\ JanitorInv /\ ControllerInv
  BY ControllerInvInit, JanitorInvInit DEF ControllerInit
<1> QED BY <1>1, ControllerNextIsJanitorNext, PTL DEF ControllerSafetySpec, Spec

\* The state of the queues has its type and its order in every state of every
\* behaviour (configmap_reconciler.go:36-89, namespace_reconciler.go:48-113).
THEOREM ControllerInvariant == ControllerSafetySpec => []ControllerInv
<1>1. ControllerInit => JanitorInv /\ ControllerInv
  BY ControllerInvInit, JanitorInvInit DEF ControllerInit
<1> QED BY <1>1, ControllerNextIsJanitorNext, PTL DEF ControllerSafetySpec

\* No controller forgets an object of its cache, whatever happens to the
\* object, to the reconciles before it and to the process, because Validate
\* refuses the intervals that RequeueAfter would take for "never"
\* (configmap_reconciler.go:43-52, 88, validation.go:11-13).
THEOREM ControllersLoseNoKey == ControllerSafetySpec => []KeyNeverLost
<1>1. ControllerInv => KeyNeverLost
  BY DEF ControllerInv
<1> QED BY <1>1, ControllerInvariant, PTL

-----------------------------------------------------------------------------
(* What they promise because the janitor does *)

\* However the queue orders, drops and repeats the keys: nothing is deleted in
\* a rehearsal, from a copy with a protection, before its time or a second time
\* for one look, and what Reconcile says and counts is what it did
\* (main.go:172-180, configmap_reconciler.go:36-89, namespace_reconciler.go:48-113).
THEOREM ControllersDeleteSafely ==
    ControllerSafetySpec => /\ []DryRunDeletesNothing
                            /\ []DeletionFromCleanCopy
                            /\ []NothingExpiresEarly
                            /\ []FindingsAreOfTheChain
                            /\ []ReportsAreHonest
                            /\ []DeletionsAreCovered
                            /\ []DeletionsAreCountedOnce
                            /\ ImplementsSafeDeletion
                            /\ DeletionIsJustified
                            /\ OwnedObjectsAreLeftToGC
  BY ControllersImplementJanitor, JanitorDryRunDeletesNothing, JanitorDeletesFromCleanCopies,
     JanitorNothingExpiresEarly, JanitorFindsWhatTheChainFinds, JanitorReportsAreHonest,
     JanitorDeletionsAreCovered, JanitorCountsOnce, JanitorImplementsSafeDeletion,
     JanitorDeletionsAreJustified, JanitorLeavesOwnedObjects, PTL

\* The Namespace controller sends no DELETE after one that its cache knows to
\* be under way (namespace_reconciler.go:65-69).
THEOREM ControllersLeaveTerminating == ControllerSafetySpec => []TerminatingIsLeftAlone
  BY ControllersImplementJanitor, JanitorLeavesTerminating, PTL

-----------------------------------------------------------------------------
(* A ripe object is on its way until it is gone *)

\* A step leaves worker v where it is in its reconcile; its informer may have
\* brought the policies up to date.
Waits(v) ==
    /\ pc'[v] = pc[v]
    /\ epc'[v] = epc[v]
    /\ task'[v] = task[v]
    /\ snap'[v] = snap[v]
    /\ finding'[v] = finding[v]
    /\ listing'[v] = listing[v] \/ listing'[v] \in Listings(policies)

\* The cluster and the janitor's own deletions never put another object in the
\* place of one that is there.
LEMMA SamePlaceSameObject ==
    ASSUME JanitorInv, [Next]_vars, NEW key \in Keys, Exists(key), Exists(key)'
    PROVE  server'[key].uid = server[key].uid /\ now' >= now
  BY StepDescends DEF Descends, Births, SameBirth, Exists

\* When all the policies ask for the deletion, a list of them does.
LEMMA ListingsAsk ==
    ASSUME ClusterTypeOK, NEW w \in Workers, NEW key \in Keys, Ripe(w, key),
           NEW list \in Listings(policies)
    PROVE  list # <<>> /\ \A i \in DOMAIN list : Asks(list[i], key.kind)
<1>1. policies # {} /\ \A policy \in policies : Asks(policy, key.kind)
  BY DEF Ripe
<1>2. IsFiniteSet(policies)
  BY ClusterAssumption DEF ClusterTypeOK
<1>3. list \in Seq(policies) /\ {list[i] : i \in DOMAIN list} = policies
  BY <1>2, ListingIsComplete
<1>4. list # <<>>
  BY <1>1, <1>3
<1> QED BY <1>1, <1>3, <1>4

\* What a ripe object and its copy are.
LEMMA OnTheWayParts ==
    ASSUME JanitorInv, NEW w \in Workers, NEW key \in KeysOf(w), Ripe(w, key), OnTheWay(w, key)
    PROVE  /\ key \in Keys
           /\ key.kind = KindOf[w]
           /\ server[key] \in Object
           /\ snap[w] \in Object
           /\ listing[w] \in Seq(Policy)
           /\ now \in Nat
           /\ dryRun[w] = FALSE
           /\ ~InProtectedNamespace(key)
<1>1. /\ key \in Keys
      /\ key.kind = KindOf[w]
      /\ Exists(key)
      /\ ~dryRun[w]
      /\ ClassifyLocally(key, server[key], now).class = "expired"
      /\ snap[w] # Absent
  BY DEF KeysOf, Ripe, OnTheWay
<1>2. /\ server[key] \in Object
      /\ snap[w] \in Object
      /\ listing[w] \in Seq(Policy)
      /\ now \in Nat
      /\ dryRun[w] \in BOOLEAN
  BY <1>1 DEF JanitorInv, JanitorTypeOK, ExecutorTypeOK, ClusterTypeOK, Exists
<1>3. ~IsProtected(key, server[key].meta)
  BY <1>1, <1>2, ChainGuardsProtection
<1> QED BY <1>1, <1>2, <1>3 DEF IsProtected

LEMMA OnTheWayWaits ==
    ASSUME JanitorInv, [Next]_vars, JanitorTypeOK', NEW w \in Workers, NEW key \in KeysOf(w),
           Ripe(w, key), Ripe(w, key)', OnTheWay(w, key), Waits(w)
    PROVE  OnTheWay(w, key)'
<1>1. /\ key \in Keys
      /\ snap[w] \in Object
      /\ now \in Nat
  BY OnTheWayParts
<1>2. server'[key].uid = server[key].uid /\ now' >= now /\ now' \in Nat
  BY <1>1, SamePlaceSameObject DEF Ripe, JanitorTypeOK, ExecutorTypeOK, ClusterTypeOK
<1>3. listing[w] # <<>> /\ (\A i \in DOMAIN listing[w] : Asks(listing[w][i], key.kind)) =>
        listing'[w] # <<>> /\ (\A i \in DOMAIN listing'[w] : Asks(listing'[w][i], key.kind))
  <2>1. ClusterTypeOK
    BY DEF JanitorInv, JanitorTypeOK, ExecutorTypeOK
  <2> QED BY <1>1, <2>1, ListingsAsk DEF Waits
<1>4. ClassifyLocally(key, snap[w], now).class = "expired" =>
        ClassifyLocally(key, snap[w], now').class = "expired"
  <2>1. \A early \in Nat, late \in Nat :
          early <= late /\ ClassifyLocally(key, snap[w], early).class = "expired" =>
            ClassifyLocally(key, snap[w], late) = Verdict("expired", High)
    BY <1>1, ExpiredStays
  <2> QED BY <1>1, <1>2, <2>1 DEF Verdict
<1> QED BY <1>2, <1>3, <1>4 DEF OnTheWay, Waits

LEMMA OnTheWayClassifies ==
    ASSUME JanitorInv, NEW w \in Workers, NEW key \in KeysOf(w),
           Ripe(w, key), OnTheWay(w, key), ClassifyCopy(w)
    PROVE  OnTheWay(w, key)'
<1> DEFINE verdict == ClassifyLocally(task[w], snap[w], now)
<1>1. /\ key \in Keys
      /\ snap[w] \in Object
      /\ now \in Nat
      /\ pc \in [Workers -> Steps]
      /\ finding \in [Workers -> Finding]
  BY OnTheWayParts DEF JanitorInv, JanitorTypeOK
<1>2. /\ pc[w] = "classify"
      /\ task[w] = key
      /\ UNCHANGED <<server, now, task, snap, listing>>
  BY DEF ClassifyCopy, OnTheWay, clusterVars, processVars
<1>3. verdict = Verdict("expired", High)
  <2>1. ClassifyLocally(key, snap[w], now).class = "expired" /\ now <= now
    BY <1>1, <1>2 DEF OnTheWay
  <2>2. ClassifyLocally(key, snap[w], now) = Verdict("expired", High)
    BY <1>1, <2>1, ExpiredStays
  <2> QED BY <1>2, <2>2
<1>4. Classified(w, verdict)
  BY <1>3 DEF ClassifyCopy, Verdict
<1>5. pc'[w] = "decide" /\ finding'[w] = Verdict("expired", High)
  BY <1>1, <1>3, <1>4 DEF Classified, Goto
<1> QED BY <1>2, <1>5 DEF OnTheWay

\* A list of policies that all ask decides for the deletion.
LEMMA AskingPoliciesDelete ==
    ASSUME NEW kind \in Kinds, NEW list \in Seq(Policy), list # <<>>,
           \A i \in DOMAIN list : Asks(list[i], kind)
    PROVE  LET decision == Evaluate(FALSE, "absent", Verdict("expired", High), kind, list)
           IN  decision.action = "delete" /\ decision.dryRun = FALSE
<1>1. Matching(kind, list) # {}
  <2>1. 1 \in DOMAIN list
    OBVIOUS
  <2> QED BY <2>1 DEF Matching, Asks
<1>2. PICK i \in DOMAIN list : FirstMatching(kind, list) = list[i]
  BY <1>1, FirstMatchingChoice
<1> DEFINE policy == list[i]
<1>3. policy \in Policy /\ Asks(policy, kind)
  BY <1>2
<1>4. Evaluate(FALSE, "absent", Verdict("expired", High), kind, list) =
        PolicyDecision(FALSE, Verdict("expired", High), policy)
  BY <1>1, <1>2 DEF Evaluate, Overridden, OverrideAction, Verdict
<1> HIDE DEF policy
<1>5. High >= Threshold(policy)
  BY <1>3 DEF Asks, Threshold, DefaultDeleteThreshold, High, Policy
<1>6. /\ PolicyDecision(FALSE, Verdict("expired", High), policy).action = "delete"
      /\ PolicyDecision(FALSE, Verdict("expired", High), policy).dryRun = FALSE
  BY <1>3, <1>5 DEF PolicyDecision, Asks, Decide, Verdict
<1> QED BY <1>4, <1>6

LEMMA OnTheWayActs ==
    ASSUME JanitorInv, NEW w \in Workers, NEW key \in KeysOf(w),
           Ripe(w, key), OnTheWay(w, key), Act(w)
    PROVE  OnTheWay(w, key)'
<1>1. /\ key \in Keys
      /\ key.kind = KindOf[w]
      /\ key.kind \in Kinds
      /\ snap[w] \in Object
      /\ listing[w] \in Seq(Policy)
      /\ dryRun[w] = FALSE
      /\ ~InProtectedNamespace(key)
      /\ pc \in [Workers -> Steps]
      /\ epc \in [Workers -> {"idle", "reget", "delete", "returned"}]
  <2>1. /\ key \in Keys
        /\ key.kind = KindOf[w]
        /\ snap[w] \in Object
        /\ listing[w] \in Seq(Policy)
        /\ dryRun[w] = FALSE
        /\ ~InProtectedNamespace(key)
    BY OnTheWayParts
  <2>2. key.kind \in Kinds
    BY <2>1, KeysAssumption
  <2> QED BY <2>1, <2>2 DEF JanitorInv, JanitorTypeOK, ExecutorTypeOK
<1>2. /\ pc[w] = "decide"
      /\ task[w] = key
      /\ snap[w].meta.override = "absent"
      /\ finding[w] = Verdict("expired", High)
      /\ listing[w] # <<>>
      /\ \A i \in DOMAIN listing[w] : Asks(listing[w][i], key.kind)
      /\ UNCHANGED <<server, task, snap>>
  BY DEF Act, OnTheWay, clusterVars
<1>3. DecisionOf(w) = Evaluate(FALSE, "absent", Verdict("expired", High), key.kind, listing[w])
  BY <1>1, <1>2 DEF DecisionOf
<1>4. DecisionOf(w).action = "delete" /\ DecisionOf(w).dryRun = FALSE
  <2> DEFINE decision == Evaluate(FALSE, "absent", Verdict("expired", High), key.kind, listing[w])
  <2>1. decision.action = "delete" /\ decision.dryRun = FALSE
    BY <1>1, <1>2, AskingPoliciesDelete
  <2> HIDE DEF decision
  <2> QED BY <1>3, <2>1 DEF decision
<1>5. ~Simulated(DecisionOf(w)) /\ ~RefusesNamespace(key)
  BY <1>1, <1>4 DEF Simulated, RefusesNamespace, InProtectedNamespace
<1>6. epc' = [epc EXCEPT ![w] = "reget"]
  BY <1>2, <1>4, <1>5 DEF Act, Execute
<1>7. pc'[w] = "executing" /\ epc'[w] = "reget"
  BY <1>1, <1>6 DEF Act, Goto
<1> QED BY <1>2, <1>7 DEF OnTheWay

LEMMA OnTheWayExecutes ==
    ASSUME JanitorInv, NEW w \in Workers, NEW key \in KeysOf(w),
           Ripe(w, key), Ripe(w, key)', ~Fault(w), OnTheWay(w, key), ExecutorStep(w)
    PROVE  OnTheWay(w, key)'
<1>1. /\ key \in Keys
      /\ server[key] \in Object
      /\ ExecutorTypeOK
  BY OnTheWayParts DEF JanitorInv, JanitorTypeOK
<1>2. /\ UNCHANGED <<pc, task, snap>>
      /\ epc[w] \in {"reget", "delete"}
  BY DEF ExecutorStep, ReGet, SendDelete, janitorVars, reconcileVars
<1>3. pc[w] = "executing" /\ job[w] # Absent
  BY <1>1, <1>2, AbsentJobAssumption DEF JanitorInv, StepsAreInOrder, ExecutorTypeOK
<1>4. /\ job[w].key = key
      /\ job[w].uid = server[key].uid
  BY <1>3 DEF JanitorInv, JobsFollowFindings, OnTheWay
<1>5. CASE ReGet(w)
  <2>1. PassesPreflight(job[w].uid, server[key]) /\ server[key] # Absent
    BY <1>4 DEF Ripe, Exists, PassesPreflight, HasForeignFinalizer
  <2>2. result'[w] # "unread" /\ epc[w] = "reget"
    BY <1>5 DEF Fault, ReGet
  <2>3. epc' = [epc EXCEPT ![w] = "delete"]
    BY <1>1, <1>4, <1>5, <2>1, <2>2 DEF ReGet, ReturnWith, ExecutorTypeOK
  <2>4. epc'[w] = "delete" /\ server' = server
    BY <1>1, <1>5, <2>3 DEF ReGet, ExecutorTypeOK, clusterVars
  <2> QED BY <1>2, <1>3, <2>4 DEF OnTheWay
<1>6. CASE SendDelete(w)
  <2>1. ~Missed(w)
    BY <1>4 DEF Missed, Ripe, Exists
  <2>2. ~Rejected(w)
    BY <1>1, <1>6 DEF Rejected, ReturnWith, Fault, SendDelete, ExecutorTypeOK
  <2>3. server'[key] = AfterDelete(key, server[key])
    BY <1>1, <1>4, <1>6, <2>1, <2>2 DEF SendDelete, Hit, ExecutorTypeOK, ClusterTypeOK
  <2>4. server'[key] # Absent /\ ~server'[key].terminating
    BY DEF Ripe, Exists
  <2> QED BY <1>1, <2>3, <2>4 DEF AfterDelete, Object
<1> QED BY <1>5, <1>6 DEF ExecutorStep

\* What another worker does.
LEMMA OthersWait ==
    ASSUME JanitorTypeOK, NEW v \in Workers, NEW w \in Workers, v # w, WorkerNext(v)
    PROVE  Waits(w)
<1> USE DEF JanitorTypeOK, ExecutorTypeOK, Waits
<1>1. CASE SyncPolicies(v) \/ \E key \in KeysOf(v) : SyncObject(v, key)
  BY <1>1 DEF SyncPolicies, SyncObject, executorVars, reconcileVars
<1>2. CASE \/ \E key \in KeysOf(v) : Fetch(v, key) \/ FetchMissing(v, key)
           \/ FetchFails(v) \/ ReadFails(v)
  BY <1>2 DEF Fetch, FetchMissing, FetchFails, ReadFails, Goto, executorVars, processVars
<1>3. CASE ClassifyCopy(v)
  BY <1>3 DEF ClassifyCopy, Classified, Goto, executorVars, processVars
<1>4. CASE LookUpOwner(v)
  BY <1>4 DEF LookUpOwner, Classified, Goto, executorVars, processVars
<1>5. CASE ListPods(v) \/ ListDeployments(v)
  BY <1>5 DEF ListPods, ListDeployments, Classified, Goto, executorVars, processVars
<1>6. CASE Act(v)
  BY <1>6 DEF Act, Execute, ReturnWith, Goto, processVars
<1>7. CASE Finish(v)
  BY <1>7 DEF Finish, Return, Goto, processVars
<1>8. CASE ExecutorStep(v)
  <2>1. \E step : epc' = [epc EXCEPT ![v] = step]
    BY <1>8 DEF ExecutorStep, ReGet, SendDelete, Missed, Hit, Rejected, ReturnWith
  <2> QED BY <1>8, <2>1 DEF ExecutorStep, janitorVars, processVars, reconcileVars
<1>9. CASE Requeue(v) \/ Crash(v)
  BY <1>9 DEF Requeue, Crash, Forget, Abandon, Goto, processVars
<1> QED BY <1>1, <1>2, <1>3, <1>4, <1>5, <1>6, <1>7, <1>8, <1>9 DEF WorkerNext

\* The first step: the fetch.
LEMMA SetsOutOnTheWay ==
    ASSUME ControllerInv, JanitorInv, NEW w \in Workers, NEW key \in KeysOf(w),
           Ripe(w, key), ~Fault(w), SetsOut(w, key), Begin(w)
    PROVE  OnTheWay(w, key)'
<1>1. /\ key \in Keys
      /\ ClusterTypeOK
      /\ pc \in [Workers -> Steps]
      /\ task \in [Workers -> Keys \cup {Absent}]
      /\ snap \in [Workers -> Object \cup {Absent}]
  BY DEF KeysOf, JanitorInv, JanitorTypeOK, ExecutorTypeOK
<1>2. Fetch(w, key)
  <2>1. ~FetchFails(w)
    BY DEF Fault
  <2>2. cache[w][key] # Absent
    BY DEF SetsOut, Ripe, Exists
  <2> QED BY <2>1, <2>2 DEF Begin, SetsOut, FetchMissing
<1>3. /\ UNCHANGED <<server, now, listing>>
      /\ task'[w] = key
      /\ snap'[w] = server[key]
      /\ pc'[w] = "classify"
  <2>1. ~Skips(w, cache[w][key])
    BY DEF Skips, SetsOut, Ripe
  <2> QED BY <1>1, <1>2, <2>1 DEF Fetch, Goto, SetsOut, clusterVars, processVars
<1>4. listing[w] # <<>> /\ \A i \in DOMAIN listing[w] : Asks(listing[w][i], key.kind)
  BY <1>1, ListingsAsk DEF SetsOut
<1>5. /\ server[key] # Absent
      /\ server[key].meta.override = "absent"
      /\ ClassifyLocally(key, server[key], now).class = "expired"
  BY DEF Ripe, Exists
<1> QED BY <1>3, <1>4, <1>5 DEF OnTheWay

LEMMA RipeGoesOnStep ==
    ASSUME ControllerInv, JanitorInv, [ControllerNext]_allVars,
           NEW w \in Workers, NEW key \in KeysOf(w),
           Ripe(w, key), Ripe(w, key)', ~Fault(w), OnTheWay(w, key) \/ SetsOut(w, key)
    PROVE  OnTheWay(w, key)'
<1>1. [Next]_vars /\ JanitorTypeOK'
  BY ControllerNextIsJanitorNext DEF JanitorInv
<1>2. ASSUME Waits(w) PROVE OnTheWay(w, key)'
  <2>1. OnTheWay(w, key)
    BY <1>2 DEF Waits, SetsOut
  <2> QED BY <1>1, <1>2, <2>1, OnTheWayWaits
<1>3. CASE UNCHANGED allVars \/ (ClusterNext /\ UNCHANGED <<executorVars, janitorVars, controllerVars>>)
  BY <1>2, <1>3
  DEF allVars, vars, executorVars, janitorVars, processVars, reconcileVars, Waits
<1>4. ASSUME NEW v \in Workers \ {w},
             \/ \E k \in KeysOf(v) : Deliver(v, k) \/ Fire(v, k)
             \/ DeliverPolicies(v)
             \/ WorkerStep(v)
             \/ Restart(v)
      PROVE  OnTheWay(w, key)'
  <2>1. processing[v] \in KeysOf(v) \cup {Absent}
    BY DEF ControllerInv, QueueInOrder
  <2>2. WorkerNext(v) \/ UNCHANGED vars
    BY <1>4, <2>1
    DEF Deliver, Fire, DeliverPolicies, WorkerStep, Take, Begin, Proceed, End, Restart, WorkerNext
  <2>3. WorkerNext(v) => Waits(w)
    BY OthersWait DEF JanitorInv
  <2>4. UNCHANGED vars => Waits(w)
    BY DEF vars, executorVars, janitorVars, processVars, reconcileVars, Waits
  <2> QED BY <1>2, <2>2, <2>3, <2>4
<1>5. CASE \/ \E k \in KeysOf(w) : Deliver(w, k) \/ Fire(w, k)
           \/ DeliverPolicies(w)
           \/ Take(w)
  <2>1. /\ UNCHANGED <<executorVars, reconcileVars>>
        /\ listing'[w] = listing[w] \/ listing'[w] \in Listings(policies)
    <3>1. CASE \E k \in KeysOf(w) : Deliver(w, k) \/ Fire(w, k)
      BY <3>1 DEF Deliver, Fire, SyncObject, vars, janitorVars, processVars
    <3>2. CASE DeliverPolicies(w)
      BY <3>2 DEF DeliverPolicies, SyncPolicies, JanitorInv, JanitorTypeOK
    <3>3. CASE Take(w)
      BY <3>3 DEF Take, vars, janitorVars, processVars
    <3> QED BY <1>5, <3>1, <3>2, <3>3
  <2> QED BY <1>2, <2>1 DEF executorVars, reconcileVars, Waits
<1>6. CASE Begin(w)
  <2>1. pc[w] = "idle"
    BY <1>6 DEF Begin, Fetch, FetchMissing, FetchFails
  <2>2. SetsOut(w, key)
    BY <2>1 DEF OnTheWay
  <2> QED BY <1>6, <2>2, SetsOutOnTheWay
<1>7. CASE Proceed(w)
  <2>1. epc[w] # "idle" => pc[w] = "executing"
    BY DEF JanitorInv, StepsAreInOrder
  <2>2. pc[w] # "idle"
    BY <1>7, <2>1
    DEF Proceed, ClassifyCopy, LookUpOwner, ListPods, ListDeployments, ReadFails, Act,
        ExecutorStep, ReGet, SendDelete, Finish
  <2>3. OnTheWay(w, key)
    BY <2>2 DEF SetsOut
  <2>4. \/ pc[w] \in {"classify", "decide"}
        \/ pc[w] = "executing" /\ epc[w] \in {"reget", "delete"}
    BY <2>3 DEF OnTheWay
  <2>5. ClassifyCopy(w) \/ Act(w) \/ ExecutorStep(w)
    BY <1>7, <2>4
    DEF Proceed, LookUpOwner, ListPods, ListDeployments, Finish, Return, Fault
  <2> QED BY <2>3, <2>5, OnTheWayClassifies, OnTheWayActs, OnTheWayExecutes
<1>8. CASE End(w)
  <2>1. pc[w] \in {"done", "missing", "failed"}
    BY <1>8 DEF End, Requeue
  <2> QED BY <2>1 DEF OnTheWay, SetsOut
<1>9. ~Restart(w)
  BY DEF Fault
<1> QED BY <1>3, <1>4, <1>5, <1>6, <1>7, <1>8, <1>9 DEF ControllerNext, WorkerStep

\* No reconcile that begins with a ripe object skips, spares or refuses it,
\* unless a call fails or the process dies: what RipeIsDeleted needs besides
\* fairness, for any number of objects, controllers and policies
\* (configmap_reconciler.go:36-89, namespace_reconciler.go:48-113,
\* executor.go:86-171).
THEOREM ControllersGoOn == ControllerSafetySpec => RipeGoesOn
<1> DEFINE GoesOn ==
      \A w \in Workers : \A key \in KeysOf(w) :
        /\ Ripe(w, key) /\ Ripe(w, key)'
        /\ OnTheWay(w, key) \/ SetsOut(w, key)
        /\ ~Fault(w)
        => OnTheWay(w, key)'
<1>1. ControllerInit => JanitorInv /\ ControllerInv
  BY ControllerInvInit, JanitorInvInit DEF ControllerInit
<1>2. ControllerInv /\ JanitorInv /\ [ControllerNext]_allVars => GoesOn
  BY RipeGoesOnStep
<1> HIDE DEF GoesOn
<1>3. ControllerSafetySpec => [][GoesOn]_allVars
  BY <1>1, <1>2, ControllerNextIsJanitorNext, PTL DEF ControllerSafetySpec
<1> QED BY <1>3 DEF RipeGoesOn, GoesOn

=============================================================================
