------------------------------ MODULE WorkQueue ------------------------------
(***************************************************************************)
(* The work queue of one controller (client-go's rate-limiting queue, as   *)
(* controller-runtime uses it): keys that wait for the worker, in order;   *)
(* keys that changed since they were last taken; the key being processed;  *)
(* and the keys a timer will add again, after RequeueAfter or a backoff.   *)
(* It is not in the repository; Reconcile's results steer it               *)
(* (internal/controller/configmap_reconciler.go:43-88).  The timers have   *)
(* no times here: one may fire at any moment.                              *)
(***************************************************************************)
EXTENDS Sequences

CONSTANTS
    Keys,     \* what a queue may hold
    Workers,  \* one queue each
    Absent    \* no key in process

VARIABLES
    queue,       \* queue[w]: the keys to be taken, first come, first served
    dirty,       \* dirty[w]: the keys added and not taken since
    processing,  \* processing[w]: the key the worker has taken, or Absent
    waiting      \* waiting[w]: the keys with a timer

QueueTypeOK ==
    /\ queue \in [Workers -> Seq(Keys)]
    /\ dirty \in [Workers -> SUBSET Keys]
    /\ processing \in [Workers -> Keys \cup {Absent}]
    /\ waiting \in [Workers -> SUBSET Keys]

Queued(w) == {queue[w][i] : i \in DOMAIN queue[w]}

\* A key that is in process is not queued until that is done.
Add(w, key) ==
    /\ dirty' = [dirty EXCEPT ![w] = @ \cup {key}]
    /\ queue' = [queue EXCEPT ![w] = IF key \in dirty[w] \/ key = processing[w]
                                     THEN @ ELSE Append(@, key)]

Get(w) ==
    /\ processing[w] = Absent
    /\ queue[w] # <<>>
    /\ processing' = [processing EXCEPT ![w] = Head(queue[w])]
    /\ queue' = [queue EXCEPT ![w] = Tail(@)]
    /\ dirty' = [dirty EXCEPT ![w] = @ \ {Head(queue[w])}]
    /\ UNCHANGED waiting

\* The worker is done with its key, which gets a timer or not.
Done(w, again) ==
    /\ processing' = [processing EXCEPT ![w] = Absent]
    /\ waiting' = [waiting EXCEPT ![w] = IF again THEN @ \cup {processing[w]} ELSE @]
    /\ queue' = [queue EXCEPT ![w] = IF processing[w] \in dirty[w]
                                     THEN Append(@, processing[w]) ELSE @]
    /\ UNCHANGED dirty

TimerFires(w, key) ==
    /\ key \in waiting[w]
    /\ waiting' = [waiting EXCEPT ![w] = @ \ {key}]
    /\ Add(w, key)
    /\ UNCHANGED processing

\* A new process starts from what its first list returns, in any order.
Refill(w, list) ==
    /\ queue' = [queue EXCEPT ![w] = list]
    /\ dirty' = [dirty EXCEPT ![w] = {list[i] : i \in DOMAIN list}]
    /\ processing' = [processing EXCEPT ![w] = Absent]
    /\ waiting' = [waiting EXCEPT ![w] = {}]

=============================================================================
