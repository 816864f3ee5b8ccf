---------------------------- MODULE SafeDeletion ----------------------------
(***************************************************************************)
(* What a caller of the executor may rely on (the Executor interface and   *)
(* the comment on DefaultExecutor, internal/action/executor.go:21-32),     *)
(* without how it is done: a worker strikes an object only with a warrant, *)
(* a warrant is issued only for an object that is free to go and lies in   *)
(* no sanctuary, and it never reaches an object older than the one it was  *)
(* issued for.  The world does not wait: objects are edited, removed and   *)
(* created at any time.                                                    *)
(***************************************************************************)
EXTENDS Integers

CONSTANTS
    Keys,       \* the names objects may have
    Workers,    \* those who strike
    Sanctuary,  \* the keys never to be struck
    Absent      \* no object, no warrant, nobody struck

VARIABLES
    objects,   \* objects[key]: the UID of the object and whether it is free to go, or Absent
    born,      \* the next UID to be given to an object
    warrants,  \* warrants[w]: the key and the UID that w may strike, or Absent
    struck     \* struck[w]: the UID w struck last, or Absent

safeVars == <<objects, born, warrants, struck>>

Init ==
    /\ objects = [key \in Keys |-> Absent]
    /\ born = 1
    /\ warrants = [w \in Workers |-> Absent]
    /\ struck = [w \in Workers |-> Absent]

\* An object keeps its UID until it goes, and each new one gets a new UID.
World ==
    /\ born' >= born
    /\ \A key \in Keys :
         \/ objects'[key] = Absent
         \/ objects[key] # Absent /\ objects'[key].uid = objects[key].uid
         \/ born <= objects'[key].uid /\ objects'[key].uid < born'
    /\ UNCHANGED <<warrants, struck>>

Issue(w) ==
    /\ warrants[w] = Absent
    /\ \E key \in Keys \ Sanctuary :
         /\ objects[key] # Absent
         /\ objects[key].free
         /\ warrants' = [warrants EXCEPT ![w] = [key |-> key, uid |-> objects[key].uid]]
    /\ UNCHANGED <<objects, born, struck>>

\* The object goes at once, or lingers until its finalizers are done.
Strike(w) ==
    /\ warrants[w] # Absent
    /\ LET key == warrants[w].key
       IN  /\ objects[key] # Absent
           /\ objects[key].uid >= warrants[w].uid
           /\ struck' = [struck EXCEPT ![w] = objects[key].uid]
           /\ objects' \in {objects, [objects EXCEPT ![key] = Absent]}
    /\ warrants' = [warrants EXCEPT ![w] = Absent]
    /\ UNCHANGED born

\* A warrant may lapse, and a worker may forget whom it struck.
Withdraw(w) ==
    /\ warrants' = [warrants EXCEPT ![w] = Absent]
    /\ struck' \in {struck, [struck EXCEPT ![w] = Absent]}
    /\ UNCHANGED <<objects, born>>

Next == World \/ \E w \in Workers : Issue(w) \/ Strike(w) \/ Withdraw(w)

Spec == Init /\ [][Next]_safeVars

=============================================================================
