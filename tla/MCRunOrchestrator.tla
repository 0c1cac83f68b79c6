-------------------------- MODULE MCRunOrchestrator --------------------------
(* Instances of RunOrchestrator for TLC, and its refinement mapping.       *)
EXTENDS RunOrchestrator, TLC

CONSTANTS s1, s2, s3, e1, e2, e3, e4, none

(* Three operations of one session that compete with one of another. *)
TwoSessions == {s1, s2}
FourEntries == {e1, e2, e3, e4}
OwnersThreeOne == e1 :> s1 @@ e2 :> s1 @@ e3 :> s1 @@ e4 :> s2

(* Three sessions that compete for the permits. *)
ThreeSessions == {s1, s2, s3}
OwnersSpread == e1 :> s1 @@ e2 :> s1 @@ e3 :> s2 @@ e4 :> s3

ASSUME NoneAssumption == none \notin Entries

(* The operation that runs in a session when the operations are in the     *)
(* places ph, for the mapping to SessionQueues.                            *)
Doing(s, ph) ==
    IF \E e \in EntriesOf(s) : ph[e] \in Executing
    THEN CHOOSE e \in EntriesOf(s) : ph[e] \in Executing
    ELSE none

Queues == INSTANCE SessionQueues
            WITH None <- none, todo <- pending,
                 doing <- [s \in Sessions |-> Doing(s, phase)]

(* RunOrchestrator keeps the promise of SessionQueues: enqueue, remove,    *)
(* reorder, prioritize, pause, resume, drain and the end of an operation   *)
(* are steps of a queue with one server per session.                       *)
ImplementsQueues == Queues!Spec
=============================================================================
