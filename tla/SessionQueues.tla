---------------------------- MODULE SessionQueues ----------------------------
(***************************************************************************)
(* What RunOrchestrator promises to its callers, as a specification of its *)
(* own: every session is a queue with one server.  Operations are taken    *)
(* from the head, one at a time; only the caller changes the order or      *)
(* takes an operation out, and none is lost or run twice for one           *)
(* submission.  When an operation may be taken is left open: a session may *)
(* be paused, and a permit of the semaphore may be missing.                *)
(***************************************************************************)
EXTENDS Integers, Sequences

CONSTANTS Sessions, Entries, SessionOf, None

VARIABLES todo,   \* session -> submitted operations, in the order to run
          doing   \* session -> the operation that runs, or None

vars == <<todo, doing>>

Listed(s) == {todo[s][i] : i \in DOMAIN todo[s]}

Init ==
    /\ todo = [s \in Sessions |-> <<>>]
    /\ doing = [s \in Sessions |-> None]

(* Session s ends the step with queue q and server d, and the server may   *)
(* have taken the head of q if it is free.                                 *)
Settle(s, q, d) ==
    \/ todo'[s] = q /\ doing'[s] = d
    \/ d = None /\ q # <<>> /\ todo'[s] = Tail(q) /\ doing'[s] = Head(q)

Submit(s, e) ==
    /\ SessionOf[e] = s
    /\ e \notin Listed(s) \cup {doing[s]}
    /\ Settle(s, Append(todo[s], e), doing[s]) \/ Settle(s, <<e>> \o todo[s], doing[s])

Withdraw(s, e) ==
    /\ \E i \in DOMAIN todo[s] :
          /\ todo[s][i] = e
          /\ todo'[s] = SubSeq(todo[s], 1, i - 1) \o SubSeq(todo[s], i + 1, Len(todo[s]))
    /\ doing'[s] = doing[s]

Rearrange(s) ==
    /\ Len(todo'[s]) = Len(todo[s])
    /\ {todo'[s][i] : i \in DOMAIN todo'[s]} = Listed(s)
    /\ doing'[s] = doing[s]

Complete(s) == doing[s] # None /\ Settle(s, todo[s], None)

Next ==
    /\ DOMAIN todo' = Sessions /\ DOMAIN doing' = Sessions
    /\ \/ \E s \in Sessions :
             /\ \/ \E e \in Entries : Submit(s, e) \/ Withdraw(s, e)
                \/ Rearrange(s)
                \/ Complete(s)
             /\ \A t \in Sessions \ {s} : todo'[t] = todo[t] /\ doing'[t] = doing[t]
       \/ \A s \in Sessions : Settle(s, todo[s], doing[s])

Spec == Init /\ [][Next]_vars
=============================================================================
