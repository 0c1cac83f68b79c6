--------------------------- MODULE RunOrchestrator ---------------------------
(***************************************************************************)
(* packages/core/src/run-orchestrator.ts and the Semaphore of              *)
(* packages/core/src/runtime-support.ts.                                   *)
(*                                                                         *)
(* RunOrchestrator keeps one record per session (pending operations, a     *)
(* running flag, a paused flag) and a semaphore shared by every session.   *)
(* JavaScript runs each synchronous stretch to its end, so one action is   *)
(* one such stretch; the actions interleave where the code awaits:         *)
(*   - pump schedules the operation in a microtask;                        *)
(*   - an operation awaits the side-effect gate before it acquires;        *)
(*   - a permit handed to a waiter is taken in a later microtask;          *)
(*   - release and the pump that follows an operation are two microtasks.  *)
(*                                                                         *)
(* An entry stands for the operation of one run.  An operation whose run   *)
(* is answered, confirmed or resumed later is admitted again, at most      *)
(* MaxAdmissions times (a bound of the model, not of the code).            *)
(***************************************************************************)
EXTENDS Integers, Sequences, FiniteSets

CONSTANTS Sessions,       \* session ids
          Entries,        \* operations, one per run id
          Limit,          \* runtime.maxParallelSessions
          MaxAdmissions,  \* bound of the model: admissions of one entry
          SessionOf       \* the session an entry is admitted to

ASSUME LimitAssumption == Limit \in Nat \ {0}
ASSUME AdmissionsAssumption == MaxAdmissions \in Nat
ASSUME EntriesAssumption == IsFiniteSet(Entries)
ASSUME SessionOfAssumption == SessionOf \in [Entries -> Sessions]

VARIABLES known,    \* the sessions that have a record in the map
          pending,  \* session -> its record's pending queue
          running,  \* session -> its record's running flag
          paused,   \* session -> its record's paused flag
          phase,    \* entry -> where its operation is
          admitted, \* entry -> number of admissions so far
          active,   \* Semaphore.active
          waiting,  \* Semaphore.waiting
          drain     \* the caller of drain(): not called, waiting or resolved

queueVars == <<known, pending, running, paused>>
semVars == <<active, waiting>>
vars == <<queueVars, phase, admitted, semVars, drain>>

(* Where the operation of an entry is.  "gate": started, has not asked for *)
(* a permit; "waiting": queued in the semaphore; "handed": its promise is  *)
(* resolved but its continuation has not run; "holding": owns a permit;    *)
(* "released": gave it back, the finally of pump has not run yet.          *)
Phases == {"new", "pending", "gate", "waiting", "handed", "holding",
           "released", "done", "removed"}
Executing == {"gate", "waiting", "handed", "holding", "released"}
Idlers == {"new", "done", "removed"}

EntriesOf(s) == {e \in Entries : SessionOf[e] = s}
----------------------------------------------------------------------------
(* Helpers                                                                 *)

(* Each definition "Faulty..." is a plausible bug of the one after it; the *)
(* properties are shown to notice it.                                      *)
FaultyIdle(k, pend, run) == \A s \in k : ~run[s]

Idle(k, pend, run) == \A s \in k : ~run[s] /\ pend[s] = <<>>

(* resolveIdleWaiters *)
Resolved(k, pend, run) ==
    IF drain = "waiting" /\ Idle(k, pend, run) THEN "resolved" ELSE drain

(* Bug: the running flag is not looked at. *)
FaultyPump(T, k, pend, run, pau, ph) ==
    LET able    == {s \in T \cap k : ~pau[s]}
        started == {s \in able : pend[s] # <<>>}
    IN  /\ known' = k \ (able \ started)
        /\ pending' = [s \in Sessions |->
                         IF s \in started THEN Tail(pend[s]) ELSE pend[s]]
        /\ running' = [s \in Sessions |-> s \in started \/ run[s]]
        /\ paused' = pau
        /\ phase' = [e \in Entries |->
                       IF SessionOf[e] \in started /\ e = Head(pend[SessionOf[e]])
                       THEN "gate" ELSE ph[e]]

(* pump, for every session of T, in a state whose map, queues, flags and   *)
(* operations are k, pend, run, pau and ph.  A session that runs or is     *)
(* paused is left alone, the next operation is started, and a record with  *)
(* nothing left to do is deleted.  A deleted record and a fresh one have   *)
(* the same fields, so deletion only takes the session out of the map.     *)
Pump(T, k, pend, run, pau, ph) ==
    LET able    == {s \in T \cap k : ~run[s] /\ ~pau[s]}
        started == {s \in able : pend[s] # <<>>}
    IN  /\ known' = k \ (able \ started)
        /\ pending' = [s \in Sessions |->
                         IF s \in started THEN Tail(pend[s]) ELSE pend[s]]
        /\ running' = [s \in Sessions |-> s \in started \/ run[s]]
        /\ paused' = pau
        /\ phase' = [e \in Entries |->
                       IF SessionOf[e] \in started /\ e = Head(pend[SessionOf[e]])
                       THEN "gate" ELSE ph[e]]

(* Bug: off by one. *)
FaultyWithout(q, i) == SubSeq(q, 1, i - 1) \o SubSeq(q, i + 2, Len(q))

(* The queue q without its i-th entry. *)
Without(q, i) == SubSeq(q, 1, i - 1) \o SubSeq(q, i + 1, Len(q))
----------------------------------------------------------------------------
Init ==
    /\ known = {}
    /\ pending = [s \in Sessions |-> <<>>]
    /\ running = [s \in Sessions |-> FALSE]
    /\ paused = [s \in Sessions |-> FALSE]
    /\ phase = [e \in Entries |-> "new"]
    /\ admitted = [e \in Entries |-> 0]
    /\ active = 0
    /\ waiting = <<>>
    /\ drain = "none"

(* enqueueEntry: queue the operation at one end, then pump its session. *)
Admit(e, queue) ==
    LET s == SessionOf[e]
    IN  /\ phase[e] \in Idlers
        /\ admitted[e] < MaxAdmissions
        /\ admitted' = [admitted EXCEPT ![e] = @ + 1]
        /\ Pump({s}, known \cup {s}, [pending EXCEPT ![s] = queue], running,
                paused, [phase EXCEPT ![e] = "pending"])
        /\ UNCHANGED <<semVars, drain>>

Enqueue(e) == Admit(e, Append(pending[SessionOf[e]], e))

EnqueueFirst(e) == Admit(e, <<e>> \o pending[SessionOf[e]])

(* Bug: the record is deleted also while an operation runs. *)
FaultyRemove(e) ==
    LET s == SessionOf[e]
    IN  \E i \in DOMAIN pending[s] :
          /\ pending[s][i] = e
          /\ pending' = [pending EXCEPT ![s] = Without(@, i)]
          /\ phase' = [phase EXCEPT ![e] = "removed"]
          /\ IF pending'[s] = <<>>
             THEN /\ known' = known \ {s}
                  /\ running' = [running EXCEPT ![s] = FALSE]
                  /\ paused' = [paused EXCEPT ![s] = FALSE]
             ELSE UNCHANGED <<known, running, paused>>
          /\ drain' = Resolved(known', pending', running')
          /\ UNCHANGED <<admitted, semVars>>

(* remove: a pending entry is taken out of its queue; the record is        *)
(* deleted, its paused flag with it, when nothing runs and nothing is left *)
Remove(e) ==
    LET s == SessionOf[e]
    IN  \E i \in DOMAIN pending[s] :
          /\ pending[s][i] = e
          /\ pending' = [pending EXCEPT ![s] = Without(@, i)]
          /\ phase' = [phase EXCEPT ![e] = "removed"]
          /\ IF ~running[s] /\ pending'[s] = <<>>
             THEN /\ known' = known \ {s}
                  /\ running' = [running EXCEPT ![s] = FALSE]
                  /\ paused' = [paused EXCEPT ![s] = FALSE]
             ELSE UNCHANGED <<known, running, paused>>
          /\ drain' = Resolved(known', pending', running')
          /\ UNCHANGED <<admitted, semVars>>

(* reorder: only to a list of exactly the pending entries; any other list  *)
(* throws "Queue changed" and changes nothing.  The caller, reorderQueue,  *)
(* has checked that no entry is listed twice.                              *)
Reorder(s, order) ==
    /\ pending[s] # <<>>
    /\ \A i, j \in DOMAIN order : order[i] = order[j] => i = j
    /\ \A i \in DOMAIN order : \E j \in DOMAIN pending[s] : order[i] = pending[s][j]
    /\ pending' = [pending EXCEPT ![s] = order]
    /\ UNCHANGED <<known, running, paused, phase, admitted, semVars, drain>>

(* Bug: the entry stays where it was as well. *)
FaultyPrioritize(e) ==
    LET s == SessionOf[e]
    IN  \E i \in DOMAIN pending[s] :
          /\ i > 1
          /\ pending[s][i] = e
          /\ pending' = [pending EXCEPT ![s] = <<e>> \o @]
          /\ UNCHANGED <<known, running, paused, phase, admitted, semVars, drain>>

(* prioritize: an entry that is not first moves to the head of its queue. *)
Prioritize(e) ==
    LET s == SessionOf[e]
    IN  \E i \in DOMAIN pending[s] :
          /\ i > 1
          /\ pending[s][i] = e
          /\ pending' = [pending EXCEPT ![s] = <<e>> \o Without(@, i)]
          /\ UNCHANGED <<known, running, paused, phase, admitted, semVars, drain>>

(* pause: by the operation of the session when its run asks the user       *)
(* (executeRun), or on a session without a record at startup               *)
(* (recoverQueuedRuns).  getSession creates the record.                    *)
Pause(s) ==
    /\ s \notin known \/ \E e \in EntriesOf(s) : phase[e] = "holding"
    /\ known' = known \cup {s}
    /\ paused' = [paused EXCEPT ![s] = TRUE]
    /\ UNCHANGED <<pending, running, phase, admitted, semVars, drain>>

(* Bug: the session is unpaused but not pumped. *)
FaultyResume(s) ==
    /\ s \in known
    /\ paused' = [paused EXCEPT ![s] = FALSE]
    /\ UNCHANGED <<known, pending, running, phase, admitted, semVars, drain>>

Resume(s) ==
    /\ s \in known
    /\ Pump({s}, known, pending, running, [paused EXCEPT ![s] = FALSE], phase)
    /\ drain' = IF s \in known' THEN drain ELSE Resolved(known', pending', running')
    /\ UNCHANGED <<admitted, semVars>>

(* drain: every session is unpaused and pumped, then the caller waits      *)
(* until the orchestrator is idle.                                         *)
Drain ==
    /\ drain = "none"
    /\ Pump(known, known, pending, running, [s \in Sessions |-> FALSE], phase)
    /\ drain' = IF Idle(known', pending', running') THEN "resolved" ELSE "waiting"
    /\ UNCHANGED <<admitted, semVars>>
----------------------------------------------------------------------------
(* The operation of an entry                                               *)

(* Semaphore.acquire takes a free permit at once ... *)
AcquireFree(e) ==
    /\ phase[e] = "gate"
    /\ active < Limit
    /\ active' = active + 1
    /\ phase' = [phase EXCEPT ![e] = "holding"]
    /\ UNCHANGED <<queueVars, admitted, waiting, drain>>

(* ... or queues the caller. *)
AcquireWait(e) ==
    /\ phase[e] = "gate"
    /\ active >= Limit
    /\ waiting' = Append(waiting, e)
    /\ phase' = [phase EXCEPT ![e] = "waiting"]
    /\ UNCHANGED <<queueVars, admitted, active, drain>>

(* Bug: the continuation takes the permit for counted. *)
FaultyAcquireContinue(e) ==
    /\ phase[e] = "handed"
    /\ phase' = [phase EXCEPT ![e] = "holding"]
    /\ UNCHANGED <<queueVars, admitted, active, waiting, drain>>

(* The continuation of a waiter whose promise was resolved: it counts      *)
(* itself without looking at the limit again.                              *)
AcquireContinue(e) ==
    /\ phase[e] = "handed"
    /\ active' = active + 1
    /\ phase' = [phase EXCEPT ![e] = "holding"]
    /\ UNCHANGED <<queueVars, admitted, waiting, drain>>

(* Bugs: nobody is woken; the waiter is taken out and forgotten; an        *)
(* operation that never acquired releases as well.                         *)
FaultyReleaseWakesNone(e) ==
    /\ phase[e] = "holding"
    /\ active' = active - 1
    /\ phase' = [phase EXCEPT ![e] = "released"]
    /\ UNCHANGED <<queueVars, admitted, waiting, drain>>

FaultyReleaseDrops(e) ==
    /\ phase[e] = "holding"
    /\ active' = active - 1
    /\ waiting' = IF waiting = <<>> THEN waiting ELSE Tail(waiting)
    /\ phase' = [phase EXCEPT ![e] = "released"]
    /\ UNCHANGED <<queueVars, admitted, drain>>

FaultyReleaseUnheld(e) ==
    /\ phase[e] \in {"gate", "holding"}
    /\ active' = active - 1
    /\ waiting' = IF waiting = <<>> THEN waiting ELSE Tail(waiting)
    /\ phase' = [f \in Entries |->
                   IF f = e THEN "released"
                   ELSE IF waiting # <<>> /\ f = Head(waiting) THEN "handed"
                   ELSE phase[f]]
    /\ UNCHANGED <<queueVars, admitted, drain>>

(* The release closure: give the permit back, wake the first waiter. *)
Release(e) ==
    /\ phase[e] = "holding"
    /\ active' = active - 1
    /\ waiting' = IF waiting = <<>> THEN waiting ELSE Tail(waiting)
    /\ phase' = [f \in Entries |->
                   IF f = e THEN "released"
                   ELSE IF waiting # <<>> /\ f = Head(waiting) THEN "handed"
                   ELSE phase[f]]
    /\ UNCHANGED <<queueVars, admitted, drain>>

(* Bugs: the finally does not pump; it does not wake drain. *)
FaultyFinishStops(e) ==
    /\ phase[e] \in {"released", "gate"}
    /\ running' = [running EXCEPT ![SessionOf[e]] = FALSE]
    /\ phase' = [phase EXCEPT ![e] = "done"]
    /\ UNCHANGED <<known, pending, paused, admitted, semVars, drain>>

FaultyFinishSilent(e) ==
    LET s == SessionOf[e]
    IN  /\ phase[e] \in {"released", "gate"}
        /\ Pump({s}, known, pending, [running EXCEPT ![s] = FALSE], paused,
                [phase EXCEPT ![e] = "done"])
        /\ UNCHANGED <<admitted, semVars, drain>>

(* The finally of pump.  An operation that fails before it asks for a      *)
(* permit, in the gate or in a replay, ends here too.                      *)
Finish(e) ==
    LET s == SessionOf[e]
    IN  /\ phase[e] \in {"released", "gate"}
        /\ Pump({s}, known, pending, [running EXCEPT ![s] = FALSE], paused,
                [phase EXCEPT ![e] = "done"])
        /\ drain' = IF s \in known' THEN drain ELSE Resolved(known', pending', running')
        /\ UNCHANGED <<admitted, semVars>>
----------------------------------------------------------------------------
Caller ==
    \/ \E e \in Entries : Enqueue(e) \/ EnqueueFirst(e) \/ Remove(e) \/ Prioritize(e)
    \/ \E s \in Sessions :
          \/ Pause(s)
          \/ Resume(s)
          \/ \E order \in [DOMAIN pending[s] -> Entries] : Reorder(s, order)
    \/ Drain

Operation(e) ==
    AcquireFree(e) \/ AcquireWait(e) \/ AcquireContinue(e) \/ Release(e) \/ Finish(e)

Next == Caller \/ \E e \in Entries : Operation(e)

(* The gate of an operation opens for certain only when the runtime stops: *)
(* waitForSideEffectGate polls for as long as a decision of the user is    *)
(* missing, and returns once stop has set stopping, before it calls drain. *)
Ungated(e) ==
    drain # "none" /\ phase[e] = "gate" /\ (AcquireFree(e) \/ AcquireWait(e) \/ Finish(e))

(* Behind the gate an operation is driven by the event loop and ends:      *)
(* model requests, tools and the approvals of a tool call have timeouts.   *)
(* Neither the user, who opens the gate, nor a caller owes anything.       *)
Behind(e) ==
    AcquireContinue(e) \/ Release(e) \/ (phase[e] = "released" /\ Finish(e))

Fairness == \A e \in Entries : WF_vars(Behind(e)) /\ WF_vars(Ungated(e))

Spec == Init /\ [][Next]_vars
FairSpec == Spec /\ Fairness
----------------------------------------------------------------------------
(* Properties                                                              *)

(* The types of the variables. *)
TypeOK ==
    /\ known \subseteq Sessions
    /\ pending \in [Sessions -> Seq(Entries)]
    /\ running \in [Sessions -> BOOLEAN]
    /\ paused \in [Sessions -> BOOLEAN]
    /\ phase \in [Entries -> Phases]
    /\ admitted \in [Entries -> 0..MaxAdmissions]
    /\ active \in Nat
    /\ waiting \in Seq(Entries)
    /\ drain \in {"none", "waiting", "resolved"}

(* At most one operation of a session is between its start and its end:    *)
(* the promise of pump, whatever enqueue, remove, resume and drain do to   *)
(* the record while the operation runs.                                    *)
SerialSessions ==
    \A e, f \in Entries :
        phase[e] \in Executing /\ phase[f] \in Executing /\ SessionOf[e] = SessionOf[f]
            => e = f

(* The running flag of the record in the map speaks for the operation that *)
(* runs: it is never lost with a deleted record, never left behind.        *)
RunningFlag ==
    \A s \in Sessions :
        running[s] <=> s \in known /\ \E e \in EntriesOf(s) : phase[e] \in Executing

(* An admitted operation is in its session's queue exactly once until it   *)
(* is started or removed: reordering, priorities, removals and the pump    *)
(* lose none and duplicate none.                                           *)
QueuedOnce ==
    /\ \A s \in Sessions : \A i \in 1..Len(pending[s]) :
          SessionOf[pending[s][i]] = s /\ phase[pending[s][i]] = "pending"
    /\ \A s \in Sessions : \A i, j \in 1..Len(pending[s]) :
          pending[s][i] = pending[s][j] => i = j
    /\ \A e \in Entries : phase[e] = "pending" =>
          \E i \in 1..Len(pending[SessionOf[e]]) : pending[SessionOf[e]][i] = e

(* No lost wake-up: work is left in a queue only behind an operation that  *)
(* will pump it, or in a paused session.                                   *)
WorkConserving ==
    \A s \in Sessions : pending[s] # <<>> => s \in known /\ (running[s] \/ paused[s])

(* The semaphore counts the permits that are held, whatever order permits  *)
(* are released, handed over and taken in.                                 *)
PermitsCounted ==
    active = Cardinality({e \in Entries : phase[e] = "holding"})

(* No lost permit: while someone waits, every permit is held or on its way *)
(* to a waiter that was woken.                                             *)
NoIdlePermit ==
    waiting # <<>> =>
        active + Cardinality({e \in Entries : phase[e] = "handed"}) >= Limit

(* runtime.maxParallelSessions is the upper bound of concurrency across    *)
(* sessions (README.md:130).  Semaphore admits more: between the release   *)
(* that wakes a waiter and the continuation that counts it, a caller of    *)
(* acquire finds the count below the limit and is admitted as well.        *)
ParallelLimit == active <= Limit

(* A drained orchestrator is quiet: at the moment drain() resolves, no     *)
(* operation runs and none is queued, in any session.                      *)
DrainedMeansQuiet ==
    [][drain # "resolved" /\ drain' = "resolved" =>
         \A e \in Entries : phase'[e] \in Idlers]_vars

(* A queued operation is eventually started or removed, unless its session *)
(* is paused or an operation of its session stays at the side-effect gate, *)
(* which waits without a timeout for the user (WaitsAtGate): a finished,   *)
(* removed or resumed predecessor always pumps.                            *)
WaitsAtGate(s) == \E e \in EntriesOf(s) : <>[](phase[e] = "gate")

QueuedProgress ==
    \A e \in Entries :
        \/ phase[e] = "pending" ~> (phase[e] # "pending" \/ paused[SessionOf[e]])
        \/ WaitsAtGate(SessionOf[e])

(* A caller of acquire is eventually given a permit: none is overtaken for *)
(* ever by callers that find a free permit.                                *)
WaiterServed ==
    \A e \in Entries : phase[e] = "waiting" ~> phase[e] = "holding"

(* drain() returns once the work is done, unless an operation pauses its   *)
(* session after drain has unpaused it: pump then returns before it deletes *)
(* the record, and nothing wakes the waiter.                               *)
DrainReturns ==
    drain = "waiting" ~> (drain = "resolved" \/ \E s \in Sessions : paused[s])
=============================================================================
