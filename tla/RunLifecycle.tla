----------------------------- MODULE RunLifecycle -----------------------------
(***************************************************************************)
(* The life of the runs of one session: UmaRuntime                         *)
(* (packages/core/src/runtime.ts) with the command operations              *)
(* (runtime-command-operations.ts), the action ledger of database.ts, the  *)
(* session's queue of run-orchestrator.ts and the recovery after a restart *)
(* (database.ts, run-recovery.ts, runtime-recovery.ts).                    *)
(*                                                                         *)
(* A step is what the event loop does between two points where the code    *)
(* waits for something outside: an HTTP request, a model, a tool, a user,  *)
(* a timer.  What only waits for a microtask is part of the step.  The     *)
(* database survives a crash; everything else is lost.                     *)
(*                                                                         *)
(* Not in the model: other sessions (RunOrchestrator has them; here a      *)
(* permit simply takes some time), texts, events, responses and traces.    *)
(***************************************************************************)
EXTENDS Integers, Sequences, FiniteSets

CONSTANTS Runs,               \* run ids
          Actions,            \* tool calls, each made at most once by its run
          RunOf,              \* action -> run
          SideEffects,        \* actions that are neither read nor attachment_read
          CommandActions,     \* the shell actions of the commands, one per command run
          Kind,               \* run -> "direct", "plan" (modes agent, plan) or "command"
          PlanSteps,          \* number of steps of a plan
          ClarificationLimit, \* 3 in sendMessage
          RecoveryLimit,      \* MAX_AUTOMATIC_RECOVERY_ATTEMPTS
          QueueModes,         \* the queue modes in use: {"queue", "preemptive"}
          MaxCrashes,         \* bound of the model: crashes
          MaxStops            \* bound of the model: graceful stops

ASSUME ActionsAssumption ==
    /\ RunOf \in [Actions -> Runs]
    /\ SideEffects \subseteq Actions
    /\ CommandActions \subseteq SideEffects
ASSUME RunsAssumption == IsFiniteSet(Runs)
ASSUME KindAssumption == Kind \in [Runs -> {"direct", "plan", "command"}]
ASSUME LimitsAssumption ==
    /\ PlanSteps \in Nat \ {0} /\ ClarificationLimit \in Nat /\ RecoveryLimit \in Nat
    /\ MaxCrashes \in Nat /\ MaxStops \in Nat
    /\ QueueModes \subseteq {"queue", "preemptive"}

VARIABLES
    \* the database
    status,      \* run -> runs.status ("none": not created)
    created,     \* the runs in the order of created_at
    route,       \* run -> runs.route ("none", "direct", "plan", "clarify")
    clarified,   \* run -> runs.clarification_count
    safe,        \* run -> safe_to_resume of its latest checkpoint
    restarted,   \* run -> its error is SERVER_RESTART_ERROR
    attempts,    \* run -> restart_recovery audit entries
    stepsDone,   \* run -> completed steps of its plan
    act,         \* action -> run_actions.status ("none": not recorded)
    \* the process
    up,          \* "up", "stopping" or "down"
    queue,       \* the session's pending entries in the orchestrator
    busy,        \* its running flag
    paused,      \* its paused flag
    pc,          \* run -> where its operation is
    how,         \* run -> the closure it was enqueued with, or "lost" when
                 \* its replay threw
    controllers, \* runs with an AbortController
    aborted,     \* runs whose controller was aborted
    deaf,        \* runs whose agent loop missed the abort
    preempted,   \* preemptedRuns
    tool,        \* action -> what the process does with it
    reconciling, \* runs with a read-only reconciliation under way
    recoverable, \* what recoverRestartedRuns has left to do
    \* bookkeeping of the model
    begun,       \* action -> how often its tool was started
    crashes, stops

dbVars == <<status, created, route, clarified, safe, restarted, attempts, stepsDone>>
ledger == <<act, begun>>
orch == <<queue, busy, paused>>
signals == <<controllers, aborted, deaf, preempted>>
ops == <<pc, how>>
outside == <<up, reconciling, recoverable, crashes, stops>>
vars == <<dbVars, ledger, orch, signals, ops, tool, outside>>

Statuses == {"none", "queued", "preflight", "running", "verifying", "awaiting_input",
             "awaiting_confirmation", "completed", "failed", "cancelled", "interrupted"}
ActiveStatuses == {"preflight", "running", "verifying"}
TerminalStatuses == {"completed", "failed", "cancelled"}
PendingStatuses == {"prepared", "running", "uncertain"}

(* Places of an operation. "loop" and "redo" are agent loops: the work of  *)
(* the run, or of a plan step, and the correction after verification;      *)
(* "build" and "rebuild" assemble their context.                           *)
Loops == {"loop", "redo"}
Places == {"idle", "replay", "gate", "permit", "preflight", "build", "rebuild",
           "verify", "memory", "command"} \cup Loops

ActionsOf(r) == {a \in Actions : RunOf[a] = r}
Reads == Actions \ SideEffects

(* Runs that executeRun executes: a command that is resumed becomes one.   *)
AsAgent(r) == Kind[r] # "command" \/ how[r] = "resume"
----------------------------------------------------------------------------
(* Helpers                                                                 *)

(* hasPendingSideEffects *)
Undecided(r) == \E a \in ActionsOf(r) \cap SideEffects : act[a] \in PendingStatuses
PendingSideEffects ==
    \E r \in Runs : status[r] \notin TerminalStatuses \cup {"none"} /\ Undecided(r)

(* updateRun, and transitionRun with the error of the run cleared. *)
UpdateRun(r, to) == status' = [status EXCEPT ![r] = to]
TransitionRun(r, to) == UpdateRun(r, to) /\ restarted' = [restarted EXCEPT ![r] = FALSE]

(* createCheckpoint, and for a result that deserves one. *)
Checkpoint(r, ok) == safe' = [safe EXCEPT ![r] = ok]
CheckpointIf(ok, r) == IF ok THEN Checkpoint(r, TRUE) ELSE UNCHANGED safe

(* createRunAction; transitionRunAction, which leaves an action alone that *)
(* is not in one of the expected states; updatePlanStep of a plan's steps. *)
RecordAction(a, at) == act' = [act EXCEPT ![a] = at]
TransitionAction(a, expected, to) ==
    act' = [act EXCEPT ![a] = IF @ \in expected THEN to ELSE @]
CompleteSteps(r, done) == stepsDone' = [stepsDone EXCEPT ![r] = done]

(* The agent loop of r has been told to stop. *)
Stopped(r) == r \in aborted \ deaf

(* pump with queue q, paused flag p and places pcs, when nothing runs. *)
Pump(q, p, pcs) ==
    /\ paused' = p
    /\ IF p \/ q = <<>>
       THEN queue' = q /\ busy' = FALSE /\ pc' = pcs
       ELSE /\ queue' = Tail(q)
            /\ busy' = TRUE
            /\ pc' = [pcs EXCEPT ![Head(q)] =
                        IF how'[Head(q)] = "resume" THEN "replay" ELSE "gate"]

(* enqueue, or enqueueFirst followed by resume: the queue becomes q. *)
Queue(r, q, closure, p) ==
    /\ how' = [how EXCEPT ![r] = closure]
    /\ IF busy THEN queue' = q /\ paused' = p /\ UNCHANGED <<busy, pc>>
               ELSE Pump(q, p, pc)

(* Each definition "Faulty..." is a plausible bug of the one after it; the *)
(* properties are shown to notice it.  Here: the next entry is not started *)
FaultyEnd(r, p) ==
    /\ controllers' = controllers \ {r}
    /\ aborted' = aborted \ {r}
    /\ deaf' = deaf \ {r}
    /\ pc' = [pc EXCEPT ![r] = "idle"]
    /\ busy' = FALSE
    /\ paused' = p
    /\ UNCHANGED <<how, queue>>

(* The closure of r ends: finally of executeRun or execute, then of pump.  *)
EndsWith(r, p) ==
    /\ controllers' = controllers \ {r}
    /\ aborted' = aborted \ {r}
    /\ deaf' = deaf \ {r}
    /\ Pump(queue, p, [pc EXCEPT ![r] = "idle"])

End(r, p) == UNCHANGED how /\ EndsWith(r, p)

(* Bug: a preempted run keeps its status. *)
FaultyFail(r) ==
    /\ status' = IF r \in preempted THEN status
                 ELSE [status EXCEPT ![r] = IF r \in aborted THEN "cancelled" ELSE "failed"]
    /\ restarted' = [restarted EXCEPT ![r] = FALSE]
    /\ preempted' = preempted \ {r}
    /\ End(r, paused)

(* The catch of executeRun and of execute. *)
Fail(r) ==
    /\ LET uncertain == \E a \in ActionsOf(r) : act'[a] = "uncertain"
           asked     == ~AsAgent(r) \/ r \in preempted
       IN  status' = [status EXCEPT ![r] =
                        IF uncertain /\ asked THEN "interrupted"
                        ELSE IF r \in aborted THEN "cancelled" ELSE "failed"]
    /\ restarted' = [restarted EXCEPT ![r] = FALSE]
    /\ preempted' = IF AsAgent(r) THEN preempted \ {r} ELSE preempted
    /\ End(r, paused)

(* Bug: every interrupted action may be executed again. *)
FaultyInterrupted(S) ==
    [a \in Actions |-> IF a \in S /\ act[a] = "running" THEN "prepared" ELSE act[a]]

(* interruptRunActions *)
Interrupted(S) ==
    [a \in Actions |->
       IF a \notin S \/ act[a] # "running" THEN act[a]
       ELSE IF a \in SideEffects THEN "uncertain" ELSE "prepared"]
----------------------------------------------------------------------------
Init ==
    /\ status = [r \in Runs |-> "none"]
    /\ created = <<>>
    /\ route = [r \in Runs |-> "none"]
    /\ clarified = [r \in Runs |-> 0]
    /\ safe = [r \in Runs |-> FALSE]
    /\ restarted = [r \in Runs |-> FALSE]
    /\ attempts = [r \in Runs |-> 0]
    /\ stepsDone = [r \in Runs |-> 0]
    /\ act = [a \in Actions |-> "none"]
    /\ up = "up"
    /\ queue = <<>>
    /\ busy = FALSE
    /\ paused = FALSE
    /\ pc = [r \in Runs |-> "idle"]
    /\ how = [r \in Runs |-> "fresh"]
    /\ controllers = {}
    /\ aborted = {}
    /\ deaf = {}
    /\ preempted = {}
    /\ tool = [a \in Actions |-> "idle"]
    /\ reconciling = {}
    /\ recoverable = {}
    /\ begun = [a \in Actions |-> 0]
    /\ crashes = 0
    /\ stops = 0
----------------------------------------------------------------------------
(* Requests of the user                                                    *)

Awaiting == {r \in Runs : status[r] = "awaiting_input"}

(* sendMessage and sendCommand create the run and enqueue it. *)
Create(r) ==
    /\ created' = Append(created, r)
    /\ Queue(r, Append(queue, r), "fresh", paused)
    /\ UNCHANGED <<route, clarified, safe, restarted, attempts, stepsDone>>

(* sendMessage in queue mode. *)
SendQueued(r) ==
    /\ up = "up"
    /\ "queue" \in QueueModes
    /\ status[r] = "none" /\ Kind[r] # "command"
    /\ Awaiting = {}
    /\ UpdateRun(r, "queued")
    /\ Create(r)
    /\ UNCHANGED <<ledger, signals, tool, outside>>

(* The run that sendMessage preempts: the first in the order of creation.  *)
Preemptable == {"awaiting_confirmation"} \cup ActiveStatuses
Victims ==
    {created[i] : i \in {j \in DOMAIN created :
        /\ status[created[j]] \in Preemptable
        /\ \A k \in 1..(j - 1) : status[created[k]] \notin Preemptable}}

(* sendMessage in preemptive mode: the actions of the active run that are  *)
(* under way become prepared or uncertain, its controller is aborted, and  *)
(* every queued run is cancelled in the database.  Their entries stay in   *)
(* the orchestrator's queue.                                               *)
SendPreempting(r) ==
    /\ up = "up"
    /\ "preemptive" \in QueueModes
    /\ status[r] = "none" /\ Kind[r] # "command"
    /\ Awaiting = {}
    /\ act' = Interrupted(UNION {ActionsOf(v) : v \in Victims})
    /\ preempted' = preempted \cup Victims
    /\ aborted' = aborted \cup (Victims \cap controllers)
    /\ status' = [q \in Runs |-> IF q = r THEN "queued"
                                 ELSE IF status[q] = "queued" THEN "cancelled"
                                 ELSE status[q]]
    /\ Create(r)
    /\ UNCHANGED <<begun, controllers, deaf, tool, outside>>

(* Bugs: one clarification too many; the session is resumed but the run    *)
(* is not enqueued.                                                        *)
FaultyClarifyOnce(r) ==
    /\ up = "up"
    /\ status[r] = "awaiting_input"
    /\ clarified[r] <= ClarificationLimit
    /\ status' = [status EXCEPT ![r] = "queued"]
    /\ clarified' = [clarified EXCEPT ![r] = @ + 1]
    /\ Queue(r, <<r>> \o queue, "fresh", FALSE)
    /\ UNCHANGED <<created, route, safe, restarted, attempts, stepsDone,
                   ledger, signals, tool, outside>>

FaultyClarify(r) ==
    /\ up = "up"
    /\ status[r] = "awaiting_input"
    /\ clarified[r] < ClarificationLimit
    /\ status' = [status EXCEPT ![r] = "queued"]
    /\ clarified' = [clarified EXCEPT ![r] = @ + 1]
    /\ Queue(r, queue, "fresh", FALSE)
    /\ UNCHANGED <<created, route, safe, restarted, attempts, stepsDone,
                   ledger, signals, tool, outside>>

(* sendMessage while a run waits for the user: the message continues it.   *)
Clarify(r) ==
    /\ up = "up"
    /\ status[r] = "awaiting_input"
    /\ clarified[r] < ClarificationLimit
    /\ UpdateRun(r, "queued")
    /\ clarified' = [clarified EXCEPT ![r] = @ + 1]
    /\ Queue(r, <<r>> \o queue, "fresh", FALSE)
    /\ UNCHANGED <<created, route, safe, restarted, attempts, stepsDone,
                   ledger, signals, tool, outside>>

(* One clarification too many fails the run and refuses the message. *)
ClarifyTooOften(r) ==
    /\ up = "up"
    /\ status[r] = "awaiting_input"
    /\ clarified[r] >= ClarificationLimit
    /\ UpdateRun(r, "failed")
    /\ UNCHANGED <<created, route, clarified, safe, restarted, attempts, stepsDone,
                   ledger, orch, ops, signals, tool, outside>>

SendCommand(r) ==
    /\ up = "up"
    /\ status[r] = "none" /\ Kind[r] = "command"
    /\ UpdateRun(r, "queued")
    /\ Create(r)
    /\ UNCHANGED <<ledger, signals, tool, outside>>

(* Bug: the confirmed run is not enqueued. *)
FaultyConfirmPlan(r) ==
    /\ up # "down"
    /\ status[r] = "awaiting_confirmation"
    /\ status' = [status EXCEPT ![r] = "queued"]
    /\ UNCHANGED <<created, route, clarified, safe, restarted, attempts, stepsDone,
                   ledger, orch, ops, signals, tool, outside>>

(* confirmPlan *)
ConfirmPlan(r) ==
    /\ up # "down"
    /\ status[r] = "awaiting_confirmation"
    /\ TransitionRun(r, "queued")
    /\ Queue(r, Append(queue, r), "confirm", paused)
    /\ UNCHANGED <<created, route, clarified, safe, attempts, stepsDone,
                   ledger, signals, tool, outside>>

(* Queue q without its entry at i. *)
Without(q, i) == [j \in 1..(Len(q) - 1) |-> IF j < i THEN q[j] ELSE q[j + 1]]

(* cancelRun of a queued run takes its entry out of the queue; when nothing *)
(* is left the orchestrator forgets the session, its paused flag included.  *)
CancelQueued(r) ==
    /\ up # "down"
    /\ status[r] = "queued"
    /\ UpdateRun(r, "cancelled")
    /\ \/ \E i \in DOMAIN queue :
             /\ queue[i] = r /\ \A j \in 1..(i - 1) : queue[j] # r
             /\ queue' = Without(queue, i)
             /\ paused' = (paused /\ (busy \/ queue' # <<>>))
       \/ /\ \A i \in DOMAIN queue : queue[i] # r
          /\ UNCHANGED <<queue, paused>>
    /\ UNCHANGED <<created, route, clarified, safe, restarted, attempts, stepsDone,
                   ledger, busy, ops, signals, tool, outside>>

(* cancelRun of a run with a controller, and cancel. *)
CancelActive(r) ==
    /\ up # "down"
    /\ r \in controllers
    /\ aborted' = aborted \cup {r}
    /\ UNCHANGED <<dbVars, ledger, orch, ops, controllers, deaf, preempted, tool, outside>>

(* resumeRun, by the user or by the recovery after a restart. *)
Resumable(r) == status[r] = "interrupted" /\ ~Undecided(r)

Requeue(r) ==
    /\ TransitionRun(r, "queued")
    /\ Queue(r, Append(queue, r), "resume", paused)
    /\ UNCHANGED <<created, route, clarified, safe, stepsDone, ledger, signals, tool>>

ResumeRun(r) ==
    /\ up # "down"
    /\ Resumable(r)
    /\ Requeue(r)
    /\ UNCHANGED <<attempts, outside>>
----------------------------------------------------------------------------
(* decideRunAction                                                         *)

(* reject: the action is rejected and its run fails, whatever it is doing. *)
Reject(a) ==
    LET r == RunOf[a]
    IN  /\ up # "down"
        /\ act[a] \in {"prepared", "uncertain"}
        /\ TransitionAction(a, {"prepared", "uncertain"}, "rejected")
        /\ TransitionRun(r, "failed")
        /\ UNCHANGED <<created, route, clarified, safe, attempts, stepsDone,
                       begun, orch, ops, signals, tool, outside>>

(* acknowledge: the user has looked; a read-only agent loop reconciles. *)
Acknowledge(a) ==
    /\ up # "down"
    /\ act[a] = "uncertain"
    /\ TransitionAction(a, {"uncertain"}, "acknowledged")
    /\ reconciling' = reconciling \cup {RunOf[a]}
    /\ UNCHANGED <<dbVars, begun, orch, ops, signals, tool,
                   up, recoverable, crashes, stops>>

(* reconcileAcknowledgedAction ends with a safe checkpoint, or fails after  *)
(* whatever checkpoint its loop left.  It calls read-only tools, which are  *)
(* not followed here.                                                      *)
Reconciled(r) ==
    /\ r \in reconciling
    /\ reconciling' = reconciling \ {r}
    /\ \E ok \in BOOLEAN : Checkpoint(r, ok)
    /\ UNCHANGED <<status, created, route, clarified, restarted, attempts, stepsDone,
                   ledger, orch, ops, signals, tool, up, recoverable, crashes, stops>>

(* approve: the prepared action of an interrupted run is executed outside  *)
(* the session's queue (executePreparedAction, executeRecoveredAction).    *)
ApproveRecovered(a) ==
    /\ up # "down"
    /\ status[RunOf[a]] = "interrupted"
    /\ act[a] = "prepared"
    /\ TransitionAction(a, {"prepared"}, "running")
    /\ begun' = [begun EXCEPT ![a] = @ + 1]
    /\ tool' = [tool EXCEPT ![a] = "recovering"]
    /\ UNCHANGED <<dbVars, orch, ops, signals, outside>>

(* executeRecoveredAction ends for an approved or a replayed action: a     *)
(* result adds a safe checkpoint, an error adds none.                      *)
RecoveredEnds(a, ok) ==
    /\ tool[a] = "recovering"
    /\ pc[RunOf[a]] # "command"
    /\ tool' = [tool EXCEPT ![a] = "idle"]
    /\ TransitionAction(a, {"running"}, IF ok THEN "completed" ELSE "failed")
    /\ CheckpointIf(ok, RunOf[a])
    /\ UNCHANGED <<status, created, route, clarified, restarted, attempts, stepsDone,
                   begun, orch, ops, signals, outside>>
----------------------------------------------------------------------------
(* The operation of a run, up to its first status                          *)

(* replaySafeActions: reads left prepared are executed again, in turn. *)
ReplayRead(a) ==
    LET r == RunOf[a]
    IN  /\ pc[r] = "replay"
        /\ a \in Reads /\ act[a] = "prepared"
        /\ \A b \in ActionsOf(r) : tool[b] # "recovering"
        /\ TransitionAction(a, {"prepared"}, "running")
        /\ begun' = [begun EXCEPT ![a] = @ + 1]
        /\ tool' = [tool EXCEPT ![a] = "recovering"]
        /\ UNCHANGED <<dbVars, orch, ops, signals, outside>>

(* executeRecoveredAction throws, before it touches the ledger, when the    *)
(* tool of the read is no longer available: the closure of resumeRun is     *)
(* rejected and ends.  Its run keeps its status, so that a queued run stays *)
(* queued without an entry until the user cancels it or the process starts  *)
(* anew; the replay has lost it.                                            *)
ReplayFails(r) ==
    /\ pc[r] = "replay"
    /\ \A a \in ActionsOf(r) : tool[a] # "recovering"
    /\ \E a \in ActionsOf(r) \cap Reads : act[a] = "prepared"
    /\ how' = [how EXCEPT ![r] = "lost"]
    /\ EndsWith(r, paused)
    /\ UNCHANGED <<dbVars, ledger, preempted, tool, outside>>

(* Nothing is left to replay. *)
ReplayDone(r) ==
    /\ pc[r] = "replay"
    /\ \A a \in ActionsOf(r) :
          tool[a] # "recovering" /\ ~(a \in Reads /\ act[a] = "prepared")
    /\ pc' = [pc EXCEPT ![r] = "gate"]
    /\ UNCHANGED <<dbVars, ledger, orch, how, signals, tool, outside>>

(* Bug: the gate looks only at the run that waits, not at its session. *)
FaultyPassGate(r) ==
    /\ pc[r] = "gate"
    /\ ~Undecided(r) \/ up = "stopping" \/ status[r] = "cancelled"
    /\ pc' = [pc EXCEPT ![r] = "permit"]
    /\ UNCHANGED <<dbVars, ledger, orch, how, signals, tool, outside>>

(* waitForSideEffectGate returns, then the operation asks for a permit.  It *)
(* also returns for a cancelled run and for every run when the runtime      *)
(* stops: what follows has to look again.                                   *)
PassGate(r) ==
    /\ pc[r] = "gate"
    /\ ~PendingSideEffects \/ up = "stopping" \/ status[r] = "cancelled"
    /\ pc' = [pc EXCEPT ![r] = "permit"]
    /\ UNCHANGED <<dbVars, ledger, orch, how, signals, tool, outside>>

(* The permit is there, but the run was cancelled, or (executeRun only) the *)
(* runtime is stopping.                                                     *)
Discard(r) ==
    /\ pc[r] = "permit"
    /\ \/ status[r] = "cancelled" /\ UNCHANGED <<status, restarted>>
       \/ /\ status[r] # "cancelled"
          /\ up = "stopping" /\ AsAgent(r)
          /\ TransitionRun(r, "cancelled")
    /\ End(r, paused)
    /\ UNCHANGED <<created, route, clarified, safe, attempts, stepsDone,
                   ledger, preempted, tool, outside>>

(* Bug: the status is not looked at again once the permit is there. *)
FaultyBegin(r) ==
    /\ pc[r] = "permit"
    /\ AsAgent(r) /\ up # "stopping"
    /\ controllers' = controllers \cup {r}
    /\ status' = [status EXCEPT ![r] = "preflight"]
    /\ restarted' = [restarted EXCEPT ![r] = FALSE]
    /\ pc' = [pc EXCEPT ![r] = "preflight"]
    /\ UNCHANGED <<created, route, clarified, safe, attempts, stepsDone, ledger, orch, how,
                   aborted, deaf, preempted, tool, outside>>

(* executeRun: the run enters preflight with a new controller. *)
Begin(r) ==
    /\ pc[r] = "permit"
    /\ AsAgent(r) /\ status[r] # "cancelled" /\ up # "stopping"
    /\ controllers' = controllers \cup {r}
    /\ TransitionRun(r, "preflight")
    /\ pc' = [pc EXCEPT ![r] = "preflight"]
    /\ UNCHANGED <<created, route, clarified, safe, attempts, stepsDone, ledger, orch, how,
                   aborted, deaf, preempted, tool, outside>>

(* A resumed or confirmed run that has a route keeps it. *)
Routed(r) == how[r] # "fresh" /\ route[r] \in {"direct", "plan"}

(* Preflight has decided: one transaction stores the route, a checkpoint   *)
(* and the next status.  The questions to the user pause the session.      *)
Ask(r) ==
    /\ pc[r] = "preflight" /\ r \notin aborted
    /\ ~Routed(r)
    /\ route' = [route EXCEPT ![r] = "clarify"]
    /\ Checkpoint(r, TRUE)
    /\ TransitionRun(r, "awaiting_input")
    /\ End(r, TRUE)
    /\ UNCHANGED <<created, clarified, attempts, stepsDone, ledger, preempted, tool, outside>>

(* A plan is confirmed by the user unless the account approves everything. *)
AskConfirmation(r) ==
    /\ pc[r] = "preflight" /\ r \notin aborted
    /\ Kind[r] = "plan" /\ how[r] = "fresh"
    /\ route' = [route EXCEPT ![r] = "plan"]
    /\ Checkpoint(r, TRUE)
    /\ TransitionRun(r, "awaiting_confirmation")
    /\ End(r, paused)
    /\ UNCHANGED <<created, clarified, attempts, stepsDone, ledger, preempted, tool, outside>>

(* Otherwise the run starts to work; a plan skips the steps it completed   *)
(* before, and is verified at once when none is left.                      *)
Route(r) ==
    /\ pc[r] = "preflight" /\ r \notin aborted
    /\ LET next == IF Routed(r) THEN route[r] ELSE IF Kind[r] = "plan" THEN "plan" ELSE "direct"
           over == next = "plan" /\ stepsDone[r] = PlanSteps
       IN  /\ route' = [route EXCEPT ![r] = next]
           /\ status' = [status EXCEPT ![r] = IF over THEN "verifying" ELSE "running"]
           /\ pc' = [pc EXCEPT ![r] = IF over THEN "verify" ELSE "build"]
    /\ Checkpoint(r, TRUE)
    /\ UNCHANGED <<created, clarified, restarted, attempts, stepsDone,
                   ledger, orch, how, signals, tool, outside>>

(* Preflight, the context, verification or memory extraction throw.  Only  *)
(* extractMemories swallows an abort.                                      *)
Throw(r) ==
    /\ pc[r] \in {"preflight", "build", "rebuild", "verify", "memory"}
    /\ UNCHANGED act
    /\ Fail(r)
    /\ UNCHANGED <<created, route, clarified, safe, attempts, stepsDone,
                   begun, tool, outside>>
----------------------------------------------------------------------------
(* The agent loop (runAgent)                                               *)

(* The context is built and the loop starts.  The abort listener is        *)
(* registered only now: an abort that came before it is never heard.       *)
StartLoop(r) ==
    /\ pc[r] \in {"build", "rebuild"}
    /\ pc' = [pc EXCEPT ![r] = IF @ = "build" THEN "loop" ELSE "redo"]
    /\ deaf' = IF r \in aborted THEN deaf \cup {r} ELSE deaf
    /\ UNCHANGED <<dbVars, ledger, orch, how, controllers, aborted, preempted, tool, outside>>

(* A model message ends: a safe checkpoint. *)
ModelMessage(r) ==
    /\ pc[r] \in Loops /\ ~Stopped(r)
    /\ \A a \in ActionsOf(r) : tool[a] = "idle"
    /\ Checkpoint(r, TRUE)
    /\ UNCHANGED <<status, created, route, clarified, restarted, attempts, stepsDone,
                   ledger, orch, ops, signals, tool, outside>>

(* tool_execution_start records the action; beforeToolCall asks for an     *)
(* approval, or lets the tool run at once.                                 *)
CallTool(a, ask) ==
    LET r == RunOf[a]
    IN  /\ pc[r] \in Loops /\ ~Stopped(r)
        /\ act[a] = "none" /\ a \notin CommandActions
        /\ RecordAction(a, IF ask THEN "prepared" ELSE "running")
        /\ begun' = IF ask THEN begun ELSE [begun EXCEPT ![a] = @ + 1]
        /\ tool' = [tool EXCEPT ![a] = IF ask THEN "deciding" ELSE "executing"]
        /\ UNCHANGED <<dbVars, orch, ops, signals, outside>>

(* The tool is not allowed in this mode, or the loop guard objects: the    *)
(* call ends with an error, and its action stays prepared.                 *)
BlockTool(a) ==
    LET r == RunOf[a]
    IN  /\ pc[r] \in Loops /\ ~Stopped(r)
        /\ act[a] = "none" /\ a \notin CommandActions
        /\ RecordAction(a, "prepared")
        /\ Checkpoint(r, FALSE)
        /\ UNCHANGED <<status, created, route, clarified, restarted, attempts, stepsDone,
                       begun, orch, ops, signals, tool, outside>>

(* Bug: the approval is not recorded before the tool runs. *)
FaultyApproveTool(a) ==
    /\ pc[RunOf[a]] \in Loops /\ ~Stopped(RunOf[a]) /\ up # "down"
    /\ tool[a] = "deciding"
    /\ begun' = [begun EXCEPT ![a] = @ + 1]
    /\ tool' = [tool EXCEPT ![a] = "executing"]
    /\ UNCHANGED <<act, dbVars, orch, ops, signals, outside>>

(* The user approves: beforeToolCall moves a prepared action to running    *)
(* and lets the tool run, whether or not it could move it.                 *)
ApproveTool(a) ==
    /\ pc[RunOf[a]] \in Loops /\ ~Stopped(RunOf[a]) /\ up # "down"
    /\ tool[a] = "deciding"
    /\ TransitionAction(a, {"prepared"}, "running")
    /\ begun' = [begun EXCEPT ![a] = @ + 1]
    /\ tool' = [tool EXCEPT ![a] = "executing"]
    /\ UNCHANGED <<dbVars, orch, ops, signals, outside>>

(* The user refuses, the approval expires, is aborted or swept by stop;    *)
(* the call ends with an error.                                            *)
DenyTool(a) ==
    /\ pc[RunOf[a]] \in Loops
    /\ tool[a] \in {"deciding", "denied"}
    /\ TransitionAction(a, {"prepared"}, "rejected")
    /\ Checkpoint(RunOf[a], FALSE)
    /\ tool' = [tool EXCEPT ![a] = "idle"]
    /\ UNCHANGED <<status, created, route, clarified, restarted, attempts, stepsDone,
                   begun, orch, ops, signals, outside>>

(* Bugs: a late outcome is recorded whatever happened to the action; a     *)
(* failure is not recorded.                                                *)
FaultyToolEndsLate(a, ok) ==
    /\ tool[a] = "executing"
    /\ act' = [act EXCEPT ![a] = IF ok THEN "completed" ELSE "failed"]
    /\ safe' = [safe EXCEPT ![RunOf[a]] = ok]
    /\ tool' = [tool EXCEPT ![a] = "idle"]
    /\ UNCHANGED <<status, created, route, clarified, restarted, attempts, stepsDone,
                   begun, orch, ops, signals, outside>>

FaultyToolEnds(a, ok) ==
    /\ tool[a] = "executing"
    /\ act' = [act EXCEPT ![a] = IF @ = "running" /\ ok THEN "completed" ELSE @]
    /\ safe' = [safe EXCEPT ![RunOf[a]] = ok]
    /\ tool' = [tool EXCEPT ![a] = "idle"]
    /\ UNCHANGED <<status, created, route, clarified, restarted, attempts, stepsDone,
                   begun, orch, ops, signals, outside>>

(* tool_execution_end: the outcome is recorded if the action still runs. *)
ToolEnds(a, ok) ==
    /\ tool[a] = "executing"
    /\ TransitionAction(a, {"running"}, IF ok THEN "completed" ELSE "failed")
    /\ Checkpoint(RunOf[a], ok)
    /\ tool' = [tool EXCEPT ![a] = "idle"]
    /\ UNCHANGED <<status, created, route, clarified, restarted, attempts, stepsDone,
                   begun, orch, ops, signals, outside>>

Quiet(r) == \A a \in ActionsOf(r) : tool[a] = "idle"

(* The loop throws: a model error, a turn limit, or the abort it heard. *)
LoopThrows(r) ==
    /\ pc[r] \in Loops /\ Quiet(r)
    /\ UNCHANGED act
    /\ Fail(r)
    /\ UNCHANGED <<created, route, clarified, safe, attempts, stepsDone,
                   begun, tool, outside>>

(* The work loop returns.  A plan goes on with its next step; when the     *)
(* work is done an aborted run is cancelled, a plan is verified, and a     *)
(* direct run goes on to its memories.                                     *)
LoopReturns(r) ==
    /\ pc[r] = "loop" /\ Quiet(r)
    /\ LET plan == route[r] = "plan"
           done == IF plan THEN stepsDone[r] + 1 ELSE stepsDone[r]
           more == plan /\ done < PlanSteps
       IN  /\ CompleteSteps(r, done)
           /\ UNCHANGED act
           /\ \/ /\ more
                 /\ Checkpoint(r, TRUE)
                 /\ pc' = [pc EXCEPT ![r] = "build"]
                 /\ UNCHANGED <<status, restarted, orch, how, signals>>
              \/ /\ ~more /\ r \in aborted
                 /\ CheckpointIf(plan, r)
                 /\ Fail(r)
              \/ /\ ~more /\ r \notin aborted
                 /\ CheckpointIf(plan, r)
                 /\ pc' = [pc EXCEPT ![r] = IF plan THEN "verify" ELSE "memory"]
                 /\ status' = IF plan THEN [status EXCEPT ![r] = "verifying"] ELSE status
                 /\ UNCHANGED <<restarted, orch, how, signals>>
    /\ UNCHANGED <<created, route, clarified, attempts, begun, tool, outside>>

(* verifyAndCorrect: the result is accepted ... *)
Accept(r) ==
    /\ pc[r] = "verify" /\ r \notin aborted
    /\ Checkpoint(r, TRUE)
    /\ pc' = [pc EXCEPT ![r] = "memory"]
    /\ UNCHANGED <<status, created, route, clarified, restarted, attempts, stepsDone,
                   ledger, orch, how, signals, tool, outside>>

(* ... or corrected by one more loop, ... *)
Correct(r) ==
    /\ pc[r] = "verify" /\ r \notin aborted
    /\ UpdateRun(r, "running")
    /\ pc' = [pc EXCEPT ![r] = "rebuild"]
    /\ UNCHANGED <<created, route, clarified, safe, restarted, attempts, stepsDone,
                   ledger, orch, how, signals, tool, outside>>

(* ... after which nobody looks at the abort signal again. *)
CorrectionReturns(r) ==
    /\ pc[r] = "redo" /\ Quiet(r)
    /\ Checkpoint(r, TRUE)
    /\ pc' = [pc EXCEPT ![r] = "memory"]
    /\ UNCHANGED <<status, created, route, clarified, restarted, attempts, stepsDone,
                   ledger, orch, how, signals, tool, outside>>

Complete(r) ==
    /\ pc[r] = "memory"
    /\ TransitionRun(r, "completed")
    /\ End(r, paused)
    /\ UNCHANGED <<created, route, clarified, safe, attempts, stepsDone,
                   ledger, preempted, tool, outside>>
----------------------------------------------------------------------------
(* A command (RuntimeCommandOperations.execute)                            *)

(* The command starts to run, also while the runtime stops.  Its action    *)
(* has the key runId:command, which the ledger takes only once: a command  *)
(* that is executed again fails here.  An account that approves everything *)
(* lets the shell run at once.                                             *)
CommandBegin(a, ask) ==
    LET r == RunOf[a]
    IN  /\ pc[r] = "permit"
        /\ a \in CommandActions /\ ~AsAgent(r) /\ status[r] # "cancelled"
        /\ IF act[a] # "none"
           THEN /\ UNCHANGED <<ledger, tool>>
                /\ Fail(r)
           ELSE /\ controllers' = controllers \cup {r}
                /\ TransitionRun(r, "running")
                /\ pc' = [pc EXCEPT ![r] = "command"]
                /\ RecordAction(a, IF ask THEN "prepared" ELSE "running")
                /\ begun' = IF ask THEN begun ELSE [begun EXCEPT ![a] = @ + 1]
                /\ tool' = [tool EXCEPT ![a] = IF ask THEN "deciding" ELSE "recovering"]
                /\ UNCHANGED <<orch, how, aborted, deaf, preempted>>
        /\ UNCHANGED <<created, route, clarified, safe, attempts, stepsDone, outside>>

(* Approved: executeRecoveredAction runs the shell if the action is still  *)
(* prepared; if it was rejected meanwhile the command fails.               *)
CommandApprove(a) ==
    LET r == RunOf[a]
    IN  /\ pc[r] = "command" /\ r \notin aborted /\ up # "down"
        /\ tool[a] = "deciding"
        /\ IF act[a] = "prepared"
           THEN /\ TransitionAction(a, {"prepared"}, "running")
                /\ begun' = [begun EXCEPT ![a] = @ + 1]
                /\ tool' = [tool EXCEPT ![a] = "recovering"]
                /\ UNCHANGED <<status, restarted, orch, ops, signals>>
           ELSE /\ tool' = [tool EXCEPT ![a] = "idle"]
                /\ UNCHANGED ledger
                /\ Fail(r)
        /\ UNCHANGED <<created, route, clarified, safe, attempts, stepsDone, outside>>

CommandDeny(a) ==
    LET r == RunOf[a]
    IN  /\ pc[r] = "command"
        /\ tool[a] \in {"deciding", "denied"}
        /\ TransitionAction(a, {"prepared"}, "rejected")
        /\ tool' = [tool EXCEPT ![a] = "idle"]
        /\ Fail(r)
        /\ UNCHANGED <<created, route, clarified, safe, attempts, stepsDone, begun, outside>>

(* The shell ends.  Its run completes only with an action that completed:  *)
(* one that was preempted meanwhile stays uncertain and interrupts it.     *)
CommandEnds(a, ok) ==
    LET r == RunOf[a]
    IN  /\ pc[r] = "command"
        /\ tool[a] = "recovering"
        /\ tool' = [tool EXCEPT ![a] = "idle"]
        /\ TransitionAction(a, {"running"}, IF ok THEN "completed" ELSE "failed")
        /\ CheckpointIf(ok, r)
        /\ IF act'[a] = "completed"
           THEN /\ TransitionRun(r, "completed")
                /\ UNCHANGED preempted
                /\ End(r, paused)
           ELSE Fail(r)
        /\ UNCHANGED <<created, route, clarified, attempts, stepsDone, begun, outside>>
----------------------------------------------------------------------------
(* Stop, crash and restart                                                 *)

(* stopInternal: pending approvals are refused, every controller is        *)
(* aborted, and the session is unpaused and drained.                       *)
Stop ==
    /\ up = "up" /\ stops < MaxStops
    /\ up' = "stopping"
    /\ stops' = stops + 1
    /\ tool' = [a \in Actions |-> IF tool[a] = "deciding" THEN "denied" ELSE tool[a]]
    /\ aborted' = aborted \cup controllers
    /\ UNCHANGED how
    /\ IF busy THEN paused' = FALSE /\ UNCHANGED <<queue, busy, pc>>
               ELSE Pump(queue, FALSE, pc)
    /\ UNCHANGED <<dbVars, ledger, controllers, deaf, preempted,
                   reconciling, recoverable, crashes>>

(* What the process knows is gone. *)
Forget ==
    /\ up' = "down"
    /\ queue' = <<>> /\ busy' = FALSE /\ paused' = FALSE
    /\ pc' = [r \in Runs |-> "idle"]
    /\ how' = [r \in Runs |-> "fresh"]
    /\ controllers' = {} /\ aborted' = {} /\ deaf' = {} /\ preempted' = {}
    /\ tool' = [a \in Actions |-> "idle"]
    /\ reconciling' = {} /\ recoverable' = {}

(* drain has returned, the database is closed and the process exits. *)
Exit ==
    /\ up = "stopping"
    /\ ~busy /\ queue = <<>>
    /\ Forget
    /\ UNCHANGED <<dbVars, ledger, crashes, stops>>

Crash ==
    /\ up # "down" /\ crashes < MaxCrashes
    /\ crashes' = crashes + 1
    /\ Forget
    /\ UNCHANGED <<dbVars, ledger, stops>>

FaultyAttemptsLeft(r) == attempts[r] <= RecoveryLimit

(* A run is resumed without the user a limited number of times. *)
AttemptsLeft(r) == attempts[r] < RecoveryLimit

(* The constructor of UmaDatabase interrupts the runs that were active and *)
(* settles the actions that were running; start() queues the queued runs   *)
(* again, paused if a run of the session waits for the user, and collects  *)
(* the interrupted runs that may be resumed without the user.  The order   *)
(* of the queue is that of queue_position, which need not be the order the *)
(* runs had before the restart; it is left open here.                      *)
Orders(S) == {q \in [1..Cardinality(S) -> S] : \A r \in S : \E i \in DOMAIN q : q[i] = r}

Restart ==
    /\ up = "down"
    /\ up' = "up"
    /\ status' = [r \in Runs |-> IF status[r] \in ActiveStatuses THEN "interrupted"
                                                                 ELSE status[r]]
    /\ restarted' = [r \in Runs |-> status[r] \in ActiveStatuses \/ restarted[r]]
    /\ act' = Interrupted(Actions)
    /\ recoverable' = {r \in Runs :
         /\ status'[r] = "interrupted" /\ restarted'[r]
         /\ safe[r] /\ ~Undecided(r)' /\ AttemptsLeft(r)}
    /\ UNCHANGED how
    /\ \E queued \in Orders({r \in Runs : status[r] = "queued"}) :
          Pump(queued, Awaiting # {} /\ queued # <<>>, pc)
    /\ UNCHANGED <<created, route, clarified, safe, attempts, stepsDone, begun,
                   signals, tool, reconciling, crashes, stops>>

(* recoverRestartedRuns takes the next run: it records the attempt, then   *)
(* resumes the run unless its state has changed meanwhile.                 *)
Recover(r) ==
    /\ up = "up"
    /\ r \in recoverable
    /\ recoverable' = recoverable \ {r}
    /\ attempts' = [attempts EXCEPT ![r] = @ + 1]
    /\ IF Resumable(r) THEN Requeue(r)
       ELSE UNCHANGED <<status, created, route, clarified, safe, restarted, stepsDone,
                        ledger, orch, ops, signals, tool>>
    /\ UNCHANGED <<up, reconciling, crashes, stops>>
----------------------------------------------------------------------------
User ==
    \/ \E r \in Runs :
          \/ SendQueued(r) \/ SendPreempting(r) \/ SendCommand(r)
          \/ Clarify(r) \/ ClarifyTooOften(r) \/ ConfirmPlan(r)
          \/ CancelQueued(r) \/ CancelActive(r) \/ ResumeRun(r)
    \/ \E a \in Actions :
          \/ Reject(a) \/ Acknowledge(a) \/ ApproveRecovered(a)
          \/ ApproveTool(a) \/ CommandApprove(a)

(* Steps that end what a model, a tool or a timeout has under way. *)
RunStep(r) ==
    \/ ReplayFails(r) \/ ReplayDone(r)
    \/ PassGate(r) \/ Discard(r) \/ Begin(r)
    \/ Ask(r) \/ AskConfirmation(r) \/ Route(r) \/ Throw(r)
    \/ StartLoop(r) \/ LoopThrows(r) \/ LoopReturns(r)
    \/ Accept(r) \/ Correct(r) \/ CorrectionReturns(r) \/ Complete(r)
    \/ \E a \in ActionsOf(r) :
          \/ ReplayRead(a) \/ DenyTool(a) \/ CommandDeny(a)
          \/ \E ask \in BOOLEAN : CommandBegin(a, ask)
          \/ \E ok \in BOOLEAN :
                RecoveredEnds(a, ok) \/ ToolEnds(a, ok) \/ CommandEnds(a, ok)

(* What a model may do for a while longer. *)
ModelStep(r) ==
    \/ ModelMessage(r)
    \/ \E a \in ActionsOf(r) : BlockTool(a) \/ \E ask \in BOOLEAN : CallTool(a, ask)

Next ==
    \/ User
    \/ \E r \in Runs : RunStep(r) \/ ModelStep(r) \/ Reconciled(r) \/ Recover(r)
    \/ Stop \/ Exit \/ Crash \/ Restart

(* The event loop runs what is ready, and what an operation waits for has  *)
(* a timeout: models, tools and approvals.  Users owe nothing.             *)
Fairness == \A r \in Runs : WF_vars(RunStep(r))

Spec == Init /\ [][Next]_vars
FairSpec == Spec /\ Fairness
----------------------------------------------------------------------------
(* Properties                                                              *)

(* The types of the variables. *)
TypeOK ==
    /\ status \in [Runs -> Statuses]
    /\ created \in Seq(Runs)
    /\ route \in [Runs -> {"none", "direct", "plan", "clarify"}]
    /\ clarified \in [Runs -> 0..ClarificationLimit]
    /\ safe \in [Runs -> BOOLEAN]
    /\ restarted \in [Runs -> BOOLEAN]
    /\ attempts \in [Runs -> Nat]
    /\ stepsDone \in [Runs -> 0..PlanSteps]
    /\ act \in [Actions -> {"none", "prepared", "running", "completed", "failed",
                            "rejected", "uncertain", "acknowledged"}]
    /\ up \in {"up", "stopping", "down"}
    /\ queue \in Seq(Runs)
    /\ busy \in BOOLEAN
    /\ paused \in BOOLEAN
    /\ pc \in [Runs -> Places]
    /\ how \in [Runs -> {"fresh", "resume", "confirm", "lost"}]
    /\ controllers \in SUBSET Runs
    /\ aborted \in SUBSET Runs
    /\ deaf \in SUBSET Runs
    /\ preempted \in SUBSET Runs
    /\ tool \in [Actions -> {"idle", "deciding", "denied", "executing", "recovering"}]
    /\ reconciling \in SUBSET Runs
    /\ recoverable \in SUBSET Runs
    /\ begun \in [Actions -> Nat]
    /\ crashes \in 0..MaxCrashes
    /\ stops \in 0..MaxStops

(* A side effect is started at most once, whatever crashes, preemptions,   *)
(* decisions, replays and recoveries happen around it: "pending side       *)
(* effects are not replayed" (docs/backend-design.zh-CN.md:17).            *)
AtMostOnce == \A a \in SideEffects : begun[a] <= 1

(* The ledger never forgets that a side effect may have happened: once its *)
(* tool was started the action is not offered for execution again.         *)
LedgerRemembers ==
    \A a \in SideEffects : begun[a] > 0 => act[a] \notin {"none", "prepared"}

(* An action is recorded as running only while this process runs its tool: *)
(* no crash, preemption or late end leaves it behind, which would close    *)
(* the side-effect gate of the session for ever.                           *)
RunningIsReal ==
    \A a \in Actions :
        up # "down" /\ act[a] = "running" => tool[a] \in {"executing", "recovering"}

(* An uncertain action is settled by the user and nobody else: no late end *)
(* of its tool, no restart and no recovery changes it.                     *)
UserSettles ==
    [][\A a \in Actions : act[a] = "uncertain" =>
         act'[a] \in {"uncertain", "acknowledged", "rejected"}]_vars

(* A queued run starts to work only when no side effect of the session is  *)
(* undecided, also when it had to wait for a permit after the gate, and    *)
(* also after a restart (README.md:21).  A run that is failed by the       *)
(* rejection of an action while it waits starts nevertheless; it has       *)
(* passed the gate unseen if it had been cancelled before.                 *)
GateHolds ==
    [][\A r \in Runs : pc[r] = "permit" /\ pc'[r] = "preflight" /\ status[r] = "queued"
                           => ~PendingSideEffects]_vars

(* The same for commands, which pass the gate when the runtime stops.      *)
GateHoldsForCommands ==
    [][\A r \in Runs : pc[r] = "permit" /\ pc'[r] = "command"
                           => ~PendingSideEffects]_vars

(* The database says that a run is active exactly while this process has   *)
(* an operation at work on it, and on it alone.                            *)
ActiveHasOperation ==
    up # "down" =>
        \A r, q \in Runs :
            /\ status[r] \in ActiveStatuses => pc[r] \notin {"idle", "replay", "gate", "permit"}
            /\ pc[r] # "idle" /\ pc[q] # "idle" => r = q

(* A queued run is in the live queue, or its operation has been started    *)
(* and has not looked at it yet: the database and the orchestrator do not  *)
(* disagree in a way that strands a run.  The exception is a resumed run   *)
(* whose replay threw: its operation ends before it looks at the run.      *)
QueuedHasEntry ==
    up # "down" =>
        \A r \in Runs : status[r] = "queued" =>
            \/ pc[r] \in {"replay", "gate", "permit"}
            \/ \E i \in DOMAIN queue : queue[i] = r
            \/ how[r] = "lost"

(* A run that crashes the server again and again is resumed automatically  *)
(* a bounded number of times.                                              *)
RecoveryBounded == \A r \in Runs : attempts[r] <= RecoveryLimit

(* A run that was cancelled in the queue never works, although its entry   *)
(* may still be in the orchestrator's queue or past the gate.              *)
CancelledStaysCancelled ==
    [][\A r \in Runs : status[r] = "cancelled" => status'[r] \in {"cancelled", "failed"}]_vars

(* completed, failed and cancelled end a run                               *)
(* (docs/conversation-execution-recovery-design.zh-CN.md:53).  Rejecting   *)
(* an action fails its run but does not stop it.                           *)
TerminalIsFinal ==
    [][\A r \in Runs : status[r] \in TerminalStatuses => status'[r] = status[r]]_vars

(* A session is paused only for a run that waits for the user. *)
PausedForAnAnswer == paused => Awaiting # {}

(* An aborted run starts no further side effect: "a cancellation by the    *)
(* user takes effect at once" (README.md:131).                             *)
AbortedStartsNothing ==
    [][\A a \in SideEffects : begun'[a] > begun[a] => RunOf[a] \notin aborted]_vars

(* A queued run is eventually worked on or given up, unless the session is *)
(* paused, a side effect waits for a decision, the replay of the run has   *)
(* thrown, or the process is down.                                         *)
QueuedProgress ==
    \A r \in Runs : status[r] = "queued" ~>
        \/ status[r] # "queued" \/ how[r] = "lost"
        \/ paused \/ PendingSideEffects \/ up = "down"
=============================================================================
