------------------------------- MODULE Preflight -------------------------------
(***************************************************************************)
(* What a run is to do is decided before it does anything                  *)
(* (run-preflight.ts and the first half of executeRun): its message is     *)
(* classified, a contract is asked for, its questions and its plan wait    *)
(* for the user, and a restart comes between.  RunLifecycle has the run    *)
(* and its session; this module has the decision, which is numbered, and   *)
(* whose plan and goal a run works with.                                   *)
(***************************************************************************)
EXTENDS Naturals

CONSTANTS Modes,         \* interactionMode of the run, of {"agent", "plan"}
          MaxDecisions, MaxCrashes, MaxSwitches   \* bounds of the model

VARIABLES
    run,      \* the row: status, mode, route, goal and plan (numbers of decisions), clarifications
    entry,    \* how its entry of the queue executes it: the mode it passes, and whether
              \* it goes on from a checkpoint
    asking,   \* what is asked of the models: nothing, "classify" or "contract"; attempts
    auto,     \* execution settings of the owner
    decided,  \* decisions made so far
    allowed,  \* the user or the policy has let this plan go (history)
    cut,      \* what crashes have cut off (history)
    switches, crashes

preflightVars == <<run, entry, asking, auto, decided, allowed, cut, switches, crashes>>

Nothing == [at |-> "nothing", try |-> 0]

PreflightInit ==
    /\ \E mode \in Modes :
           /\ run = [status |-> "queued", mode |-> mode, route |-> "none", goal |-> 0, plan |-> 0,
                     clarifications |-> 0]
           /\ entry = [mode |-> mode, resumed |-> FALSE]
    /\ asking = Nothing /\ decided = 0 /\ auto \in BOOLEAN /\ allowed = FALSE
    /\ cut = {} /\ switches = 0 /\ crashes = 0

(* executeRun reuses the decision of a run that goes on, but not questions. *)
FaultyReused == entry.resumed /\ run.route = "direct"
Reused == entry.resumed /\ run.route \notin {"none", "clarify"}

(* A plan is confirmed by the user unless the account approves everything. *)
FaultyNeedsConfirmation(route) == route = "plan" /\ ~entry.resumed /\ ~auto /\ run.clarifications = 0
NeedsConfirmation(route) == route = "plan" /\ entry.mode = "plan" /\ ~entry.resumed /\ ~auto

(* setPlan, unless the run has a plan.                                     *)
PlanOf(route, number) == IF route = "plan" /\ run.plan = 0 THEN number ELSE run.plan

(* The route, the plan and the next status are one transaction.            *)
Routed(route, number) ==
    /\ run' = [run EXCEPT !.route = route, !.goal = number, !.plan = PlanOf(route, number),
                          !.status = CASE route = "clarify" -> "awaiting_input"
                                       [] NeedsConfirmation(route) -> "awaiting_confirmation"
                                       [] OTHER -> "running"]
    /\ allowed' = (allowed \/ (auto /\ route = "plan"))
    /\ asking' = Nothing
    /\ UNCHANGED <<entry, auto, cut, switches, crashes>>

Decides(route) ==
    /\ decided < MaxDecisions /\ decided' = decided + 1
    /\ Routed(route, decided + 1)

Asks(what, attempt) ==
    /\ asking' = [at |-> what, try |-> attempt]
    /\ UNCHANGED <<run, entry, auto, decided, allowed, cut, switches, crashes>>

(* executeRun takes the entry; a run that goes on has its decision at once. *)
Execute ==
    /\ run.status = "queued"
    /\ run' = [run EXCEPT !.status = "preflight"]
    /\ UNCHANGED <<entry, asking, auto, decided, allowed, cut, switches, crashes>>

GoOn ==
    /\ run.status = "preflight" /\ asking = Nothing /\ Reused
    /\ Routed(run.route, run.goal) /\ UNCHANGED decided

(* decide: a plan needs no classification.                                 *)
Decide ==
    /\ run.status = "preflight" /\ asking = Nothing /\ ~Reused
    /\ Asks(IF entry.mode = "plan" THEN "contract" ELSE "classify", 1)

(* The message came through the channel: its agent decides by itself.      *)
DecideForChannel ==
    /\ run.status = "preflight" /\ asking = Nothing /\ ~Reused /\ entry.mode = "agent"
    /\ Decides("direct")

(* classify: a simple message is executed; an answer that says nothing is  *)
(* asked for again, and is taken as a standard message the second time.    *)
Classified(simple) ==
    /\ asking.at = "classify"
    /\ IF simple THEN Decides("direct") ELSE Asks("contract", 1)

ClassificationInvalid ==
    /\ asking.at = "classify"
    /\ IF asking.try = 1 THEN Asks("classify", 2) ELSE Asks("contract", 1)

(* The contract: questions come first, then the mode decides.              *)
RouteOf(questions) ==
    IF questions THEN "clarify" ELSE IF entry.mode = "plan" THEN "plan" ELSE "direct"

Contract(questions) == asking.at = "contract" /\ Decides(RouteOf(questions))

ContractInvalid ==
    /\ asking.at = "contract" /\ asking.try = 1
    /\ Asks("contract", 2)

(* The call fails or is aborted, or the contract is invalid twice.         *)
Fails ==
    /\ run.status = "preflight" /\ asking # Nothing
    /\ run' = [run EXCEPT !.status = "failed"] /\ asking' = Nothing
    /\ UNCHANGED <<entry, auto, decided, allowed, cut, switches, crashes>>
----------------------------------------------------------------------------
(* sendMessage answers the questions: the mode is that of the answer.      *)
Clarify(mode) ==
    /\ run.status = "awaiting_input" /\ run.clarifications < 3
    /\ run' = [run EXCEPT !.status = "queued", !.clarifications = @ + 1]
    /\ entry' = [mode |-> mode, resumed |-> FALSE]
    /\ UNCHANGED <<asking, auto, decided, allowed, cut, switches, crashes>>

(* confirmPlan, by the user or by the policy that is switched on.          *)
Confirmed(status) == IF status = "awaiting_confirmation" THEN "queued" ELSE status
ConfirmPlan ==
    /\ run.status = "awaiting_confirmation"
    /\ run' = [run EXCEPT !.status = Confirmed(@)]
    /\ entry' = [mode |-> "plan", resumed |-> TRUE]
    /\ allowed' = TRUE
    /\ UNCHANGED <<asking, auto, decided, cut, switches, crashes>>

Switch ==
    /\ switches < MaxSwitches /\ switches' = switches + 1
    /\ auto' = ~auto
    /\ IF auto' /\ run.status = "awaiting_confirmation"
       THEN /\ run' = [run EXCEPT !.status = Confirmed(@)]
            /\ entry' = [mode |-> "plan", resumed |-> TRUE] /\ allowed' = TRUE
       ELSE UNCHANGED <<run, entry, allowed>>
    /\ UNCHANGED <<asking, decided, cut, crashes>>

(* The process dies: what was active is interrupted, what was queued is    *)
(* enqueued again by the next one, in the mode of the run.                 *)
Crash ==
    /\ crashes < MaxCrashes /\ crashes' = crashes + 1
    /\ run.status \in {"queued", "preflight", "running"}
    /\ cut' = cut \cup {IF run.status = "queued" /\ run.route # "none" THEN "queued"
                        ELSE IF run.status = "preflight" THEN "preflight" ELSE "other"}
    /\ run' = [run EXCEPT !.status = IF @ = "queued" THEN "queued" ELSE "interrupted"]
    /\ entry' = [mode |-> run.mode, resumed |-> FALSE]
    /\ asking' = Nothing
    /\ UNCHANGED <<auto, decided, allowed, switches>>

(* resumeRun, by the user or the recovery of restarted runs.               *)
Resume ==
    /\ run.status = "interrupted"
    /\ run' = [run EXCEPT !.status = "queued"]
    /\ entry' = [mode |-> run.mode, resumed |-> TRUE]
    /\ UNCHANGED <<asking, auto, decided, allowed, cut, switches, crashes>>

Complete ==
    /\ run.status = "running"
    /\ run' = [run EXCEPT !.status = "completed"]
    /\ UNCHANGED <<entry, asking, auto, decided, allowed, cut, switches, crashes>>

PreflightNext ==
    \/ Execute \/ GoOn \/ Decide \/ DecideForChannel
    \/ ClassificationInvalid \/ ContractInvalid \/ Fails
    \/ \E yes \in BOOLEAN : Classified(yes) \/ Contract(yes)
    \/ \E mode \in {"agent", "plan"} : Clarify(mode)
    \/ ConfirmPlan \/ Switch \/ Crash \/ Resume \/ Complete

PreflightSpec == PreflightInit /\ [][PreflightNext]_preflightVars
----------------------------------------------------------------------------
PreflightOK ==
    /\ run.status \in {"queued", "preflight", "awaiting_input", "awaiting_confirmation", "running",
                       "completed", "failed", "interrupted"}
    /\ run.route \in {"none", "direct", "plan", "clarify"}
    /\ asking.at \in {"nothing", "classify", "contract"} /\ asking.try \in 0..2
    /\ (asking # Nothing => run.status = "preflight")

(* A run that works on a plan has been let by its user or the policy,      *)
(* whatever was asked, answered, switched or restarted in between; only a  *)
(* run that was cut off while it was deciding and resumed has not been.    *)
PlanAllowed ==
    run.status = "running" /\ run.route = "plan" /\ "preflight" \notin cut => allowed

(* The plan a run works on was made with the goal it works for, unless a   *)
(* restart had the run decide again while it was queued.                   *)
PlanOfGoal ==
    run.status = "running" /\ run.route = "plan" /\ "queued" \notin cut =>
        run.plan # 0 /\ run.plan = run.goal
=============================================================================
