------------------------------- MODULE Approvals -------------------------------
(***************************************************************************)
(* The permissions a run asks its user for (run-approvals.ts, the          *)
(* execution policy of the account and updateExecutionSettings of          *)
(* runtime.ts): a tool call waits in the process while its row waits in    *)
(* the database, a plan only has its row.  The answers come from the user, *)
(* from the policy, from a timer, from the end of the run or from stop.    *)
(***************************************************************************)
EXTENDS Naturals, FiniteSets

CONSTANTS Owners, Calls, Plans,  \* accounts; tool calls and plan runs that need a permission
          OwnerOf,               \* of a call or a plan
          MaxCrashes, MaxSettings  \* bounds of the model

VARIABLES
    row,      \* approvals.status of a call ("none": no row)
    waiting,  \* RunApprovals.pending
    answer,   \* what the call got
    aborted,  \* calls whose signal was aborted
    auto,     \* users.auto_approve
    plan,     \* whether a plan waits for its confirmation (runs.status)
    process,  \* "up", "stopping" or "down"
    cut,      \* a change of the policy was cut off by a crash (history)
    count     \* crashes and changes of the policy so far

approvalVars == <<row, waiting, answer, aborted, auto, plan, process, cut, count>>

ApprovalsInit ==
    /\ row = [c \in Calls |-> "none"] /\ answer = [c \in Calls |-> "none"]
    /\ waiting = {} /\ aborted = {}
    /\ auto = [u \in Owners |-> FALSE]
    /\ plan = [p \in Plans |-> "none"]
    /\ process = "up" /\ cut = FALSE
    /\ count = [crashes |-> 0, settings |-> 0]

(* pendingExecutionPermissions *)
PendingCalls(u) == {c \in Calls : OwnerOf[c] = u /\ row[c] = "pending"}
AwaitingPlans(u) == {p \in Plans : OwnerOf[p] = u /\ plan[p] = "awaiting"}

(* resolveApproval for rows that are pending; expireApproval.              *)
Settled(S, to) == [c \in Calls |-> IF c \in S /\ row[c] = "pending" THEN to ELSE row[c]]

(* The promise of a call that waits; nobody waits for the others.          *)
Answered(S, to) == [c \in Calls |-> IF c \in S \cap waiting THEN to ELSE answer[c]]

Told(S, status, to) ==
    /\ row' = Settled(S, status)
    /\ answer' = Answered(S, to)
    /\ waiting' = waiting \ S
----------------------------------------------------------------------------
CreateApproval(c) == row' = [row EXCEPT ![c] = "pending"]

(* request: a call whose run was aborted is refused, and the policy answers *)
(* without a row.                                                          *)
Request(c) ==
    /\ process # "down" /\ row[c] = "none" /\ answer[c] = "none"
    /\ IF c \in aborted \/ auto[OwnerOf[c]]
       THEN /\ answer' = [answer EXCEPT ![c] = IF c \in aborted THEN "no" ELSE "yes"]
            /\ UNCHANGED <<row, waiting>>
       ELSE /\ CreateApproval(c)
            /\ waiting' = waiting \cup {c}
            /\ UNCHANGED answer
    /\ UNCHANGED <<aborted, auto, plan, process, cut, count>>

(* resolve: the user's answer counts while the row is pending, also when   *)
(* the process that asked is gone.                                         *)
FaultyResolve(c, ok) ==
    /\ process # "down" /\ row[c] \notin {"none"}
    /\ row' = [row EXCEPT ![c] = IF ok THEN "approved" ELSE "denied"]
    /\ answer' = Answered({c}, IF ok THEN "yes" ELSE "no")
    /\ waiting' = waiting \ {c}
    /\ UNCHANGED <<aborted, auto, plan, process, cut, count>>
Resolve(c, ok) ==
    /\ process # "down" /\ row[c] = "pending"
    /\ IF ok THEN Told({c}, "approved", "yes") ELSE Told({c}, "denied", "no")
    /\ UNCHANGED <<aborted, auto, plan, process, cut, count>>

(* abort, by the timer or by the signal of the run.                        *)
Expire(c) ==
    /\ c \in waiting
    /\ Told({c}, "expired", "no")
    /\ UNCHANGED <<aborted, auto, plan, process, cut, count>>

Abort(c) ==
    /\ process # "down" /\ c \notin aborted
    /\ aborted' = aborted \cup {c}
    /\ Told({c} \cap waiting, "expired", "no")
    /\ UNCHANGED <<auto, plan, process, cut, count>>
----------------------------------------------------------------------------
(* The preflight of a plan asks the policy in the transaction that makes   *)
(* the run wait; confirmPlan.                                              *)
AskPlan(p) ==
    /\ process = "up" /\ plan[p] = "none"
    /\ plan' = [plan EXCEPT ![p] = IF auto[OwnerOf[p]] THEN "running" ELSE "awaiting"]
    /\ UNCHANGED <<row, waiting, answer, aborted, auto, process, cut, count>>

ConfirmPlan(p) ==
    /\ process # "down" /\ plan[p] = "awaiting"
    /\ plan' = [plan EXCEPT ![p] = "queued"]
    /\ UNCHANGED <<row, waiting, answer, aborted, auto, process, cut, count>>

(* updateExecutionSettings: the policy is stored with its audit; switched  *)
(* on, it answers everything that waits.  Without the process dying, that  *)
(* is one step.                                                            *)
SetExecutionSettings(u, on) ==
    /\ process # "down" /\ count.settings < MaxSettings
    /\ auto' = [auto EXCEPT ![u] = on]

FaultySwitch(u, on) ==
    /\ SetExecutionSettings(u, on)
    /\ count' = [count EXCEPT !.settings = @ + 1]
    /\ UNCHANGED <<row, waiting, answer, aborted, plan, process, cut>>
Switch(u, on) ==
    /\ SetExecutionSettings(u, on)
    /\ count' = [count EXCEPT !.settings = @ + 1]
    /\ IF on
       THEN /\ Told(PendingCalls(u), "approved", "yes")
            /\ plan' = [p \in Plans |-> IF p \in AwaitingPlans(u) THEN "queued" ELSE plan[p]]
       ELSE UNCHANGED <<row, waiting, answer, plan>>
    /\ UNCHANGED <<aborted, process, cut>>

(* The process dies with the policy stored and only some of the rows, or   *)
(* all of them and some of the plans, answered.                            *)
SwitchCut(u) ==
    /\ SetExecutionSettings(u, TRUE) /\ count.crashes < MaxCrashes
    /\ count' = [crashes |-> count.crashes + 1, settings |-> count.settings + 1]
    /\ \E S \in SUBSET PendingCalls(u), T \in SUBSET AwaitingPlans(u) :
           /\ T # {} => S = PendingCalls(u)
           /\ row' = Settled(S, "approved")
           /\ plan' = [p \in Plans |-> IF p \in T THEN "queued" ELSE plan[p]]
    /\ process' = "down" /\ cut' = TRUE
    /\ waiting' = {}
    /\ UNCHANGED <<answer, aborted>>
----------------------------------------------------------------------------
(* stopInternal: rejectAll, and then the controllers are aborted.          *)
Stop ==
    /\ process = "up"
    /\ process' = "stopping"
    /\ Told(waiting, "denied", "no")
    /\ aborted' = Calls
    /\ UNCHANGED <<auto, plan, cut, count>>

(* The process ends, by itself once it has stopped.  The calls of the next *)
(* one are other calls.                                                    *)
Dies ==
    /\ process = "stopping" \/ (process = "up" /\ count.crashes < MaxCrashes)
    /\ count' = IF process = "up" THEN [count EXCEPT !.crashes = @ + 1] ELSE count
    /\ process' = "down" /\ waiting' = {}
    /\ UNCHANGED <<row, answer, aborted, auto, plan, cut>>

Start ==
    /\ process = "down"
    /\ process' = "up"
    /\ UNCHANGED <<row, waiting, answer, aborted, auto, plan, cut, count>>

ApprovalsNext ==
    \/ \E c \in Calls : \/ Request(c) \/ Expire(c) \/ Abort(c)
                        \/ \E ok \in BOOLEAN : Resolve(c, ok)
    \/ \E p \in Plans : AskPlan(p) \/ ConfirmPlan(p)
    \/ \E u \in Owners : SwitchCut(u) \/ \E on \in BOOLEAN : Switch(u, on)
    \/ Stop \/ Dies \/ Start

ApprovalsSpec == ApprovalsInit /\ [][ApprovalsNext]_approvalVars
----------------------------------------------------------------------------
ApprovalsOK ==
    /\ row \in [Calls -> {"none", "pending", "approved", "denied", "expired"}]
    /\ answer \in [Calls -> {"none", "yes", "no"}]
    /\ plan \in [Plans -> {"none", "awaiting", "queued", "running"}]
    /\ waiting \subseteq Calls /\ aborted \subseteq Calls

(* What a call was told is what its row says for ever after, however the   *)
(* user, the policy, the timer, the run and stop race for it; a call that  *)
(* waits has a row that can still be answered.                             *)
AnswerFitsRow ==
    \A c \in Calls :
        /\ answer[c] = "yes" => row[c] \in {"approved", "none"}
        /\ answer[c] = "no" => row[c] \in {"denied", "expired", "none"}
        /\ c \in waiting => row[c] = "pending" /\ answer[c] = "none"

(* An account that approves everything leaves nothing of its own waiting;  *)
(* only a plan whose switch was cut off by a crash does.                   *)
PolicyAnswers ==
    \A u \in Owners : auto[u] =>
        /\ \A c \in waiting : OwnerOf[c] # u
        /\ cut \/ AwaitingPlans(u) = {}
=============================================================================
