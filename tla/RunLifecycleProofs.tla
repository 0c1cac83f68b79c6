-------------------------- MODULE RunLifecycleProofs --------------------------
(***************************************************************************)
(* The safety properties of RunLifecycle, for any finite set of runs, any  *)
(* actions, any limits, and any number of crashes and stops.               *)
(*                                                                         *)
(* The invariant IInv has a part for each of the things the properties     *)
(* relate: the ledger with the tools (LedgerInv), the operations with the  *)
(* status of their runs (PlaceInv) and with the queue (EntryInv), what is  *)
(* undecided with the operations past the gate (GateInv, which needs       *)
(* NoneInv), the attempts with what is to be recovered (RecoveryInv), and  *)
(* the steps of a plan with the place of its run (StepsInv).               *)
(*                                                                         *)
(* Three lemmas say what the many actions of Next have in common, and the  *)
(* parts of the invariant follow from these alone: Kinds, how a step moves *)
(* the status of the runs and the session's queue; LedgerMoves, how it     *)
(* changes the ledger; and RestStep, for the other variables.              *)
(***************************************************************************)
EXTENDS RunLifecycle, FiniteSetTheorems, TLAPS

(* Places of an operation before and after it has looked at its run.       *)
Early == {"replay", "gate", "permit"}
Late == Places \ (Early \cup {"idle"})

(* The ledger and the tool of one action. *)
LedgerOf(a) ==
    /\ up # "down" /\ act[a] = "running" => tool[a] \in {"executing", "recovering"}
    /\ tool[a] \in {"deciding", "denied"} => act[a] \notin {"none", "running"}
    /\ a \in SideEffects =>
          /\ begun[a] <= 1
          /\ begun[a] > 0 => act[a] \notin {"none", "prepared"}
          /\ tool[a] \in {"deciding", "denied"} => begun[a] = 0

LedgerInv == \A a \in Actions : LedgerOf(a)

(* A run that is to be resumed without the user has an attempt left. *)
RecoveryInv ==
    \A r \in Runs : /\ attempts[r] <= RecoveryLimit
                    /\ r \in recoverable => attempts[r] < RecoveryLimit

(* One operation is under way at a time, none in a process that is free or *)
(* down, and a run has an active status from the moment its operation has  *)
(* looked at it; only a rejection changes that status to failed meanwhile. *)
PlaceInv ==
    /\ \A r, q \in Runs : pc[r] # "idle" /\ pc[q] # "idle" => r = q
    /\ ~busy \/ up = "down" => \A r \in Runs : pc[r] = "idle"
    /\ \A r \in Runs : pc[r] \in Late => status[r] \in ActiveStatuses \cup {"failed"}
    /\ \A r \in Runs : status[r] \in ActiveStatuses /\ up # "down" => pc[r] \in Late

(* QueuedHasEntry, with Early and Holds. *)
Holds(q, r) == \E i \in DOMAIN q : q[i] = r

EntryInv ==
    up # "down" => \A r \in Runs : status[r] = "queued" =>
        pc[r] \in Early \/ Holds(queue, r) \/ how[r] = "lost"

(* A plan that still works has a step left. *)
StepsInv ==
    \A r \in Runs : pc[r] \in {"build", "loop"} /\ route[r] = "plan" => stepsDone[r] < PlanSteps

(* What does not exist yet has not called a tool. *)
NoneInv == \A r \in Runs : status[r] = "none" => \A a \in ActionsOf(r) : act[a] = "none"

(* Past the gate nothing is undecided, unless the runtime stops or the run *)
(* was cancelled in the queue (and maybe failed by a rejection since).     *)
GateInv ==
    \A r \in Runs : pc[r] = "permit" /\ up = "up" =>
        status[r] \in {"cancelled", "failed"} \/ ~PendingSideEffects

(* The inductive invariant. *)
IInv ==
    /\ TypeOK
    /\ LedgerInv
    /\ RecoveryInv
    /\ PlaceInv
    /\ EntryInv
    /\ StepsInv
    /\ NoneInv
    /\ GateInv
----------------------------------------------------------------------------
USE DEF dbVars, ledger, orch, signals, ops, outside

(* Each action belongs to a run. *)
LEMMA RunOfType == \A a \in Actions : RunOf[a] \in Runs
BY ActionsAssumption

(* The types of the ledger and the tools. *)
LedgerTypes ==
    /\ act \in [Actions -> {"none", "prepared", "running", "completed", "failed",
                            "rejected", "uncertain", "acknowledged"}]
    /\ tool \in [Actions -> {"idle", "deciding", "denied", "executing", "recovering"}]
    /\ begun \in [Actions -> Nat]
    /\ up \in {"up", "stopping", "down"}

(* What transitionRunAction does to its action, and to the others, when    *)
(* what the process does with the action becomes t.                        *)
Moves(a, expected, to, t) ==
    /\ TransitionAction(a, expected, to)
    /\ tool' = [tool EXCEPT ![a] = t]
    /\ up' = up

(* The other actions keep their state. *)
Elsewhere(a) ==
    \A b \in Actions \ {a} : act'[b] = act[b] /\ begun'[b] = begun[b] /\ tool'[b] = tool[b]

(* transitionRunAction, without and with the start of the tool. *)
LEMMA Transition ==
  ASSUME LedgerTypes, NEW a \in Actions, NEW expected, NEW to, NEW t, Moves(a, expected, to, t),
         begun' = begun
  PROVE  /\ act'[a] = IF act[a] \in expected THEN to ELSE act[a]
         /\ tool'[a] = t /\ begun'[a] = begun[a] /\ up' = up /\ Elsewhere(a)
BY DEF Moves, TransitionAction, LedgerTypes, Elsewhere

LEMMA Start ==
  ASSUME LedgerTypes, NEW a \in Actions, NEW expected, NEW to, NEW t, Moves(a, expected, to, t),
         begun' = [begun EXCEPT ![a] = @ + 1]
  PROVE  /\ act'[a] = IF act[a] \in expected THEN to ELSE act[a]
         /\ tool'[a] = t /\ begun'[a] = begun[a] + 1 /\ up' = up /\ Elsewhere(a)
BY DEF Moves, TransitionAction, LedgerTypes, Elsewhere

(* A step that concerns one action. *)
LEMMA OneAction ==
  ASSUME LedgerInv, NEW a \in Actions, LedgerOf(a)', up' = up, Elsewhere(a)
  PROVE  LedgerInv'
<1> SUFFICES ASSUME NEW b \in Actions \ {a} PROVE LedgerOf(b)'
  BY DEF LedgerInv
<1> QED BY DEF LedgerInv, LedgerOf, Elsewhere

(* A call that is recorded, and runs at once unless it has to ask. *)
LEMMA Recording ==
  ASSUME LedgerTypes, LedgerInv, NEW a \in Actions, NEW ask \in BOOLEAN, act[a] = "none",
         RecordAction(a, IF ask THEN "prepared" ELSE "running"),
         begun' = IF ask THEN begun ELSE [begun EXCEPT ![a] = @ + 1],
         NEW t \in {"executing", "recovering"},
         tool' = [tool EXCEPT ![a] = IF ask THEN "deciding" ELSE t],
         up' = up
  PROVE  LedgerInv'
<1>1. LedgerOf(a)
  BY DEF LedgerInv
<1>2. /\ act'[a] = IF ask THEN "prepared" ELSE "running"
      /\ begun'[a] = IF ask THEN begun[a] ELSE begun[a] + 1
      /\ tool'[a] = IF ask THEN "deciding" ELSE t
      /\ Elsewhere(a)
  BY DEF LedgerTypes, RecordAction, Elsewhere
<1>3. LedgerOf(a)'
  BY <1>1, <1>2 DEF LedgerOf, LedgerTypes
<1> QED BY <1>2, <1>3, OneAction

(* Most steps leave the ledger and the tools alone. *)
QuietStep ==
    \E r \in Runs :
       \/ SendQueued(r) \/ SendCommand(r) \/ Clarify(r) \/ ClarifyTooOften(r)
       \/ ConfirmPlan(r) \/ CancelQueued(r) \/ CancelActive(r) \/ ResumeRun(r)
       \/ Reconciled(r) \/ Recover(r)
       \/ ReplayFails(r) \/ ReplayDone(r) \/ PassGate(r) \/ Discard(r) \/ Begin(r)
       \/ Ask(r) \/ AskConfirmation(r) \/ Route(r) \/ Throw(r)
       \/ StartLoop(r) \/ LoopThrows(r) \/ LoopReturns(r)
       \/ Accept(r) \/ Correct(r) \/ CorrectionReturns(r) \/ Complete(r)
       \/ ModelMessage(r)

(* They do. *)
LEMMA QuietKeeps ==
  ASSUME QuietStep
  PROVE  UNCHANGED <<act, begun, tool, up>>
<1>1. PICK r \in Runs :
         \/ SendQueued(r) \/ SendCommand(r) \/ Clarify(r) \/ ClarifyTooOften(r)
         \/ ConfirmPlan(r) \/ CancelQueued(r) \/ CancelActive(r) \/ ResumeRun(r)
         \/ Reconciled(r) \/ Recover(r)
         \/ ReplayFails(r) \/ ReplayDone(r) \/ PassGate(r) \/ Discard(r) \/ Begin(r)
         \/ Ask(r) \/ AskConfirmation(r) \/ Route(r) \/ Throw(r)
         \/ StartLoop(r) \/ LoopThrows(r) \/ LoopReturns(r)
         \/ Accept(r) \/ Correct(r) \/ CorrectionReturns(r) \/ Complete(r)
         \/ ModelMessage(r)
  BY DEF QuietStep
<1> QED
  BY <1>1 DEF SendQueued, SendCommand, Clarify, ClarifyTooOften, ConfirmPlan, CancelQueued,
              CancelActive, ResumeRun, Reconciled, Recover, Create, Requeue,
              ReplayFails, ReplayDone, PassGate, Discard, Begin, Ask, AskConfirmation, Route, Throw,
              StartLoop, LoopThrows, LoopReturns, Accept, Correct, CorrectionReturns,
              Complete, ModelMessage

(* Every step keeps the ledger and the tools in agreement. *)
LEMMA LedgerStep ==
  ASSUME LedgerTypes, LedgerInv, Next
  PROVE  LedgerInv'
<1>0. ASSUME UNCHANGED <<act, begun, tool, up>> PROVE LedgerInv'
  BY <1>0 DEF LedgerInv, LedgerOf, LedgerTypes
<1>1. CASE QuietStep
  BY <1>0, <1>1, QuietKeeps
<1>2. ASSUME NEW a \in Actions, BlockTool(a)
      PROVE  LedgerInv'
  <2>1. act' = [act EXCEPT ![a] = "prepared"] /\ act[a] = "none" /\ UNCHANGED <<begun, tool, up>>
    BY <1>2 DEF BlockTool, RecordAction
  <2>2. act'[a] = "prepared" /\ Elsewhere(a)
    BY <2>1 DEF LedgerTypes, Elsewhere
  <2>3. LedgerOf(a)
    BY DEF LedgerInv
  <2>4. LedgerOf(a)'
    BY <2>1, <2>2, <2>3 DEF LedgerOf, LedgerTypes
  <2> QED BY <2>1, <2>2, <2>4, OneAction
<1>3. ASSUME NEW a \in Actions, NEW ask \in BOOLEAN, CallTool(a, ask)
      PROVE  LedgerInv'
  BY <1>3, Recording DEF CallTool
<1>4. ASSUME NEW a \in Actions, ApproveTool(a)
      PROVE  LedgerInv'
  <2>1. Moves(a, {"prepared"}, "running", "executing") /\ begun' = [begun EXCEPT ![a] = @ + 1]
        /\ tool[a] = "deciding"
    BY <1>4 DEF ApproveTool, Moves
  <2>2. LedgerOf(a)
    BY DEF LedgerInv
  <2>3. /\ act'[a] = IF act[a] \in {"prepared"} THEN "running" ELSE act[a]
        /\ tool'[a] = "executing" /\ begun'[a] = begun[a] + 1 /\ up' = up /\ Elsewhere(a)
    BY <2>1, Start
  <2>4. LedgerOf(a)'
    BY <2>1, <2>2, <2>3 DEF LedgerOf, LedgerTypes
  <2> QED BY <2>3, <2>4, OneAction
<1>5. ASSUME NEW a \in Actions, DenyTool(a)
      PROVE  LedgerInv'
  <2>1. Moves(a, {"prepared"}, "rejected", "idle") /\ begun' = begun
        /\ tool[a] \in {"deciding", "denied"}
    BY <1>5 DEF DenyTool, Moves
  <2>2. LedgerOf(a)
    BY DEF LedgerInv
  <2>3. /\ act'[a] = IF act[a] \in {"prepared"} THEN "rejected" ELSE act[a]
        /\ tool'[a] = "idle" /\ begun'[a] = begun[a] /\ up' = up /\ Elsewhere(a)
    BY <2>1, Transition
  <2>4. LedgerOf(a)'
    BY <2>1, <2>2, <2>3 DEF LedgerOf, LedgerTypes
  <2> QED BY <2>3, <2>4, OneAction
<1>6. ASSUME NEW a \in Actions, NEW ok \in BOOLEAN, ToolEnds(a, ok)
      PROVE  LedgerInv'
  <2>1. Moves(a, {"running"}, IF ok THEN "completed" ELSE "failed", "idle") /\ begun' = begun
        /\ tool[a] = "executing"
    BY <1>6 DEF ToolEnds, Moves
  <2>2. LedgerOf(a)
    BY DEF LedgerInv
  <2>3. /\ act'[a] = IF act[a] \in {"running"} THEN IF ok THEN "completed" ELSE "failed" ELSE act[a]
        /\ tool'[a] = "idle" /\ begun'[a] = begun[a] /\ up' = up /\ Elsewhere(a)
    BY <2>1, Transition
  <2>4. LedgerOf(a)'
    BY <2>1, <2>2, <2>3 DEF LedgerOf, LedgerTypes
  <2> QED BY <2>3, <2>4, OneAction
<1>7. ASSUME NEW a \in Actions, NEW ok \in BOOLEAN, RecoveredEnds(a, ok)
      PROVE  LedgerInv'
  <2>1. Moves(a, {"running"}, IF ok THEN "completed" ELSE "failed", "idle") /\ begun' = begun
        /\ tool[a] = "recovering"
    BY <1>7 DEF RecoveredEnds, Moves
  <2>2. LedgerOf(a)
    BY DEF LedgerInv
  <2>3. /\ act'[a] = IF act[a] \in {"running"} THEN IF ok THEN "completed" ELSE "failed" ELSE act[a]
        /\ tool'[a] = "idle" /\ begun'[a] = begun[a] /\ up' = up /\ Elsewhere(a)
    BY <2>1, Transition
  <2>4. LedgerOf(a)'
    BY <2>1, <2>2, <2>3 DEF LedgerOf, LedgerTypes
  <2> QED BY <2>3, <2>4, OneAction
<1>8. ASSUME NEW a \in Actions, NEW ok \in BOOLEAN, CommandEnds(a, ok)
      PROVE  LedgerInv'
  <2>1. Moves(a, {"running"}, IF ok THEN "completed" ELSE "failed", "idle") /\ begun' = begun
        /\ tool[a] = "recovering"
    BY <1>8 DEF CommandEnds, Moves
  <2>2. LedgerOf(a)
    BY DEF LedgerInv
  <2>3. /\ act'[a] = IF act[a] \in {"running"} THEN IF ok THEN "completed" ELSE "failed" ELSE act[a]
        /\ tool'[a] = "idle" /\ begun'[a] = begun[a] /\ up' = up /\ Elsewhere(a)
    BY <2>1, Transition
  <2>4. LedgerOf(a)'
    BY <2>1, <2>2, <2>3 DEF LedgerOf, LedgerTypes
  <2> QED BY <2>3, <2>4, OneAction
<1>9. ASSUME NEW a \in Actions, ApproveRecovered(a)
      PROVE  LedgerInv'
  <2>1. Moves(a, {"prepared"}, "running", "recovering") /\ begun' = [begun EXCEPT ![a] = @ + 1]
        /\ act[a] = "prepared"
    BY <1>9 DEF ApproveRecovered, Moves
  <2>2. LedgerOf(a)
    BY DEF LedgerInv
  <2>3. /\ act'[a] = IF act[a] \in {"prepared"} THEN "running" ELSE act[a]
        /\ tool'[a] = "recovering" /\ begun'[a] = begun[a] + 1 /\ up' = up /\ Elsewhere(a)
    BY <2>1, Start
  <2>4. LedgerOf(a)'
    BY <2>1, <2>2, <2>3 DEF LedgerOf, LedgerTypes
  <2> QED BY <2>3, <2>4, OneAction
<1>10. ASSUME NEW a \in Actions, ReplayRead(a)
      PROVE  LedgerInv'
  <2>1. Moves(a, {"prepared"}, "running", "recovering") /\ begun' = [begun EXCEPT ![a] = @ + 1]
        /\ act[a] = "prepared"
    BY <1>10 DEF ReplayRead, Moves
  <2>2. LedgerOf(a)
    BY DEF LedgerInv
  <2>3. /\ act'[a] = IF act[a] \in {"prepared"} THEN "running" ELSE act[a]
        /\ tool'[a] = "recovering" /\ begun'[a] = begun[a] + 1 /\ up' = up /\ Elsewhere(a)
    BY <2>1, Start
  <2>4. LedgerOf(a)'
    BY <2>1, <2>2, <2>3 DEF LedgerOf, LedgerTypes
  <2> QED BY <2>3, <2>4, OneAction
<1>11. ASSUME NEW a \in Actions, Reject(a)
      PROVE  LedgerInv'
  <2>1. Moves(a, {"prepared", "uncertain"}, "rejected", tool[a]) /\ begun' = begun
        /\ act[a] \in {"prepared", "uncertain"}
    BY <1>11 DEF Reject, Moves, LedgerTypes
  <2>2. LedgerOf(a)
    BY DEF LedgerInv
  <2>3. /\ act'[a] = IF act[a] \in {"prepared", "uncertain"} THEN "rejected" ELSE act[a]
        /\ tool'[a] = tool[a] /\ begun'[a] = begun[a] /\ up' = up /\ Elsewhere(a)
    BY <2>1, Transition
  <2>4. LedgerOf(a)'
    BY <2>1, <2>2, <2>3 DEF LedgerOf, LedgerTypes
  <2> QED BY <2>3, <2>4, OneAction
<1>12. ASSUME NEW a \in Actions, Acknowledge(a)
      PROVE  LedgerInv'
  <2>1. Moves(a, {"uncertain"}, "acknowledged", tool[a]) /\ begun' = begun
        /\ act[a] = "uncertain"
    BY <1>12 DEF Acknowledge, Moves, LedgerTypes
  <2>2. LedgerOf(a)
    BY DEF LedgerInv
  <2>3. /\ act'[a] = IF act[a] \in {"uncertain"} THEN "acknowledged" ELSE act[a]
        /\ tool'[a] = tool[a] /\ begun'[a] = begun[a] /\ up' = up /\ Elsewhere(a)
    BY <2>1, Transition
  <2>4. LedgerOf(a)'
    BY <2>1, <2>2, <2>3 DEF LedgerOf, LedgerTypes
  <2> QED BY <2>3, <2>4, OneAction
<1>13. ASSUME NEW a \in Actions, CommandDeny(a)
      PROVE  LedgerInv'
  <2>1. Moves(a, {"prepared"}, "rejected", "idle") /\ begun' = begun
        /\ tool[a] \in {"deciding", "denied"}
    BY <1>13 DEF CommandDeny, Moves
  <2>2. LedgerOf(a)
    BY DEF LedgerInv
  <2>3. /\ act'[a] = IF act[a] \in {"prepared"} THEN "rejected" ELSE act[a]
        /\ tool'[a] = "idle" /\ begun'[a] = begun[a] /\ up' = up /\ Elsewhere(a)
    BY <2>1, Transition
  <2>4. LedgerOf(a)'
    BY <2>1, <2>2, <2>3 DEF LedgerOf, LedgerTypes
  <2> QED BY <2>3, <2>4, OneAction
<1>14. ASSUME NEW a \in Actions, CommandApprove(a)
      PROVE  LedgerInv'
  <2>1. LedgerOf(a)
    BY DEF LedgerInv
  <2>2. CASE act[a] = "prepared"
    <3>1. Moves(a, {"prepared"}, "running", "recovering") /\ begun' = [begun EXCEPT ![a] = @ + 1]
      BY <1>14, <2>2 DEF CommandApprove, Moves
    <3>2. /\ act'[a] = "running" /\ tool'[a] = "recovering"
          /\ begun'[a] = begun[a] + 1 /\ up' = up /\ Elsewhere(a)
      BY <2>2, <3>1, Start
    <3>3. LedgerOf(a)'
      BY <2>1, <2>2, <3>2 DEF LedgerOf, LedgerTypes
    <3> QED BY <3>2, <3>3, OneAction
  <2>3. CASE act[a] # "prepared"
    <3>1. UNCHANGED <<act, begun, up>> /\ tool' = [tool EXCEPT ![a] = "idle"] /\ tool[a] = "deciding"
      BY <1>14, <2>3 DEF CommandApprove
    <3>2. tool'[a] = "idle" /\ Elsewhere(a)
      BY <3>1 DEF LedgerTypes, Elsewhere
    <3>3. LedgerOf(a)'
      BY <2>1, <3>1, <3>2 DEF LedgerOf
    <3> QED BY <3>1, <3>2, <3>3, OneAction
  <2> QED BY <2>2, <2>3
<1>15. ASSUME NEW a \in Actions, NEW ask \in BOOLEAN, CommandBegin(a, ask)
      PROVE  LedgerInv'
  <2>1. CASE act[a] # "none"
    BY <1>0, <1>15, <2>1 DEF CommandBegin
  <2>2. CASE act[a] = "none"
    BY <1>15, <2>2, Recording DEF CommandBegin
  <2> QED BY <2>1, <2>2
<1>16. ASSUME NEW r \in Runs, SendPreempting(r)
      PROVE  LedgerInv'
  BY <1>16 DEF SendPreempting, Interrupted, LedgerInv, LedgerOf, LedgerTypes
<1>17. CASE Restart
  BY <1>17 DEF Restart, Interrupted, LedgerInv, LedgerOf, LedgerTypes
<1>18. CASE Stop
  BY <1>18 DEF Stop, LedgerInv, LedgerOf, LedgerTypes
<1>19. CASE Exit \/ Crash
  BY <1>19 DEF Exit, Crash, Forget, LedgerInv, LedgerOf, LedgerTypes
<1> QED
  BY <1>1, <1>2, <1>3, <1>4, <1>5, <1>6, <1>7, <1>8, <1>9, <1>10, <1>11, <1>12, <1>13, <1>14, <1>15,
     <1>16, <1>17, <1>18, <1>19
     DEF Next, User, RunStep, ModelStep, ActionsOf, QuietStep
----------------------------------------------------------------------------
(* The queue of the session                                                *)

(* Queue q was pumped when nothing ran. *)
Settled(q) ==
    /\ queue' \in Seq(Runs) /\ busy' \in BOOLEAN /\ paused' \in BOOLEAN
    /\ pc' \in [Runs -> {"idle", "replay", "gate"}]
    /\ \A x, y \in Runs : pc'[x] # "idle" /\ pc'[y] # "idle" => x = y
    /\ ~busy' => \A x \in Runs : pc'[x] = "idle"
    /\ \A x \in Runs : Holds(q, x) => pc'[x] \in {"replay", "gate"} \/ Holds(queue', x)

(* Queue q was pumped, unless an operation was under way. *)
Moved(q) ==
    \/ queue' = q /\ queue' \in Seq(Runs) /\ paused' \in BOOLEAN /\ UNCHANGED <<pc, busy>>
    \/ ~busy /\ Settled(q)

AllIdle == [r \in Runs |-> "idle"]

(* An entry is the first of its queue or in the rest. *)
LEMMA HeadOrTail ==
  ASSUME NEW q \in Seq(Runs), NEW x, Holds(q, x)
  PROVE  x = Head(q) \/ Holds(Tail(q), x)
<1>1. PICK i \in DOMAIN q : q[i] = x
  BY DEF Holds
<1>2. CASE i = 1
  BY <1>1, <1>2
<1>3. CASE i # 1
  <2>1. i \in 1..Len(q) /\ i - 1 \in 1..(Len(q) - 1)
    BY <1>1, <1>3
  <2>2. Len(Tail(q)) = Len(q) - 1 /\ Tail(q)[i - 1] = q[i]
    BY <2>1
  <2>3. i - 1 \in DOMAIN Tail(q)
    BY <2>1, <2>2
  <2> QED BY <1>1, <2>2, <2>3 DEF Holds
<1> QED BY <1>2, <1>3

(* What pump does when nothing runs. *)
LEMMA PumpSettles ==
  ASSUME NEW q \in Seq(Runs), NEW p \in BOOLEAN, Pump(q, p, AllIdle)
  PROVE  Settled(q)
<1>1. CASE p \/ q = <<>>
  <2>1. queue' = q /\ busy' = FALSE /\ pc' = AllIdle /\ paused' = p
    BY <1>1 DEF Pump
  <2> QED BY <2>1 DEF Settled, AllIdle
<1>2. CASE ~(p \/ q = <<>>)
  <2> DEFINE h == Head(q)
             at == IF how'[h] = "resume" THEN "replay" ELSE "gate"
  <2>1. queue' = Tail(q) /\ busy' = TRUE /\ pc' = [AllIdle EXCEPT ![h] = at] /\ paused' = p
    BY <1>2 DEF Pump
  <2>2. h \in Runs /\ Tail(q) \in Seq(Runs) /\ at \in {"replay", "gate"}
    BY <1>2
  <2> HIDE DEF h, at
  <2>3. pc' = [x \in Runs |-> IF x = h THEN at ELSE "idle"]
    BY <2>1, <2>2 DEF AllIdle
  <2>4. \A x \in Runs : Holds(q, x) => x = h \/ Holds(Tail(q), x)
    BY HeadOrTail DEF h
  <2> QED BY <2>1, <2>2, <2>3, <2>4 DEF Settled
<1> QED BY <1>1, <1>2

(* The types of the queue, the operations and the status. *)
OrchTypes ==
    /\ queue \in Seq(Runs) /\ busy \in BOOLEAN /\ paused \in BOOLEAN
    /\ pc \in [Runs -> Places]
    /\ status \in [Runs -> Statuses]
    /\ how \in [Runs -> {"fresh", "resume", "confirm", "lost"}]
    /\ up \in {"up", "stopping", "down"}

(* Nothing is under way in a session that is free. *)
LEMMA IdleWhenFree ==
  ASSUME OrchTypes, PlaceInv, ~busy \/ up = "down"
  PROVE  pc = AllIdle
BY DEF OrchTypes, PlaceInv, AllIdle

(* The end of an operation pumps the queue of its session. *)
LEMMA EndSettles ==
  ASSUME OrchTypes, PlaceInv, NEW r \in Runs, pc[r] # "idle", NEW p \in BOOLEAN, EndsWith(r, p)
  PROVE  Settled(queue)
<1>1. [pc EXCEPT ![r] = "idle"] = AllIdle
  BY DEF OrchTypes, PlaceInv, AllIdle
<1>2. Pump(queue, p, AllIdle)
  BY <1>1 DEF EndsWith
<1> QED BY <1>2, PumpSettles DEF OrchTypes

(* enqueue and enqueueFirst pump it unless an operation is under way. *)
LEMMA QueueMoves ==
  ASSUME OrchTypes, PlaceInv, NEW r, NEW q \in Seq(Runs), NEW closure, NEW p \in BOOLEAN,
         Queue(r, q, closure, p)
  PROVE  Moved(q)
<1>1. CASE busy
  BY <1>1 DEF Queue, Moved
<1>2. CASE ~busy
  <2>1. Pump(q, p, AllIdle)
    BY <1>2, IdleWhenFree DEF Queue
  <2> QED BY <1>2, <2>1, PumpSettles DEF Moved
<1> QED BY <1>1, <1>2
----------------------------------------------------------------------------
(* What a step does to the status of the runs and to the session's queue   *)

(* Nothing happens to the runs and the queue; a run is failed at once, is  *)
(* put into the queue, is taken out of it; its operation ends, or moves;   *)
(* the runtime stops, the process goes down, or comes back.                *)
OnlyStatus(r) == \A q \in Runs \ {r} : status'[q] = status[q]

Stays == UNCHANGED <<status, pc, queue, busy, paused, up>>

Fails(r) == OnlyStatus(r) /\ status'[r] = "failed" /\ UNCHANGED <<pc, queue, busy, paused, up>>

Enqueues(r) ==
    /\ up # "down" /\ up' = up
    /\ status[r] \in {"none", "awaiting_input", "awaiting_confirmation", "interrupted"}
    /\ status'[r] = "queued"
    /\ \A q \in Runs \ {r} :
          status'[q] = status[q] \/ (status[q] = "queued" /\ status'[q] = "cancelled")
    /\ \E s \in Seq(Runs) :
          /\ Moved(s)
          /\ \A q \in Runs : q = r \/ Holds(queue, q) => Holds(s, q)

Cancels(r) ==
    /\ up # "down"
    /\ status[r] = "queued" /\ status'[r] = "cancelled" /\ OnlyStatus(r)
    /\ UNCHANGED <<pc, busy, up>>
    /\ queue' \in Seq(Runs) /\ paused' \in BOOLEAN
    /\ \A q \in Runs \ {r} : Holds(queue, q) => Holds(queue', q)

Ends(r) ==
    /\ up' = up
    /\ pc[r] # "idle"
    /\ \/ status'[r] \in Statuses \ (ActiveStatuses \cup {"none", "queued"})
       \/ status'[r] = status[r] /\ pc[r] = "replay" /\ how'[r] = "lost"
    /\ status[r] = "cancelled" => status'[r] = "cancelled"
    /\ OnlyStatus(r)
    /\ Settled(queue)

Walks(r) ==
    /\ UNCHANGED <<queue, busy, paused, up>>
    /\ pc' \in [Runs -> Places]
    /\ pc[r] # "idle" /\ pc'[r] # "idle" /\ \A q \in Runs \ {r} : pc'[q] = pc[q]
    /\ OnlyStatus(r)
    /\ \/ pc[r] = "replay" /\ pc'[r] = "gate" /\ status' = status
       \/ pc[r] = "gate" /\ pc'[r] = "permit" /\ status' = status /\ PassGate(r)
       \/ /\ pc[r] = "permit" /\ pc'[r] \in Late
          /\ pc'[r] = "preflight" => up # "stopping"
          /\ status[r] # "cancelled" /\ status'[r] \in ActiveStatuses
       \/ /\ pc[r] \in Late /\ pc'[r] \in Late
          /\ status'[r] \in ActiveStatuses \cup {status[r]}
    /\ pc'[r] \in {"build", "loop"} => pc[r] = "build" \/ Route(r) \/ LoopReturns(r)

Stops == up = "up" /\ up' = "stopping" /\ status' = status /\ Moved(queue)

Forgets ==
    /\ up # "down" /\ up' = "down" /\ status' = status
    /\ queue' = <<>> /\ busy' = FALSE /\ paused' = FALSE /\ pc' = AllIdle

Restarts ==
    /\ up = "down" /\ up' = "up"
    /\ status' = [r \in Runs |-> IF status[r] \in ActiveStatuses THEN "interrupted"
                                                                 ELSE status[r]]
    /\ \E s \in Seq(Runs) :
          Settled(s) /\ \A r \in Runs : status[r] = "queued" => Holds(s, r)

Kinds ==
    \/ Stays \/ Stops \/ Forgets \/ Restarts
    \/ \E r \in Runs : Fails(r) \/ Enqueues(r) \/ Cancels(r) \/ Ends(r) \/ Walks(r)

(* A longer queue has the entries of the shorter one. *)
LEMMA AppendHolds ==
  ASSUME NEW q \in Seq(Runs), NEW r \in Runs
  PROVE  /\ Append(q, r) \in Seq(Runs)
         /\ \A x \in Runs : x = r \/ Holds(q, x) => Holds(Append(q, r), x)
<1>1. Append(q, r) \in Seq(Runs)
  OBVIOUS
<1>2. Len(Append(q, r)) = Len(q) + 1 /\ Append(q, r)[Len(q) + 1] = r
  OBVIOUS
<1>3. \A i \in DOMAIN q : i \in DOMAIN Append(q, r) /\ Append(q, r)[i] = q[i]
  OBVIOUS
<1>4. Len(q) + 1 \in DOMAIN Append(q, r)
  BY <1>1, <1>2
<1> QED BY <1>1, <1>2, <1>3, <1>4 DEF Holds

LEMMA PrependHolds ==
  ASSUME NEW q \in Seq(Runs), NEW r \in Runs
  PROVE  /\ <<r>> \o q \in Seq(Runs)
         /\ \A x \in Runs : x = r \/ Holds(q, x) => Holds(<<r>> \o q, x)
<1>1. <<r>> \o q \in Seq(Runs) /\ Len(<<r>> \o q) = Len(q) + 1
  OBVIOUS
<1>2. (<<r>> \o q)[1] = r /\ 1 \in DOMAIN (<<r>> \o q)
  BY <1>1
<1>3. \A i \in DOMAIN q : i + 1 \in DOMAIN (<<r>> \o q) /\ (<<r>> \o q)[i + 1] = q[i]
  BY <1>1
<1> QED BY <1>1, <1>2, <1>3 DEF Holds

(* cancelRun keeps the other entries. *)
LEMMA WithoutHolds ==
  ASSUME NEW q \in Seq(Runs), NEW i \in DOMAIN q, NEW r, q[i] = r
  PROVE  /\ Without(q, i) \in Seq(Runs)
         /\ \A x \in Runs \ {r} : Holds(q, x) => Holds(Without(q, i), x)
<1> DEFINE n == Len(q)
           w == Without(q, i)
<1>1. n \in Nat /\ i \in 1..n /\ n - 1 \in Nat
  OBVIOUS
<1>2. w = [j \in 1..(n - 1) |-> IF j < i THEN q[j] ELSE q[j + 1]]
  BY DEF Without
<1>3. \A j \in 1..(n - 1) : (IF j < i THEN q[j] ELSE q[j + 1]) \in Runs
  BY <1>1
<1>4. w \in Seq(Runs)
  <2>1. w \in [1..(n - 1) -> Runs]
    BY <1>2, <1>3
  <2> HIDE DEF w, n
  <2> QED BY <1>1, <2>1
<1>5. ASSUME NEW x \in Runs \ {r}, NEW j \in DOMAIN q, q[j] = x
      PROVE  Holds(w, x)
  <2>1. CASE j < i
    <3>1. j \in 1..(n - 1) /\ w[j] = x
      BY <1>1, <1>2, <1>5, <2>1
    <3> QED BY <1>2, <3>1 DEF Holds
  <2>2. CASE j > i
    <3>1. j - 1 \in 1..(n - 1) /\ w[j - 1] = x
      BY <1>1, <1>2, <1>5, <2>2
    <3> QED BY <1>2, <3>1 DEF Holds
  <2> QED BY <1>1, <1>5, <2>1, <2>2
<1> QED BY <1>4, <1>5 DEF Holds

(* One run gets a new status. *)
LEMMA StatusOf ==
  ASSUME OrchTypes, NEW r \in Runs, NEW to, status' = [status EXCEPT ![r] = to]
  PROVE  status'[r] = to /\ OnlyStatus(r)
BY DEF OrchTypes, OnlyStatus

(* An operation at work has not been cancelled in the queue. *)
LEMMA LateStatus ==
  ASSUME PlaceInv, NEW r \in Runs, pc[r] \in Late
  PROVE  pc[r] # "idle" /\ status[r] # "cancelled"
BY DEF PlaceInv, Late, ActiveStatuses

(* The end of an operation that settles the status of its run. *)
LEMMA EndEnds ==
  ASSUME OrchTypes, PlaceInv, NEW r \in Runs, pc[r] # "idle", NEW p \in BOOLEAN, End(r, p),
         NEW to \in {"awaiting_input", "awaiting_confirmation", "completed", "failed",
                     "cancelled", "interrupted"},
         status' = [status EXCEPT ![r] = to],
         status[r] = "cancelled" => to = "cancelled", up' = up
  PROVE  Ends(r)
<1>1. Settled(queue)
  BY EndSettles DEF End
<1>2. status'[r] = to /\ OnlyStatus(r)
  BY StatusOf
<1> QED BY <1>1, <1>2 DEF Ends, Statuses, ActiveStatuses

(* The catch of an operation ends it, whatever its verdict. *)
LEMMA FailEnds ==
  ASSUME OrchTypes, PlaceInv, NEW r \in Runs, pc[r] # "idle", status[r] # "cancelled",
         Fail(r), up' = up
  PROVE  Ends(r)
<1>1. PICK to \in {"interrupted", "cancelled", "failed"} : status' = [status EXCEPT ![r] = to]
  BY DEF Fail
<1>2. End(r, paused) /\ paused \in BOOLEAN
  BY DEF Fail, OrchTypes
<1> QED BY <1>1, <1>2, EndEnds

(* A run gets an entry at either end of the queue. *)
LEMMA EnqueueEnqueues ==
  ASSUME OrchTypes, PlaceInv, NEW r \in Runs,
         Moved(Append(queue, r)) \/ Moved(<<r>> \o queue),
         status[r] \in {"none", "awaiting_input", "awaiting_confirmation", "interrupted"},
         status'[r] = "queued",
         \A q \in Runs \ {r} :
            status'[q] = status[q] \/ (status[q] = "queued" /\ status'[q] = "cancelled"),
         up # "down", up' = up
  PROVE  Enqueues(r)
<1>1. PICK s \in {Append(queue, r), <<r>> \o queue} : Moved(s)
  OBVIOUS
<1>2. s \in Seq(Runs) /\ \A q \in Runs : q = r \/ Holds(queue, q) => Holds(s, q)
  <2>1. CASE s = Append(queue, r)
    BY <2>1, AppendHolds DEF OrchTypes
  <2>2. CASE s = <<r>> \o queue
    BY <2>2, PrependHolds DEF OrchTypes
  <2> QED BY <1>1, <2>1, <2>2
<1> QED BY <1>1, <1>2 DEF Enqueues

LEMMA QueueAppends ==
  ASSUME OrchTypes, PlaceInv, NEW r \in Runs, NEW closure, Queue(r, Append(queue, r), closure, paused)
  PROVE  Moved(Append(queue, r))
<1>1. Append(queue, r) \in Seq(Runs) /\ paused \in BOOLEAN
  BY DEF OrchTypes
<1> QED BY <1>1, QueueMoves

LEMMA QueuePrepends ==
  ASSUME OrchTypes, PlaceInv, NEW r \in Runs, NEW closure, Queue(r, <<r>> \o queue, closure, FALSE)
  PROVE  Moved(<<r>> \o queue)
<1>1. <<r>> \o queue \in Seq(Runs) /\ FALSE \in BOOLEAN
  BY DEF OrchTypes
<1> QED BY <1>1, QueueMoves

(* The ends of an operation whose run waits for the user or is complete. *)
LEMMA AskEnds ==
  ASSUME OrchTypes, PlaceInv, NEW r \in Runs, Ask(r) \/ AskConfirmation(r) \/ Complete(r)
  PROVE  Ends(r)
<1>1. /\ pc[r] \in Late /\ up' = up
      /\ \E p \in {TRUE, paused} : End(r, p)
      /\ \E to \in {"awaiting_input", "awaiting_confirmation", "completed"} :
            status' = [status EXCEPT ![r] = to]
  BY DEF Ask, AskConfirmation, Complete, TransitionRun, UpdateRun, Late, Early, Places, Loops
<1>2. \E p \in BOOLEAN : End(r, p)
  BY <1>1 DEF OrchTypes
<1> QED BY <1>1, <1>2, LateStatus, EndEnds

(* Every step is of one of the kinds. *)
LEMMA KindOfStep ==
  ASSUME OrchTypes, PlaceInv, Next
  PROVE  Kinds
<1>1. ASSUME NEW r \in Runs, SendQueued(r) \/ SendCommand(r)
      PROVE  Enqueues(r)
  <2>1. /\ status[r] = "none" /\ status' = [status EXCEPT ![r] = "queued"]
        /\ up = "up" /\ up' = up
        /\ Moved(Append(queue, r))
    BY <1>1, QueueAppends DEF SendQueued, SendCommand, Create, UpdateRun
  <2>2. status'[r] = "queued" /\ \A q \in Runs \ {r} : status'[q] = status[q]
    BY <2>1, StatusOf DEF OnlyStatus
  <2> QED BY <2>1, <2>2, EnqueueEnqueues
<1>2. ASSUME NEW r \in Runs, SendPreempting(r)
      PROVE  Enqueues(r)
  <2>1. /\ status[r] = "none"
        /\ up = "up" /\ up' = up
        /\ Moved(Append(queue, r))
    BY <1>2, QueueAppends DEF SendPreempting, Create
  <2>2. /\ status'[r] = "queued"
        /\ \A q \in Runs \ {r} :
              status'[q] = status[q] \/ (status[q] = "queued" /\ status'[q] = "cancelled")
    BY <1>2 DEF SendPreempting
  <2> QED BY <2>1, <2>2, EnqueueEnqueues
<1>3. ASSUME NEW r \in Runs, Clarify(r)
      PROVE  Enqueues(r)
  <2>1. /\ status[r] = "awaiting_input" /\ status' = [status EXCEPT ![r] = "queued"]
        /\ up = "up" /\ up' = up /\ Moved(<<r>> \o queue)
    BY <1>3, QueuePrepends DEF Clarify, UpdateRun
  <2>2. status'[r] = "queued" /\ \A q \in Runs \ {r} : status'[q] = status[q]
    BY <2>1, StatusOf DEF OnlyStatus
  <2> QED BY <2>1, <2>2, EnqueueEnqueues
<1>4. ASSUME NEW r \in Runs, ConfirmPlan(r)
      PROVE  Enqueues(r)
  <2>1. /\ status[r] = "awaiting_confirmation" /\ status' = [status EXCEPT ![r] = "queued"]
        /\ up # "down" /\ up' = up
        /\ Moved(Append(queue, r))
    BY <1>4, QueueAppends DEF ConfirmPlan, TransitionRun, UpdateRun
  <2>2. status'[r] = "queued" /\ \A q \in Runs \ {r} : status'[q] = status[q]
    BY <2>1, StatusOf DEF OnlyStatus
  <2> QED BY <2>1, <2>2, EnqueueEnqueues
<1>5. ASSUME NEW r \in Runs, Resumable(r), Requeue(r), up # "down", up' = up
      PROVE  Enqueues(r)
  <2>1. /\ status[r] = "interrupted" /\ status' = [status EXCEPT ![r] = "queued"]
        /\ Moved(Append(queue, r))
    BY <1>5, QueueAppends DEF Resumable, Requeue, TransitionRun, UpdateRun
  <2>2. status'[r] = "queued" /\ \A q \in Runs \ {r} : status'[q] = status[q]
    BY <2>1, StatusOf DEF OnlyStatus
  <2> QED BY <1>5, <2>1, <2>2, EnqueueEnqueues
<1>6. ASSUME NEW r \in Runs, ResumeRun(r) \/ Recover(r)
      PROVE  Enqueues(r) \/ Stays
  <2>1. up # "down" /\ up' = up
    BY <1>6 DEF ResumeRun, Recover
  <2>2. (Resumable(r) /\ Requeue(r)) \/ Stays
    BY <1>6, <2>1 DEF ResumeRun, Recover, Stays
  <2> QED BY <2>1, <2>2, <1>5
<1>7. ASSUME NEW r \in Runs, ClarifyTooOften(r) \/ \E a \in ActionsOf(r) : Reject(a)
      PROVE  Fails(r)
  <2>1. /\ status' = [status EXCEPT ![r] = "failed"]
        /\ UNCHANGED <<pc, queue, busy, paused, up>>
    BY <1>7 DEF ClarifyTooOften, Reject, TransitionRun, UpdateRun, ActionsOf
  <2> QED BY <2>1, StatusOf DEF Fails
<1>8. ASSUME NEW r \in Runs, CancelActive(r) \/ Reconciled(r) \/ ModelMessage(r)
      PROVE  Stays
  BY <1>8 DEF CancelActive, Reconciled, ModelMessage, Stays
<1>9. ASSUME NEW a \in Actions, NEW b \in BOOLEAN,
             \/ Acknowledge(a) \/ ApproveRecovered(a) \/ RecoveredEnds(a, b) \/ ReplayRead(a)
             \/ CallTool(a, b) \/ BlockTool(a) \/ ApproveTool(a) \/ DenyTool(a) \/ ToolEnds(a, b)
      PROVE  Stays
  BY <1>9 DEF Acknowledge, ApproveRecovered, RecoveredEnds, ReplayRead, CallTool, BlockTool,
              ApproveTool, DenyTool, ToolEnds, Stays
<1>10. ASSUME NEW r \in Runs, CancelQueued(r)
       PROVE  Cancels(r)
  <2>1. /\ status[r] = "queued" /\ status' = [status EXCEPT ![r] = "cancelled"]
        /\ up # "down" /\ UNCHANGED <<pc, busy, up>>
        /\ paused' \in BOOLEAN
        /\ queue' = queue \/ (\E i \in DOMAIN queue : queue[i] = r /\ queue' = Without(queue, i))
    BY <1>10 DEF CancelQueued, UpdateRun, OrchTypes
  <2>2. /\ queue' \in Seq(Runs)
        /\ \A q \in Runs \ {r} : Holds(queue, q) => Holds(queue', q)
    BY <2>1, WithoutHolds DEF OrchTypes
  <2> QED BY <2>1, <2>2, StatusOf DEF Cancels
<1>0. ASSUME NEW r \in Runs, ReplayFails(r)
      PROVE  Ends(r)
  <2>1. /\ pc[r] = "replay" /\ status' = status /\ up' = up
        /\ EndsWith(r, paused) /\ paused \in BOOLEAN
        /\ how' = [how EXCEPT ![r] = "lost"]
    BY <1>0 DEF ReplayFails, OrchTypes
  <2>2. how'[r] = "lost"
    BY <2>1 DEF OrchTypes
  <2>3. Settled(queue)
    BY <2>1, EndSettles
  <2> QED BY <2>1, <2>2, <2>3 DEF Ends, OnlyStatus
<1>11. ASSUME NEW r \in Runs, ReplayDone(r) \/ PassGate(r)
       PROVE  Walks(r)
  BY <1>11 DEF ReplayDone, PassGate, Walks, OrchTypes, OnlyStatus, Places
<1>12. ASSUME NEW r \in Runs, NEW to, NEW st, pc[r] \in Late, to \in Late,
              pc' = [pc EXCEPT ![r] = to],
              status' = [status EXCEPT ![r] = st], st \in ActiveStatuses \cup {status[r]},
              UNCHANGED <<queue, busy, paused, up>>,
              to \in {"build", "loop"} => pc[r] = "build" \/ Route(r) \/ LoopReturns(r)
       PROVE  Walks(r)
  <2>1. status'[r] = st /\ OnlyStatus(r)
    BY <1>12, StatusOf
  <2>2. /\ pc'[r] = to /\ \A q \in Runs \ {r} : pc'[q] = pc[q]
        /\ pc' \in [Runs -> Places]
    BY <1>12 DEF OrchTypes, Late
  <2> QED BY <1>12, <2>1, <2>2 DEF Walks, Late
<1>13. ASSUME NEW r \in Runs, StartLoop(r) \/ Accept(r) \/ CorrectionReturns(r)
       PROVE  Walks(r)
  <2>1. PICK to \in Late : /\ pc' = [pc EXCEPT ![r] = to]
                           /\ to \in {"build", "loop"} => pc[r] = "build"
    BY <1>13 DEF StartLoop, Accept, CorrectionReturns, Late, Early, Places, Loops
  <2>2. pc[r] \in Late /\ UNCHANGED <<status, queue, busy, paused, up>>
    BY <1>13 DEF StartLoop, Accept, CorrectionReturns, Late, Early, Places, Loops
  <2>3. \E st \in ActiveStatuses \cup {status[r]} : status' = [status EXCEPT ![r] = st]
    BY <2>2 DEF OrchTypes
  <2>4. to \in {"build", "loop"} => pc[r] = "build" \/ Route(r) \/ LoopReturns(r)
    BY <2>1
  <2>5. pc' = [pc EXCEPT ![r] = to]
    BY <2>1
  <2> QED BY <1>12, <2>2, <2>3, <2>4, <2>5
<1>14. ASSUME NEW r \in Runs, Correct(r)
       PROVE  Walks(r)
  <2>1. /\ pc[r] \in Late /\ "rebuild" \in Late /\ pc' = [pc EXCEPT ![r] = "rebuild"]
        /\ status' = [status EXCEPT ![r] = "running"] /\ UNCHANGED <<queue, busy, paused, up>>
    BY <1>14 DEF Correct, UpdateRun, Late, Early, Places, Loops
  <2>2. "running" \in ActiveStatuses
    BY DEF ActiveStatuses
  <2> QED BY <1>12, <2>1, <2>2
<1>15. ASSUME NEW r \in Runs, Route(r)
       PROVE  Walks(r)
  <2>1. /\ pc[r] \in Late /\ UNCHANGED <<queue, busy, paused, up>>
        /\ \E to \in {"verify", "build"} : pc' = [pc EXCEPT ![r] = to]
        /\ \E st \in {"verifying", "running"} : status' = [status EXCEPT ![r] = st]
    BY <1>15 DEF Route, Late, Early, Places, Loops
  <2>2. {"verify", "build"} \subseteq Late /\ {"verifying", "running"} \subseteq ActiveStatuses
    BY DEF Late, Early, Places, Loops, ActiveStatuses
  <2> QED BY <1>12, <1>15, <2>1, <2>2
<1>16. ASSUME NEW r \in Runs, NEW to \in {"preflight", "command"}, NEW st \in {"preflight", "running"},
              pc[r] = "permit", status[r] # "cancelled", pc' = [pc EXCEPT ![r] = to],
              TransitionRun(r, st), UNCHANGED <<queue, busy, paused, up>>,
              to = "preflight" => up # "stopping"
       PROVE  Walks(r)
  <2>1. status'[r] = st /\ OnlyStatus(r)
    BY <1>16, StatusOf DEF TransitionRun, UpdateRun
  <2>2. /\ pc'[r] = to /\ \A q \in Runs \ {r} : pc'[q] = pc[q]
        /\ pc' \in [Runs -> Places]
    BY <1>16 DEF OrchTypes, Places
  <2>3. to \in Late /\ st \in ActiveStatuses
    BY DEF Late, Early, Places, Loops, ActiveStatuses
  <2> QED BY <1>16, <2>1, <2>2, <2>3 DEF Walks, Late
<1>17. ASSUME NEW r \in Runs, Begin(r)
       PROVE  Walks(r)
  <2>1. /\ pc[r] = "permit" /\ status[r] # "cancelled" /\ pc' = [pc EXCEPT ![r] = "preflight"]
        /\ TransitionRun(r, "preflight") /\ UNCHANGED <<queue, busy, paused, up>>
        /\ up # "stopping"
    BY <1>17 DEF Begin
  <2> QED BY <1>16, <2>1
<1>18. ASSUME NEW r \in Runs, Throw(r) \/ LoopThrows(r)
       PROVE  Ends(r)
  <2>1. pc[r] \in Late /\ Fail(r) /\ up' = up
    BY <1>18 DEF Throw, LoopThrows, Late, Early, Places, Loops
  <2> QED BY <2>1, LateStatus, FailEnds
<1>19. ASSUME NEW r \in Runs, LoopReturns(r)
       PROVE  Walks(r) \/ Ends(r)
  <2>1. pc[r] \in Late /\ up' = up
    BY <1>19 DEF LoopReturns, Late, Early, Places, Loops
  <2>2. \/ Fail(r)
        \/ /\ UNCHANGED <<queue, busy, paused>>
           /\ \E to \in {"build", "verify", "memory"} : pc' = [pc EXCEPT ![r] = to]
           /\ status' = status \/ status' = [status EXCEPT ![r] = "verifying"]
    BY <1>19 DEF LoopReturns
  <2>3. CASE Fail(r)
    BY <2>1, <2>3, LateStatus, FailEnds
  <2>4. CASE ~Fail(r)
    <3>1. PICK to \in {"build", "verify", "memory"} : pc' = [pc EXCEPT ![r] = to]
      BY <2>2, <2>4
    <3>2. to \in Late /\ "verifying" \in ActiveStatuses
      BY DEF Late, Early, Places, Loops, ActiveStatuses
    <3>3. \E st \in ActiveStatuses \cup {status[r]} : status' = [status EXCEPT ![r] = st]
      BY <2>2, <2>4, <3>2 DEF OrchTypes
    <3> QED BY <1>12, <1>19, <2>1, <2>2, <2>4, <3>1, <3>2, <3>3
  <2> QED BY <2>3, <2>4
<1>20. ASSUME NEW r \in Runs, Discard(r)
       PROVE  Ends(r)
  <2>1. /\ pc[r] = "permit" /\ End(r, paused) /\ up' = up
        /\ \/ status[r] = "cancelled" /\ status' = status
           \/ status' = [status EXCEPT ![r] = "cancelled"]
    BY <1>20 DEF Discard, TransitionRun, UpdateRun
  <2>2. status' = [status EXCEPT ![r] = "cancelled"] /\ paused \in BOOLEAN
    BY <2>1 DEF OrchTypes
  <2> QED BY <2>1, <2>2, EndEnds
<1>21. ASSUME NEW r \in Runs, Ask(r) \/ AskConfirmation(r) \/ Complete(r)
       PROVE  Ends(r)
  BY <1>21, AskEnds
<1>22. ASSUME NEW a \in Actions, NEW ask \in BOOLEAN, CommandBegin(a, ask)
       PROVE  Ends(RunOf[a]) \/ Walks(RunOf[a])
  <2>1. /\ pc[RunOf[a]] = "permit" /\ status[RunOf[a]] # "cancelled" /\ up' = up
        /\ \/ Fail(RunOf[a])
           \/ /\ TransitionRun(RunOf[a], "running")
              /\ pc' = [pc EXCEPT ![RunOf[a]] = "command"]
              /\ UNCHANGED <<queue, busy, paused>>
    BY <1>22 DEF CommandBegin
  <2>2. RunOf[a] \in Runs
    BY RunOfType
  <2> QED BY <1>16, <2>1, <2>2, FailEnds
<1>23. ASSUME NEW a \in Actions, CommandApprove(a)
       PROVE  Ends(RunOf[a]) \/ Stays
  <2>1. /\ pc[RunOf[a]] \in Late /\ up' = up
        /\ Fail(RunOf[a]) \/ Stays
    BY <1>23 DEF CommandApprove, Stays, Late, Early, Places, Loops
  <2> QED BY <2>1, RunOfType, LateStatus, FailEnds
<1>24. ASSUME NEW a \in Actions, CommandDeny(a)
       PROVE  Ends(RunOf[a])
  <2>1. pc[RunOf[a]] \in Late /\ up' = up /\ Fail(RunOf[a])
    BY <1>24 DEF CommandDeny, Late, Early, Places, Loops
  <2> QED BY <2>1, RunOfType, LateStatus, FailEnds
<1>25. ASSUME NEW a \in Actions, NEW ok \in BOOLEAN, CommandEnds(a, ok)
       PROVE  Ends(RunOf[a])
  <2>1. /\ pc[RunOf[a]] \in Late /\ up' = up
        /\ \/ Fail(RunOf[a])
           \/ End(RunOf[a], paused) /\ status' = [status EXCEPT ![RunOf[a]] = "completed"]
    BY <1>25 DEF CommandEnds, TransitionRun, UpdateRun, Late, Early, Places, Loops
  <2>2. paused \in BOOLEAN /\ RunOf[a] \in Runs
    BY RunOfType DEF OrchTypes
  <2> QED BY <2>1, <2>2, LateStatus, FailEnds, EndEnds
<1>26. CASE Stop
  <2>1. CASE busy
    BY <1>26, <2>1 DEF Stop, Stops, Moved, OrchTypes, Kinds
  <2>2. CASE ~busy
    <3>1. Pump(queue, FALSE, AllIdle) /\ queue \in Seq(Runs) /\ FALSE \in BOOLEAN
      BY <1>26, <2>2, IdleWhenFree DEF Stop, OrchTypes
    <3>2. Settled(queue)
      BY <3>1, PumpSettles
    <3> QED BY <1>26, <2>2, <3>2 DEF Stop, Stops, Moved, Kinds
  <2> QED BY <2>1, <2>2
<1>27. CASE Exit \/ Crash
  BY <1>27 DEF Exit, Crash, Forget, Forgets, AllIdle, Kinds
<1>28. CASE Restart
  <2> DEFINE Q == {r \in Runs : status[r] = "queued"}
  <2>1. PICK s \in Orders(Q) : Pump(s, Awaiting # {} /\ s # <<>>, pc)
    BY <1>28 DEF Restart
  <2>2. s \in Seq(Runs) /\ \A r \in Q : Holds(s, r)
    <3>1. Cardinality(Q) \in Nat
      BY RunsAssumption, FS_Subset, FS_CardinalityType
    <3>2. s \in [1..Cardinality(Q) -> Q] /\ \A r \in Q : Holds(s, r)
      BY <2>1 DEF Orders, Holds
    <3>3. s \in [1..Cardinality(Q) -> Runs]
      BY <3>2
    <3> DEFINE n == Cardinality(Q)
    <3>4. n \in Nat /\ s \in [1..n -> Runs]
      BY <3>1, <3>3
    <3> HIDE DEF n
    <3>5. s \in Seq(Runs)
      BY <3>4
    <3> QED BY <3>2, <3>5
  <2>3. Settled(s)
    <3>1. Pump(s, Awaiting # {} /\ s # <<>>, AllIdle)
      BY <1>28, <2>1, IdleWhenFree DEF Restart
    <3> QED BY <2>2, <3>1, PumpSettles
  <2> QED BY <1>28, <2>2, <2>3 DEF Restart, Restarts, Kinds
<1> QED
  BY <1>0, <1>1, <1>2, <1>3, <1>4, <1>6, <1>7, <1>8, <1>9, <1>10, <1>11, <1>13, <1>14, <1>15, <1>17,
     <1>18, <1>19, <1>20, <1>21, <1>22, <1>23, <1>24, <1>25, <1>26, <1>27, <1>28, RunOfType
     DEF Next, User, RunStep, ModelStep, ActionsOf, Kinds
----------------------------------------------------------------------------
(* The invariants                                                          *)

PlaceTypes ==
    /\ queue \in Seq(Runs) /\ busy \in BOOLEAN /\ paused \in BOOLEAN
    /\ pc \in [Runs -> Places]
    /\ up \in {"up", "stopping", "down"}

(* Steps of these kinds keep the types. *)
LEMMA PlaceTypesStep ==
  ASSUME OrchTypes, Kinds
  PROVE  PlaceTypes'
<1> USE DEF OrchTypes, PlaceTypes
<1>1. CASE Stays
  BY <1>1 DEF Stays
<1>2. CASE Stops
  BY <1>2 DEF Stops, Moved, Settled, Places
<1>3. CASE Forgets
  <2>1. <<>> \in Seq(Runs) /\ AllIdle \in [Runs -> Places]
    BY DEF AllIdle, Places
  <2> QED BY <1>3, <2>1 DEF Forgets
<1>4. CASE Restarts
  BY <1>4 DEF Restarts, Settled, Places
<1>5. ASSUME NEW r \in Runs, Fails(r) PROVE PlaceTypes'
  BY <1>5 DEF Fails
<1>6. ASSUME NEW r \in Runs, Enqueues(r) PROVE PlaceTypes'
  BY <1>6 DEF Enqueues, Moved, Settled, Places
<1>7. ASSUME NEW r \in Runs, Cancels(r) PROVE PlaceTypes'
  BY <1>7 DEF Cancels
<1>8. ASSUME NEW r \in Runs, Ends(r) PROVE PlaceTypes'
  BY <1>8 DEF Ends, Settled, Places
<1>9. ASSUME NEW r \in Runs, Walks(r) PROVE PlaceTypes'
  BY <1>9 DEF Walks, Late, Places
<1> QED BY <1>1, <1>2, <1>3, <1>4, <1>5, <1>6, <1>7, <1>8, <1>9 DEF Kinds

(* Steps of these kinds keep status and operations in agreement, ... *)
LEMMA PlaceStep ==
  ASSUME OrchTypes, PlaceInv, Kinds
  PROVE  PlaceInv'
<1> USE DEF Early
<1>1. CASE Stays
  BY <1>1 DEF Stays, PlaceInv
<1>2. CASE Stops
  BY <1>2 DEF Stops, Moved, Settled, PlaceInv, Late
<1>3. CASE Forgets
  BY <1>3 DEF Forgets, AllIdle, PlaceInv, Late
<1>4. CASE Restarts
  BY <1>4 DEF Restarts, Settled, PlaceInv, Late, ActiveStatuses
<1>5. ASSUME NEW r \in Runs, Fails(r) PROVE PlaceInv'
  BY <1>5 DEF Fails, OnlyStatus, PlaceInv, ActiveStatuses
<1>6. ASSUME NEW r \in Runs, Enqueues(r) PROVE PlaceInv'
  BY <1>6 DEF Enqueues, Moved, Settled, PlaceInv, Late, ActiveStatuses
<1>7. ASSUME NEW r \in Runs, Cancels(r) PROVE PlaceInv'
  BY <1>7 DEF Cancels, OnlyStatus, PlaceInv, ActiveStatuses
<1>8. ASSUME NEW r \in Runs, Ends(r) PROVE PlaceInv'
  BY <1>8 DEF Ends, OnlyStatus, Settled, PlaceInv, Late, ActiveStatuses
<1>9. ASSUME NEW r \in Runs, Walks(r) PROVE PlaceInv'
  BY <1>9 DEF Walks, OnlyStatus, PlaceInv, Late
<1> QED BY <1>1, <1>2, <1>3, <1>4, <1>5, <1>6, <1>7, <1>8, <1>9 DEF Kinds

(* ... keep in mind which queued runs their replay has lost, ... *)
LostKept ==
    up' = "down" \/ \A q \in Runs : status[q] = "queued" /\ how[q] = "lost" => how'[q] = "lost"

LEMMA LostStep ==
  ASSUME OrchTypes, Next
  PROVE  LostKept
<1>0. ASSUME how' = how PROVE LostKept
  BY <1>0 DEF LostKept
<1>1. ASSUME NEW r \in Runs, NEW closure, how' = [how EXCEPT ![r] = closure],
             status[r] # "queued" \/ closure = "lost"
      PROVE  LostKept
  BY <1>1 DEF LostKept, OrchTypes
<1>2. ASSUME NEW r \in Runs,
             \/ SendQueued(r) \/ SendPreempting(r) \/ SendCommand(r) \/ Clarify(r)
             \/ ConfirmPlan(r) \/ ResumeRun(r) \/ Recover(r) \/ ReplayFails(r)
      PROVE  LostKept
  <2>1. \/ how' = how
        \/ \E closure \in {"fresh", "resume", "confirm", "lost"} :
              /\ how' = [how EXCEPT ![r] = closure]
              /\ status[r] # "queued" \/ closure = "lost"
    BY <1>2 DEF SendQueued, SendPreempting, SendCommand, Create, Clarify, ConfirmPlan, ResumeRun,
                Recover, Resumable, Requeue, Queue, ReplayFails
  <2> QED BY <1>0, <1>1, <2>1
<1>3. ASSUME NEW r \in Runs,
             \/ ClarifyTooOften(r) \/ CancelQueued(r) \/ CancelActive(r)
             \/ ReplayDone(r) \/ PassGate(r) \/ Discard(r) \/ Begin(r)
             \/ Ask(r) \/ AskConfirmation(r) \/ Route(r) \/ Throw(r)
             \/ StartLoop(r) \/ LoopThrows(r) \/ LoopReturns(r)
             \/ Accept(r) \/ Correct(r) \/ CorrectionReturns(r) \/ Complete(r)
             \/ ModelMessage(r) \/ Reconciled(r)
      PROVE  how' = how
  BY <1>3 DEF ClarifyTooOften, CancelQueued, CancelActive, ReplayDone, PassGate, Discard, Begin,
              Ask, AskConfirmation, Route, Throw, StartLoop, LoopThrows, LoopReturns, Accept,
              Correct, CorrectionReturns, Complete, ModelMessage, Reconciled, Fail, End
<1>4. ASSUME NEW a \in Actions, NEW b \in BOOLEAN,
             \/ Reject(a) \/ Acknowledge(a) \/ ApproveRecovered(a) \/ ApproveTool(a)
             \/ CommandApprove(a) \/ ReplayRead(a) \/ DenyTool(a) \/ CommandDeny(a)
             \/ CommandBegin(a, b) \/ RecoveredEnds(a, b) \/ ToolEnds(a, b)
             \/ CommandEnds(a, b) \/ BlockTool(a) \/ CallTool(a, b)
      PROVE  how' = how
  BY <1>4 DEF Reject, Acknowledge, ApproveRecovered, ApproveTool, CommandApprove, ReplayRead,
              DenyTool, CommandDeny, CommandBegin, RecoveredEnds, ToolEnds, CommandEnds,
              BlockTool, CallTool, Fail, End
<1>5. CASE Stop \/ Restart
  BY <1>0, <1>5 DEF Stop, Restart
<1>6. CASE Exit \/ Crash
  BY <1>6 DEF Exit, Crash, Forget, LostKept
<1> QED
  BY <1>0, <1>2, <1>3, <1>4, <1>5, <1>6 DEF Next, User, RunStep, ModelStep, ActionsOf

(* ... strand no other queued run, ... *)
LEMMA EntryStep ==
  ASSUME OrchTypes, PlaceInv, EntryInv, Kinds, LostKept
  PROVE  EntryInv'
<1> USE DEF Early, LostKept
<1>1. CASE Stays
  BY <1>1 DEF Stays, EntryInv, Holds
<1>2. CASE Stops
  <2>1. CASE ~busy /\ Settled(queue)
    BY <1>2, <2>1 DEF Stops, Settled, EntryInv, PlaceInv
  <2>2. CASE queue' = queue /\ pc' = pc
    BY <1>2, <2>2 DEF Stops, EntryInv
  <2> QED BY <1>2, <2>1, <2>2 DEF Stops, Moved
<1>3. CASE Forgets
  BY <1>3 DEF Forgets, EntryInv
<1>4. CASE Restarts
  BY <1>4 DEF Restarts, Settled, EntryInv
<1>5. ASSUME NEW r \in Runs, Fails(r) PROVE EntryInv'
  BY <1>5 DEF Fails, OnlyStatus, EntryInv, Holds
<1>6. ASSUME NEW r \in Runs, Enqueues(r) PROVE EntryInv'
  <2>1. PICK s \in Seq(Runs) : /\ Moved(s)
                               /\ \A q \in Runs : q = r \/ Holds(queue, q) => Holds(s, q)
    BY <1>6 DEF Enqueues
  <2>2. ASSUME NEW q \in Runs, status'[q] = "queued" PROVE q = r \/ (status[q] = "queued" /\ up # "down")
    BY <1>6, <2>2 DEF Enqueues
  <2>3. CASE ~busy /\ Settled(s)
    BY <2>1, <2>2, <2>3 DEF Settled, EntryInv, PlaceInv
  <2>4. CASE queue' = s /\ pc' = pc
    BY <2>1, <2>2, <2>4 DEF EntryInv
  <2> QED BY <2>1, <2>3, <2>4 DEF Moved
<1>7. ASSUME NEW r \in Runs, Cancels(r) PROVE EntryInv'
  BY <1>7 DEF Cancels, OnlyStatus, EntryInv
<1>8. ASSUME NEW r \in Runs, Ends(r) PROVE EntryInv'
  BY <1>8 DEF Ends, OnlyStatus, Settled, PlaceInv, EntryInv
<1>9. ASSUME NEW r \in Runs, Walks(r) PROVE EntryInv'
  BY <1>9 DEF Walks, OnlyStatus, EntryInv, PlaceInv, Late, ActiveStatuses, Holds
<1> QED BY <1>1, <1>2, <1>3, <1>4, <1>5, <1>6, <1>7, <1>8, <1>9 DEF Kinds

(* ... and do not let a cancelled run work. *)
LEMMA CancelledStep ==
  ASSUME OrchTypes, PlaceInv, Kinds, NEW q \in Runs, status[q] = "cancelled"
  PROVE  status'[q] \in {"cancelled", "failed"}
<1>1. CASE Stays \/ Stops \/ Forgets \/ Restarts
  BY <1>1 DEF Stays, Stops, Forgets, Restarts, ActiveStatuses
<1>2. ASSUME NEW r \in Runs, Fails(r) \/ Enqueues(r) \/ Cancels(r)
      PROVE  status'[q] \in {"cancelled", "failed"}
  BY <1>2 DEF Fails, Enqueues, Cancels, OnlyStatus
<1>3. ASSUME NEW r \in Runs, Ends(r)
      PROVE  status'[q] \in {"cancelled", "failed"}
  BY <1>3 DEF Ends, OnlyStatus
<1>4. ASSUME NEW r \in Runs, Walks(r)
      PROVE  status'[q] \in {"cancelled", "failed"}
  BY <1>4, LateStatus DEF Walks, OnlyStatus
<1> QED BY <1>1, <1>2, <1>3, <1>4 DEF Kinds
----------------------------------------------------------------------------
(* The other variables                                                     *)

RestTypes ==
    /\ status \in [Runs -> Statuses]
    /\ created \in Seq(Runs)
    /\ route \in [Runs -> {"none", "direct", "plan", "clarify"}]
    /\ clarified \in [Runs -> 0..ClarificationLimit]
    /\ safe \in [Runs -> BOOLEAN]
    /\ restarted \in [Runs -> BOOLEAN]
    /\ attempts \in [Runs -> Nat]
    /\ stepsDone \in [Runs -> 0..PlanSteps]
    /\ how \in [Runs -> {"fresh", "resume", "confirm", "lost"}]
    /\ controllers \in SUBSET Runs
    /\ aborted \in SUBSET Runs
    /\ deaf \in SUBSET Runs
    /\ preempted \in SUBSET Runs
    /\ reconciling \in SUBSET Runs
    /\ recoverable \in SUBSET Runs
    /\ crashes \in 0..MaxCrashes
    /\ stops \in 0..MaxStops

(* The types by what is affected together. *)
LEMMA TypesSplit == TypeOK <=> RestTypes /\ PlaceTypes /\ LedgerTypes
BY DEF TypeOK, RestTypes, PlaceTypes, LedgerTypes

PlanKept == UNCHANGED <<route, stepsDone>>
RecoveryKept == attempts' = attempts /\ recoverable' \in {recoverable, {}}

(* What the end of an operation touches. *)
SignalTypes ==
    /\ status \in [Runs -> Statuses]
    /\ restarted \in [Runs -> BOOLEAN]
    /\ how \in [Runs -> {"fresh", "resume", "confirm", "lost"}]
    /\ controllers \in SUBSET Runs
    /\ aborted \in SUBSET Runs
    /\ deaf \in SUBSET Runs
    /\ preempted \in SUBSET Runs

(* So does the catch of an operation. *)
LEMMA FailTypes ==
  ASSUME SignalTypes, NEW r \in Runs, Fail(r)
  PROVE  SignalTypes'
BY DEF SignalTypes, Fail, End, EndsWith, Statuses

(* The types of the other variables; only few actions touch the plan and   *)
(* what is left to recover.                                                *)
LEMMA RestStep ==
  ASSUME RestTypes, StepsInv, Next
  PROVE  /\ RestTypes'
         /\ PlanKept \/ \E r \in Runs : Ask(r) \/ AskConfirmation(r) \/ Route(r) \/ LoopReturns(r)
         /\ RecoveryKept \/ Restart \/ \E r \in Runs : Recover(r)
<1> USE DEF RestTypes, PlanKept, RecoveryKept
<1>1. ASSUME NEW r \in Runs, SendQueued(r) \/ SendPreempting(r) \/ SendCommand(r)
      PROVE  RestTypes' /\ PlanKept /\ RecoveryKept
  <2>1. /\ created' = Append(created, r) /\ how' = [how EXCEPT ![r] = "fresh"]
        /\ UNCHANGED <<route, clarified, safe, restarted, attempts, stepsDone,
                       controllers, deaf, reconciling, recoverable, crashes, stops>>
    BY <1>1 DEF SendQueued, SendPreempting, SendCommand, Create, Queue
  <2>2. created' \in Seq(Runs) /\ how' \in [Runs -> {"fresh", "resume", "confirm", "lost"}]
    BY <2>1
  <2>3. status' \in [Runs -> Statuses] /\ aborted' \in SUBSET Runs /\ preempted' \in SUBSET Runs
    <3>1. CASE SendQueued(r) \/ SendCommand(r)
      BY <3>1 DEF SendQueued, SendCommand, UpdateRun, Statuses
    <3>2. CASE SendPreempting(r)
      <4>1. Victims \subseteq Runs
        BY DEF Victims
      <4> QED BY <3>2, <4>1 DEF SendPreempting, Statuses
    <3> QED BY <1>1, <3>1, <3>2
  <2> QED BY <2>1, <2>2, <2>3
<1>2. ASSUME NEW r \in Runs, Clarify(r) \/ ConfirmPlan(r) \/ ResumeRun(r)
      PROVE  RestTypes' /\ PlanKept /\ RecoveryKept
  <2>1. /\ status' = [status EXCEPT ![r] = "queued"]
        /\ \E closure \in {"fresh", "resume", "confirm"} : how' = [how EXCEPT ![r] = closure]
        /\ restarted' = restarted \/ restarted' = [restarted EXCEPT ![r] = FALSE]
        /\ UNCHANGED <<created, route, safe, attempts, stepsDone, controllers, aborted, deaf,
                       preempted, reconciling, recoverable, crashes, stops>>
    BY <1>2 DEF Clarify, ConfirmPlan, ResumeRun, Requeue, Queue, UpdateRun, TransitionRun
  <2>2. status' \in [Runs -> Statuses] /\ restarted' \in [Runs -> BOOLEAN]
    BY <2>1 DEF Statuses
  <2>3. how' \in [Runs -> {"fresh", "resume", "confirm", "lost"}]
    BY <2>1
  <2>4. clarified' \in [Runs -> 0..ClarificationLimit]
    <3>1. \/ clarified' = clarified
          \/ clarified[r] < ClarificationLimit /\ clarified' = [clarified EXCEPT ![r] = @ + 1]
      BY <1>2 DEF Clarify, ConfirmPlan, ResumeRun, Requeue
    <3>2. clarified \in [Runs -> 0..ClarificationLimit] /\ ClarificationLimit \in Nat
      BY LimitsAssumption
    <3>3. clarified[r] < ClarificationLimit => clarified[r] + 1 \in 0..ClarificationLimit
      BY <3>2
    <3> QED BY <3>1, <3>2, <3>3
  <2> QED BY <2>1, <2>2, <2>3, <2>4
<1>3. ASSUME NEW r \in Runs, ClarifyTooOften(r) \/ CancelQueued(r) \/ CancelActive(r) \/ Reconciled(r)
      PROVE  RestTypes' /\ PlanKept /\ RecoveryKept
  <2>1. CASE ClarifyTooOften(r)
    BY <2>1 DEF ClarifyTooOften, UpdateRun, Statuses
  <2>2. CASE CancelQueued(r)
    BY <2>2 DEF CancelQueued, UpdateRun, Statuses
  <2>3. CASE CancelActive(r)
    BY <2>3 DEF CancelActive
  <2>4. CASE Reconciled(r)
    BY <2>4 DEF Reconciled, Checkpoint
  <2> QED BY <1>3, <2>1, <2>2, <2>3, <2>4
<1>4. ASSUME NEW r \in Runs, Recover(r)
      PROVE  RestTypes' /\ PlanKept
  <2>1. /\ attempts' \in [Runs -> Nat] /\ recoverable' \in SUBSET Runs
        /\ UNCHANGED <<reconciling, crashes, stops>>
    BY <1>4 DEF Recover
  <2>2. CASE Requeue(r)
    BY <2>1, <2>2 DEF Requeue, Queue, UpdateRun, TransitionRun, Statuses
  <2>3. CASE ~Requeue(r)
    BY <1>4, <2>1, <2>3 DEF Recover
  <2> QED BY <2>2, <2>3
<1>5. ASSUME NEW a \in Actions, NEW b \in BOOLEAN,
             \/ Reject(a) \/ Acknowledge(a) \/ ApproveRecovered(a) \/ RecoveredEnds(a, b)
             \/ ReplayRead(a) \/ CallTool(a, b) \/ BlockTool(a) \/ ApproveTool(a)
             \/ DenyTool(a) \/ ToolEnds(a, b)
      PROVE  RestTypes' /\ PlanKept /\ RecoveryKept
  <2>1. CASE Reject(a)
    BY <2>1, RunOfType DEF Reject, TransitionRun, UpdateRun, Statuses
  <2>2. CASE Acknowledge(a)
    BY <2>2, RunOfType DEF Acknowledge
  <2>3. CASE ApproveRecovered(a) \/ ReplayRead(a) \/ CallTool(a, b) \/ ApproveTool(a)
    BY <2>3 DEF ApproveRecovered, ReplayRead, CallTool, ApproveTool
  <2>4. CASE RecoveredEnds(a, b) \/ BlockTool(a) \/ DenyTool(a) \/ ToolEnds(a, b)
    <3>1. /\ safe' = safe \/ \E ok \in BOOLEAN : safe' = [safe EXCEPT ![RunOf[a]] = ok]
          /\ UNCHANGED <<status, created, route, clarified, restarted, attempts, stepsDone,
                         how, controllers, aborted, deaf, preempted,
                         reconciling, recoverable, crashes, stops>>
      BY <2>4 DEF RecoveredEnds, BlockTool, DenyTool, ToolEnds, CheckpointIf, Checkpoint
    <3>2. safe' \in [Runs -> BOOLEAN]
      BY <3>1
    <3> QED BY <3>1, <3>2
  <2> QED BY <1>5, <2>1, <2>2, <2>3, <2>4
<1>6. ASSUME NEW r \in Runs, \/ ReplayDone(r) \/ PassGate(r) \/ Begin(r) \/ StartLoop(r) \/ ModelMessage(r)
                             \/ Accept(r) \/ Correct(r) \/ CorrectionReturns(r)
      PROVE  RestTypes' /\ PlanKept /\ RecoveryKept
  BY <1>6 DEF ReplayDone, PassGate, Begin, StartLoop, ModelMessage, Accept, Correct, CorrectionReturns,
              TransitionRun, UpdateRun, Checkpoint, Statuses
<1>7. ASSUME NEW r \in Runs, ReplayFails(r) \/ Discard(r) \/ Complete(r)
      PROVE  RestTypes' /\ PlanKept /\ RecoveryKept
  BY <1>7 DEF ReplayFails, Discard, Complete, TransitionRun, UpdateRun, End, EndsWith, Statuses
<1>8. ASSUME NEW r \in Runs, Ask(r) \/ AskConfirmation(r) \/ Route(r)
      PROVE  RestTypes' /\ RecoveryKept
  BY <1>8 DEF Ask, AskConfirmation, Route, Routed, TransitionRun, UpdateRun, Checkpoint, End, EndsWith, Statuses
<1>9. ASSUME NEW r \in Runs, Throw(r) \/ LoopThrows(r)
      PROVE  RestTypes' /\ PlanKept /\ RecoveryKept
  BY <1>9 DEF Throw, LoopThrows, Fail, End, EndsWith, Statuses
<1>10. ASSUME NEW r \in Runs, LoopReturns(r)
      PROVE  RestTypes' /\ RecoveryKept
  <2>1. /\ pc[r] = "loop"
        /\ stepsDone' = [stepsDone EXCEPT ![r] = IF route[r] = "plan" THEN stepsDone[r] + 1
                                                                     ELSE stepsDone[r]]
        /\ safe' = safe \/ safe' = [safe EXCEPT ![r] = TRUE]
        /\ \/ Fail(r)
           \/ /\ UNCHANGED <<restarted, how, controllers, aborted, deaf, preempted>>
              /\ status' = status \/ status' = [status EXCEPT ![r] = "verifying"]
        /\ UNCHANGED <<created, route, clarified, attempts, reconciling, recoverable, crashes, stops>>
    BY <1>10 DEF LoopReturns, CompleteSteps, Checkpoint, CheckpointIf
  <2>2. route[r] = "plan" => stepsDone[r] + 1 \in 0..PlanSteps
    BY <2>1, LimitsAssumption DEF StepsInv
  <2>3. stepsDone' \in [Runs -> 0..PlanSteps] /\ safe' \in [Runs -> BOOLEAN]
    BY <2>1, <2>2
  <2>4. SignalTypes'
    BY <2>1, FailTypes DEF SignalTypes, Statuses
  <2> QED BY <2>1, <2>3, <2>4 DEF SignalTypes
<1>11. ASSUME NEW a \in Actions, NEW b \in BOOLEAN,
              CommandBegin(a, b) \/ CommandApprove(a) \/ CommandDeny(a) \/ CommandEnds(a, b)
      PROVE  RestTypes' /\ PlanKept /\ RecoveryKept
  <2>1. RunOf[a] \in Runs
    BY RunOfType
  <2>2. UNCHANGED <<created, route, clarified, attempts, stepsDone,
                    reconciling, recoverable, crashes, stops>>
    BY <1>11 DEF CommandBegin, CommandApprove, CommandDeny, CommandEnds
  <2>3. safe' = safe \/ safe' = [safe EXCEPT ![RunOf[a]] = TRUE]
    BY <1>11 DEF CommandBegin, CommandApprove, CommandDeny, CommandEnds, CheckpointIf, Checkpoint
  <2>4. safe' \in [Runs -> BOOLEAN]
    BY <2>3
  <2>5. SignalTypes
    BY DEF SignalTypes
  <2>6. SignalTypes'
    <3>1. CASE Fail(RunOf[a])
      BY <2>1, <2>5, <3>1, FailTypes
    <3>2. CASE CommandBegin(a, b) /\ ~Fail(RunOf[a])
      <4>1. /\ status' = [status EXCEPT ![RunOf[a]] = "running"]
            /\ restarted' = [restarted EXCEPT ![RunOf[a]] = FALSE]
            /\ controllers' = controllers \cup {RunOf[a]}
            /\ UNCHANGED <<how, aborted, deaf, preempted>>
        BY <3>2 DEF CommandBegin, TransitionRun, UpdateRun
      <4> QED BY <2>1, <4>1 DEF SignalTypes, Statuses
    <3>3. CASE CommandApprove(a) /\ ~Fail(RunOf[a])
      BY <3>3 DEF CommandApprove, SignalTypes
    <3>4. CASE CommandEnds(a, b) /\ ~Fail(RunOf[a])
      BY <2>1, <3>4 DEF CommandEnds, SignalTypes, TransitionRun, UpdateRun, End, EndsWith, Statuses
    <3> QED BY <1>11, <3>1, <3>2, <3>3, <3>4 DEF CommandDeny
  <2> QED BY <2>2, <2>4, <2>6 DEF SignalTypes
<1>12. CASE Stop \/ Exit \/ Crash
  <2>1. CASE Stop
    BY <2>1, LimitsAssumption DEF Stop
  <2>2. CASE Exit \/ Crash
    <3>1. /\ crashes' \in {crashes, crashes + 1} /\ crashes' \in 0..MaxCrashes
          /\ UNCHANGED <<status, created, route, clarified, safe, restarted, attempts, stepsDone, stops>>
      BY <2>2, LimitsAssumption DEF Exit, Crash
    <3> QED BY <2>2, <3>1 DEF Exit, Crash, Forget
  <2> QED BY <1>12, <2>1, <2>2
<1>13. CASE Restart
  <2>1. RestTypes' /\ PlanKept
    BY <1>13 DEF Restart, Statuses
  <2> QED BY <1>13, <2>1
<1> HIDE DEF RestTypes, PlanKept, RecoveryKept
<1> QED
  BY <1>1, <1>2, <1>3, <1>4, <1>5, <1>6, <1>7, <1>8, <1>9, <1>10, <1>11, <1>12, <1>13
     DEF Next, User, RunStep, ModelStep, ActionsOf
----------------------------------------------------------------------------
(* How the ledger changes                                                  *)

(* An action is recorded by an operation at work, or by the start of a     *)
(* command.                                                                *)
Born(a) ==
    /\ act[a] = "none"
    /\ \/ pc[RunOf[a]] \in Loops /\ status' = status
       \/ pc[RunOf[a]] = "permit" /\ pc'[RunOf[a]] # "permit" /\ status'[RunOf[a]] = "running"

(* A recorded action never becomes pending again, and only the user takes  *)
(* it out of uncertain.                                                    *)
Change(x, y) ==
    \/ y = x
    \/ /\ x # "none" /\ y # "none"
       /\ y \in PendingStatuses => x \in PendingStatuses
       /\ x = "uncertain" => y \in {"acknowledged", "rejected"}

LedgerMoves ==
    /\ LedgerTypes'
    /\ \A a \in Actions : Change(act[a], act'[a]) \/ Born(a)

(* A transition of an action, and the birth of one, are such changes. *)
LEMMA TransitionMoves ==
  ASSUME LedgerTypes, NEW a \in Actions, NEW expected, NEW to,
         \/ /\ expected \subseteq {"prepared", "running"}
            /\ to \in {"running", "completed", "failed", "rejected"}
         \/ /\ expected \subseteq {"prepared", "uncertain"}
            /\ to \in {"rejected", "acknowledged"},
         TransitionAction(a, expected, to),
         tool' = tool \/ \E t \in {"idle", "executing", "recovering"} : tool' = [tool EXCEPT ![a] = t],
         begun' = begun \/ begun' = [begun EXCEPT ![a] = @ + 1],
         up' = up
  PROVE  LedgerMoves
<1>1. act' = [act EXCEPT ![a] = IF act[a] \in expected THEN to ELSE act[a]]
  BY DEF TransitionAction
<1>2. LedgerTypes'
  <2>1. act' \in [Actions -> {"none", "prepared", "running", "completed", "failed",
                              "rejected", "uncertain", "acknowledged"}]
    BY <1>1 DEF LedgerTypes
  <2>2. tool' \in [Actions -> {"idle", "deciding", "denied", "executing", "recovering"}]
    BY DEF LedgerTypes
  <2>3. begun' \in [Actions -> Nat]
    BY DEF LedgerTypes
  <2> QED BY <2>1, <2>2, <2>3 DEF LedgerTypes
<1>3. ASSUME NEW b \in Actions
      PROVE  Change(act[b], act'[b])
  <2>1. CASE b = a
    BY <1>1, <2>1 DEF LedgerTypes, Change, PendingStatuses
  <2>2. CASE b # a
    BY <1>1, <2>2 DEF LedgerTypes, Change
  <2> QED BY <2>1, <2>2
<1> QED BY <1>2, <1>3 DEF LedgerMoves

LEMMA BirthMoves ==
  ASSUME LedgerTypes, NEW a \in Actions, Born(a), NEW to \in {"prepared", "running"},
         act' = [act EXCEPT ![a] = to],
         \/ tool' = tool
         \/ \E t \in {"deciding", "executing", "recovering"} : tool' = [tool EXCEPT ![a] = t],
         begun' = begun \/ begun' = [begun EXCEPT ![a] = @ + 1],
         up' = up
  PROVE  LedgerMoves
<1>1. LedgerTypes'
  <2>1. act' \in [Actions -> {"none", "prepared", "running", "completed", "failed",
                              "rejected", "uncertain", "acknowledged"}]
    BY DEF LedgerTypes
  <2>2. tool' \in [Actions -> {"idle", "deciding", "denied", "executing", "recovering"}]
    BY DEF LedgerTypes
  <2>3. begun' \in [Actions -> Nat]
    BY DEF LedgerTypes
  <2> QED BY <2>1, <2>2, <2>3 DEF LedgerTypes
<1>2. \A b \in Actions \ {a} : act'[b] = act[b]
  BY DEF LedgerTypes
<1> QED BY <1>1, <1>2 DEF LedgerMoves, Change

(* Every step changes the ledger in these ways only. *)
LEMMA LedgerMovesStep ==
  ASSUME OrchTypes, LedgerTypes, Next
  PROVE  LedgerMoves
<1>0. ASSUME UNCHANGED act, LedgerTypes' PROVE LedgerMoves
  BY <1>0 DEF LedgerMoves, Change
<1>1. CASE QuietStep
  <2>1. UNCHANGED <<act, begun, tool, up>>
    BY <1>1, QuietKeeps
  <2> QED BY <1>0, <2>1 DEF LedgerTypes
<1>2. ASSUME NEW a \in Actions, NEW b \in BOOLEAN, CallTool(a, b) \/ BlockTool(a)
      PROVE  LedgerMoves
  <2>1. /\ Born(a)
        /\ \E to \in {"prepared", "running"} : act' = [act EXCEPT ![a] = to]
        /\ \/ tool' = tool
           \/ \E t \in {"deciding", "executing", "recovering"} : tool' = [tool EXCEPT ![a] = t]
        /\ begun' = begun \/ begun' = [begun EXCEPT ![a] = @ + 1]
        /\ up' = up
    BY <1>2 DEF CallTool, BlockTool, RecordAction, Born
  <2> QED BY <2>1, BirthMoves
<1>3. ASSUME NEW a \in Actions, NEW b \in BOOLEAN, CommandBegin(a, b)
      PROVE  LedgerMoves
  <2>1. CASE act[a] # "none"
    <3>1. UNCHANGED <<act, begun, tool, up>>
      BY <1>3, <2>1 DEF CommandBegin
    <3> QED BY <1>0, <3>1 DEF LedgerTypes
  <2>2. CASE act[a] = "none"
    <3>1. /\ pc[RunOf[a]] = "permit" /\ pc' = [pc EXCEPT ![RunOf[a]] = "command"]
          /\ status' = [status EXCEPT ![RunOf[a]] = "running"]
          /\ \E to \in {"prepared", "running"} : act' = [act EXCEPT ![a] = to]
          /\ \E t \in {"deciding", "executing", "recovering"} : tool' = [tool EXCEPT ![a] = t]
          /\ begun' = begun \/ begun' = [begun EXCEPT ![a] = @ + 1]
          /\ up' = up
      BY <1>3, <2>2 DEF CommandBegin, RecordAction, TransitionRun, UpdateRun
    <3>2. Born(a)
      BY <2>2, <3>1, RunOfType DEF Born, OrchTypes
    <3> QED BY <3>1, <3>2, BirthMoves
  <2> QED BY <2>1, <2>2
<1>4. ASSUME NEW a \in Actions, ApproveTool(a) \/ ApproveRecovered(a) \/ ReplayRead(a)
      PROVE  LedgerMoves
  <2>1. /\ TransitionAction(a, {"prepared"}, "running") /\ up' = up
        /\ \E t \in {"idle", "executing", "recovering"} : tool' = [tool EXCEPT ![a] = t]
        /\ begun' = [begun EXCEPT ![a] = @ + 1]
    BY <1>4 DEF ApproveTool, ApproveRecovered, ReplayRead
  <2> QED BY <2>1, TransitionMoves
<1>5. ASSUME NEW a \in Actions, DenyTool(a) \/ CommandDeny(a)
      PROVE  LedgerMoves
  <2>1. /\ TransitionAction(a, {"prepared"}, "rejected") /\ up' = up
        /\ tool' = [tool EXCEPT ![a] = "idle"] /\ begun' = begun
    BY <1>5 DEF DenyTool, CommandDeny
  <2> QED BY <2>1, TransitionMoves
<1>6. ASSUME NEW a \in Actions, NEW ok \in BOOLEAN,
             ToolEnds(a, ok) \/ RecoveredEnds(a, ok) \/ CommandEnds(a, ok)
      PROVE  LedgerMoves
  <2>1. /\ TransitionAction(a, {"running"}, IF ok THEN "completed" ELSE "failed") /\ up' = up
        /\ tool' = [tool EXCEPT ![a] = "idle"] /\ begun' = begun
    BY <1>6 DEF ToolEnds, RecoveredEnds, CommandEnds
  <2> QED BY <2>1, TransitionMoves
<1>7. ASSUME NEW a \in Actions, Reject(a)
      PROVE  LedgerMoves
  <2>1. /\ TransitionAction(a, {"prepared", "uncertain"}, "rejected")
        /\ tool' = tool /\ begun' = begun /\ up' = up
    BY <1>7 DEF Reject
  <2> QED BY <2>1, TransitionMoves
<1>8. ASSUME NEW a \in Actions, Acknowledge(a)
      PROVE  LedgerMoves
  <2>1. /\ TransitionAction(a, {"uncertain"}, "acknowledged")
        /\ tool' = tool /\ begun' = begun /\ up' = up
    BY <1>8 DEF Acknowledge
  <2> QED BY <2>1, TransitionMoves
<1>9. ASSUME NEW a \in Actions, CommandApprove(a)
      PROVE  LedgerMoves
  <2>1. CASE act[a] = "prepared"
    <3>1. /\ TransitionAction(a, {"prepared"}, "running") /\ up' = up
          /\ tool' = [tool EXCEPT ![a] = "recovering"] /\ begun' = [begun EXCEPT ![a] = @ + 1]
      BY <1>9, <2>1 DEF CommandApprove
    <3> QED BY <3>1, TransitionMoves
  <2>2. CASE act[a] # "prepared"
    <3>1. UNCHANGED <<act, begun, up>> /\ tool' = [tool EXCEPT ![a] = "idle"]
      BY <1>9, <2>2 DEF CommandApprove
    <3> QED BY <1>0, <3>1 DEF LedgerTypes
  <2> QED BY <2>1, <2>2
<1>10. ASSUME NEW r \in Runs, SendPreempting(r)
       PROVE  LedgerMoves
  BY <1>10 DEF SendPreempting, Interrupted, LedgerMoves, LedgerTypes, Change, PendingStatuses
<1>11. CASE Restart
  BY <1>11 DEF Restart, Interrupted, LedgerMoves, LedgerTypes, Change, PendingStatuses
<1>12. CASE Stop \/ Exit \/ Crash
  BY <1>0, <1>12 DEF Stop, Exit, Crash, Forget, LedgerTypes
<1> QED
  BY <1>1, <1>2, <1>3, <1>4, <1>5, <1>6, <1>7, <1>8, <1>9, <1>10, <1>11, <1>12
     DEF Next, User, RunStep, ModelStep, ActionsOf, QuietStep
----------------------------------------------------------------------------
(* The invariants that relate the ledger, the plan and the recovery        *)

(* No run is forgotten. *)
LEMMA StatusStaysNone ==
  ASSUME Kinds, NEW q \in Runs, status'[q] = "none"
  PROVE  status[q] = "none"
<1>1. CASE Stays \/ Stops \/ Forgets \/ Restarts
  BY <1>1 DEF Stays, Stops, Forgets, Restarts
<1>2. ASSUME NEW r \in Runs, Fails(r) \/ Enqueues(r) \/ Cancels(r) \/ Ends(r) \/ Walks(r)
      PROVE  status[q] = "none"
  BY <1>2 DEF Fails, Enqueues, Cancels, Ends, Walks, OnlyStatus, ActiveStatuses
<1> QED BY <1>1, <1>2 DEF Kinds

(* A run that does not exist has no operation that could call a tool. *)
LEMMA NoneStep ==
  ASSUME PlaceInv, NoneInv, Kinds, LedgerMoves
  PROVE  NoneInv'
<1> SUFFICES ASSUME NEW r \in Runs, status'[r] = "none", NEW a \in Actions, RunOf[a] = r
             PROVE  act'[a] = "none"
  BY DEF NoneInv, ActionsOf
<1>1. status[r] = "none"
  BY StatusStaysNone
<1>2. act[a] = "none"
  BY <1>1 DEF NoneInv, ActionsOf
<1>3. ~Born(a)
  BY <1>1 DEF Born, PlaceInv, Loops, Late, Early, Places, ActiveStatuses
<1> QED BY <1>2, <1>3 DEF LedgerMoves, Change

(* A plan enters its loop only with a step left. *)
LEMMA StepsStep ==
  ASSUME OrchTypes, RestTypes, PlaceInv, StepsInv, Next, Kinds, PlaceTypes',
         PlanKept \/ \E r \in Runs : Ask(r) \/ AskConfirmation(r) \/ Route(r) \/ LoopReturns(r)
  PROVE  StepsInv'
<1>1. CASE \A r \in Runs : pc'[r] \notin {"build", "loop"}
  BY <1>1 DEF StepsInv
<1>2. CASE PlanKept /\ \A r \in Runs : pc'[r] \in {"build", "loop"} => pc[r] \in {"build", "loop"}
  BY <1>2 DEF StepsInv, PlanKept
<1>3. ASSUME NEW r \in Runs, Route(r)
      PROVE  StepsInv'
  <2> DEFINE next == IF Routed(r) THEN route[r] ELSE IF Kind[r] = "plan" THEN "plan" ELSE "direct"
  <2>1. /\ route' = [route EXCEPT ![r] = next] /\ stepsDone' = stepsDone
        /\ next = "plan" /\ stepsDone[r] = PlanSteps => pc' = [pc EXCEPT ![r] = "verify"]
        /\ \E to \in {"verify", "build"} : pc' = [pc EXCEPT ![r] = to]
    BY <1>3 DEF Route
  <2> HIDE DEF next
  <2>2. stepsDone[r] # PlanSteps => stepsDone[r] < PlanSteps
    BY LimitsAssumption DEF RestTypes
  <2> QED BY <2>1, <2>2 DEF StepsInv, OrchTypes, RestTypes
<1>4. ASSUME NEW r \in Runs, LoopReturns(r), ~Fail(r)
      PROVE  StepsInv'
  <2>1. /\ pc[r] = "loop" /\ route' = route
        /\ stepsDone' = [stepsDone EXCEPT ![r] = IF route[r] = "plan" THEN stepsDone[r] + 1
                                                                     ELSE stepsDone[r]]
        /\ \E to \in {"build", "verify", "memory"} :
              /\ pc' = [pc EXCEPT ![r] = to]
              /\ to = "build" => route[r] = "plan" /\ stepsDone[r] + 1 < PlanSteps
    BY <1>4 DEF LoopReturns, CompleteSteps
  <2> QED BY <2>1 DEF StepsInv, OrchTypes, RestTypes
<1>5. ASSUME NEW r \in Runs, Ends(r)
      PROVE  StepsInv'
  BY <1>1, <1>5 DEF Ends, Settled
<1>6. CASE Forgets \/ Restarts
  BY <1>1, <1>6 DEF Forgets, Restarts, Settled, AllIdle
<1>7. ASSUME NEW r \in Runs, Ask(r) \/ AskConfirmation(r)
      PROVE  StepsInv'
  BY <1>5, <1>7, AskEnds
<1>8. ASSUME NEW r \in Runs, LoopReturns(r), Fail(r)
      PROVE  StepsInv'
  <2>1. pc[r] \in Late /\ up' = up
    BY <1>8 DEF LoopReturns, Late, Early, Places, Loops
  <2> QED BY <1>5, <1>8, <2>1, LateStatus, FailEnds
<1>9. CASE PlanKept
  <2>1. CASE Stays \/ Stops
    BY <1>2, <1>9, <2>1 DEF Stays, Stops, Moved, Settled
  <2>2. ASSUME NEW r \in Runs, Fails(r) \/ Enqueues(r) \/ Cancels(r)
        PROVE  StepsInv'
    BY <1>2, <1>9, <2>2 DEF Fails, Enqueues, Cancels, Moved, Settled
  <2>3. ASSUME NEW r \in Runs, Walks(r)
        PROVE  StepsInv'
    <3>1. CASE Route(r) \/ LoopReturns(r)
      BY <1>3, <1>4, <1>8, <3>1
    <3>2. CASE ~(Route(r) \/ LoopReturns(r))
      BY <1>2, <1>9, <2>3, <3>2 DEF Walks
    <3> QED BY <3>1, <3>2
  <2> QED BY <1>5, <1>6, <2>1, <2>2, <2>3 DEF Kinds
<1> QED BY <1>3, <1>4, <1>7, <1>8, <1>9

(* A recovery uses up the attempt that the restart has seen. *)
LEMMA RecoveryStep ==
  ASSUME RestTypes, RecoveryInv, RecoveryKept \/ Restart \/ \E r \in Runs : Recover(r)
  PROVE  RecoveryInv'
<1>0. RecoveryLimit \in Nat /\ attempts \in [Runs -> Nat]
  BY LimitsAssumption DEF RestTypes
<1>1. CASE RecoveryKept
  BY <1>1 DEF RecoveryKept, RecoveryInv
<1>2. CASE Restart
  <2>1. attempts' = attempts /\ \A r \in recoverable' : attempts[r] < RecoveryLimit
    BY <1>2 DEF Restart, AttemptsLeft
  <2> QED BY <2>1 DEF RecoveryInv
<1>3. ASSUME NEW r \in Runs, Recover(r)
      PROVE  RecoveryInv'
  <2>1. /\ r \in recoverable /\ recoverable' = recoverable \ {r}
        /\ attempts' = [attempts EXCEPT ![r] = attempts[r] + 1]
    BY <1>3 DEF Recover
  <2>2. attempts[r] + 1 <= RecoveryLimit
    BY <1>0, <2>1 DEF RecoveryInv
  <2> QED BY <1>0, <2>1, <2>2 DEF RecoveryInv
<1> QED BY <1>1, <1>2, <1>3

(* While a run waits for its permit no operation records an action. *)
LEMMA NoBirth ==
  ASSUME PlaceInv, NEW r \in Runs, pc[r] \in {"gate", "permit"}, pc'[r] = "permit"
  PROVE  \A a \in Actions : ~Born(a)
BY RunOfType DEF PlaceInv, Born, Loops

(* Then nothing becomes undecided, if no run comes back from its end. *)
LEMMA PendingFalls ==
  ASSUME NoneInv, LedgerMoves, \A a \in Actions : ~Born(a), ~PendingSideEffects,
         \A q \in Runs : status[q] \in TerminalStatuses => status'[q] \in TerminalStatuses
  PROVE  ~PendingSideEffects'
<1> SUFFICES ASSUME NEW q \in Runs, status'[q] \notin TerminalStatuses \cup {"none"},
                    NEW a \in ActionsOf(q) \cap SideEffects, act'[a] \in PendingStatuses
             PROVE  FALSE
  BY DEF PendingSideEffects, Undecided
<1>1. Change(act[a], act'[a]) /\ a \in Actions
  BY DEF LedgerMoves, ActionsOf
<1>2. act[a] \in PendingStatuses
  BY <1>1 DEF Change
<1>3. status[q] # "none"
  BY <1>2 DEF NoneInv, PendingStatuses
<1>4. status[q] \notin TerminalStatuses
  OBVIOUS
<1> QED BY <1>2, <1>3, <1>4 DEF PendingSideEffects, Undecided

(* Whatever happens between the gate and the permit leaves nothing         *)
(* undecided: no operation is at work that could record an action.         *)
LEMMA GateStep ==
  ASSUME OrchTypes, PlaceInv, NoneInv, GateInv, LedgerMoves, Kinds
  PROVE  GateInv'
<1> SUFFICES ASSUME NEW r \in Runs, pc'[r] = "permit", up' = "up",
                    status'[r] \notin {"cancelled", "failed"}
             PROVE  ~PendingSideEffects'
  BY DEF GateInv
<1>1. ASSUME pc[r] = "permit", up = "up", status[r] \notin {"cancelled", "failed"},
             \A q \in Runs : status[q] \in TerminalStatuses => status'[q] \in TerminalStatuses
      PROVE  ~PendingSideEffects'
  BY <1>1, NoBirth, PendingFalls DEF GateInv
<1>2. CASE Stays
  BY <1>1, <1>2 DEF Stays
<1>3. CASE Stops \/ Forgets \/ Restarts
  BY <1>3 DEF Stops, Forgets, Restarts, Settled, AllIdle
<1>4. ASSUME NEW q \in Runs, Fails(q) PROVE ~PendingSideEffects'
  BY <1>1, <1>4 DEF Fails, OnlyStatus, TerminalStatuses
<1>5. ASSUME NEW q \in Runs, Cancels(q) PROVE ~PendingSideEffects'
  BY <1>1, <1>5 DEF Cancels, OnlyStatus, TerminalStatuses
<1>6. ASSUME NEW q \in Runs, Enqueues(q) PROVE ~PendingSideEffects'
  <2>1. pc' = pc
    BY <1>6 DEF Enqueues, Moved, Settled
  <2>2. \A x \in Runs : status[x] \in TerminalStatuses => status'[x] = status[x]
    BY <1>6 DEF Enqueues, TerminalStatuses
  <2>3. status[r] \notin {"cancelled", "failed"} /\ up = "up"
    BY <1>6, <2>2 DEF Enqueues, TerminalStatuses
  <2> QED BY <1>1, <2>1, <2>2, <2>3
<1>7. ASSUME NEW q \in Runs, Ends(q) PROVE ~PendingSideEffects'
  BY <1>7 DEF Ends, Settled
<1>8. ASSUME NEW q \in Runs, Walks(q) PROVE ~PendingSideEffects'
  <2>1. r = q
    BY <1>8 DEF Walks, PlaceInv
  <2>2. pc[r] = "gate" /\ status' = status /\ PassGate(r) /\ up = "up"
    BY <1>8, <2>1 DEF Walks, Late, Early
  <2>3. ~PendingSideEffects
    BY <2>2 DEF PassGate
  <2> QED BY <2>2, <2>3, NoBirth, PendingFalls
<1> QED BY <1>2, <1>3, <1>4, <1>5, <1>6, <1>7, <1>8 DEF Kinds
----------------------------------------------------------------------------
(* The theorems                                                            *)

(* The types by what is affected together, again. *)
LEMMA TypesOf ==
  ASSUME TypeOK
  PROVE  OrchTypes /\ RestTypes /\ LedgerTypes
BY DEF TypeOK, OrchTypes, RestTypes, LedgerTypes

(* The three facts about the invariant. *)
LEMMA InitIInv ==
  ASSUME Init
  PROVE  IInv
<1>1. RestTypes
  BY LimitsAssumption DEF Init, RestTypes, Statuses
<1>2. PlaceTypes
  <2>1. <<>> \in Seq(Runs)
    OBVIOUS
  <2>2. pc \in [Runs -> Places]
    BY DEF Init, Places
  <2> QED BY <2>1, <2>2 DEF Init, PlaceTypes
<1>3. LedgerTypes
  BY DEF Init, LedgerTypes
<1>4. LedgerInv /\ NoneInv
  BY DEF Init, LedgerInv, LedgerOf, NoneInv, ActionsOf
<1>5. RecoveryInv
  BY LimitsAssumption DEF Init, RecoveryInv
<1>6. PlaceInv /\ EntryInv /\ StepsInv /\ GateInv
  BY DEF Init, PlaceInv, EntryInv, StepsInv, GateInv, Late, ActiveStatuses
<1> QED BY <1>1, <1>2, <1>3, <1>4, <1>5, <1>6, TypesSplit DEF IInv

LEMMA NextIInv ==
  ASSUME IInv, Next
  PROVE  IInv'
<1> USE DEF IInv
<1>1. OrchTypes /\ RestTypes /\ LedgerTypes
  BY TypesOf
<1>2. Kinds
  BY <1>1, KindOfStep
<1>3. LedgerMoves
  BY <1>1, LedgerMovesStep
<1>4. /\ RestTypes'
      /\ PlanKept \/ \E r \in Runs : Ask(r) \/ AskConfirmation(r) \/ Route(r) \/ LoopReturns(r)
      /\ RecoveryKept \/ Restart \/ \E r \in Runs : Recover(r)
  BY <1>1, RestStep
<1>5. PlaceTypes' /\ LedgerTypes'
  BY <1>1, <1>2, <1>3, PlaceTypesStep DEF LedgerMoves
<1>6. TypeOK'
  BY <1>4, <1>5 DEF TypeOK, RestTypes, PlaceTypes, LedgerTypes
<1>7. LedgerInv'
  BY <1>1, LedgerStep
<1>8. RecoveryInv'
  BY <1>1, <1>4, RecoveryStep
<1>9. PlaceInv' /\ EntryInv'
  BY <1>1, <1>2, LostStep, PlaceStep, EntryStep
<1>10. StepsInv'
  BY <1>1, <1>2, <1>4, <1>5, StepsStep
<1>11. NoneInv' /\ GateInv'
  BY <1>1, <1>2, <1>3, NoneStep, GateStep
<1> QED BY <1>6, <1>7, <1>8, <1>9, <1>10, <1>11

LEMMA StutterIInv ==
  ASSUME IInv, UNCHANGED vars
  PROVE  IInv'
<1> USE DEF vars
<1>1. TypeOK'
  BY DEF IInv, TypeOK
<1>2. LedgerInv' /\ RecoveryInv' /\ PlaceInv'
  BY DEF IInv, LedgerInv, LedgerOf, RecoveryInv, PlaceInv
<1>3. EntryInv' /\ StepsInv' /\ NoneInv' /\ GateInv'
  BY DEF IInv, EntryInv, Holds, StepsInv, NoneInv, GateInv, PendingSideEffects, Undecided
<1> QED BY <1>1, <1>2, <1>3 DEF IInv

(* The inductive invariant holds in every reachable state, for any finite  *)
(* number of runs, any actions, and any number of crashes and stops.       *)
THEOREM Invariance == Spec => []IInv
<1>1. Init => IInv
  BY InitIInv
<1>2. IInv /\ [Next]_vars => IInv'
  BY NextIInv, StutterIInv
<1> QED BY <1>1, <1>2, PTL DEF Spec

(* Every variable keeps its type, the bounds of the clarifications and of  *)
(* the completed steps of a plan included.                                 *)
THEOREM TypeCorrect == Spec => []TypeOK
<1>1. IInv => TypeOK
  BY DEF IInv
<1> QED BY <1>1, Invariance, PTL

(* A side effect is started at most once, whatever happens around it.      *)
THEOREM StartedAtMostOnce == Spec => []AtMostOnce
<1>1. IInv => AtMostOnce
  BY ActionsAssumption DEF IInv, LedgerInv, LedgerOf, AtMostOnce
<1> QED BY <1>1, Invariance, PTL

(* A side effect that was started is never offered for execution again.    *)
THEOREM StartIsRemembered == Spec => []LedgerRemembers
<1>1. IInv => LedgerRemembers
  BY ActionsAssumption DEF IInv, LedgerInv, LedgerOf, LedgerRemembers
<1> QED BY <1>1, Invariance, PTL

(* No action stays recorded as running when nobody runs its tool.          *)
THEOREM RunningHasTool == Spec => []RunningIsReal
<1>1. IInv => RunningIsReal
  BY DEF IInv, LedgerInv, LedgerOf, RunningIsReal
<1> QED BY <1>1, Invariance, PTL

(* The active status of a run and its operation agree, and one operation   *)
(* of the session is under way at a time.                                  *)
THEOREM ActiveAndAlone == Spec => []ActiveHasOperation
<1>1. IInv => ActiveHasOperation
  BY DEF IInv, PlaceInv, ActiveHasOperation, Late, Early
<1> QED BY <1>1, Invariance, PTL

(* No queued run is stranded between the database and the orchestrator,    *)
(* whatever crashes, cancellations, preemptions and stops happen, except   *)
(* a resumed run whose replay threw.                                       *)
THEOREM NoRunIsStranded == Spec => []QueuedHasEntry
<1>1. IInv => QueuedHasEntry
  BY DEF IInv, EntryInv, Early, Holds, QueuedHasEntry
<1> QED BY <1>1, Invariance, PTL

(* The automatic recoveries of a run are bounded over all its crashes.     *)
THEOREM RecoveriesAreBounded == Spec => []RecoveryBounded
<1>1. IInv => RecoveryBounded
  BY DEF IInv, RecoveryInv, RecoveryBounded
<1> QED BY <1>1, Invariance, PTL

(* Only the user takes an action out of uncertain.                         *)
THEOREM OnlyTheUserSettles == Spec => UserSettles
<1>1. IInv /\ [Next]_vars =>
        [\A a \in Actions : act[a] = "uncertain" =>
            act'[a] \in {"uncertain", "acknowledged", "rejected"}]_vars
  <2> SUFFICES ASSUME IInv, Next, NEW a \in Actions, act[a] = "uncertain"
               PROVE  act'[a] \in {"uncertain", "acknowledged", "rejected"}
    OBVIOUS
  <2>1. LedgerMoves
    BY TypesOf, LedgerMovesStep DEF IInv
  <2> QED BY <2>1 DEF LedgerMoves, Change, Born
<1> QED BY <1>1, Invariance, PTL DEF Spec, UserSettles

(* A cancelled run is never worked on, although its entry may still be in  *)
(* the orchestrator's queue or its operation past the gate.                *)
THEOREM CancelledNeverWorks == Spec => CancelledStaysCancelled
<1>1. IInv /\ [Next]_vars =>
        [\A r \in Runs : status[r] = "cancelled" => status'[r] \in {"cancelled", "failed"}]_vars
  <2> SUFFICES ASSUME IInv, Next, NEW r \in Runs, status[r] = "cancelled"
               PROVE  status'[r] \in {"cancelled", "failed"}
    OBVIOUS
  <2>1. OrchTypes /\ PlaceInv /\ Kinds
    BY TypesOf, KindOfStep DEF IInv
  <2> QED BY <2>1, CancelledStep
<1> QED BY <1>1, Invariance, PTL DEF Spec, CancelledStaysCancelled

(* No queued run starts to work while a side effect of the session is      *)
(* undecided, however long it waits between the gate and its permit.       *)
THEOREM TheGateHolds == Spec => GateHolds
<1>1. IInv /\ [Next]_vars =>
        [\A r \in Runs : pc[r] = "permit" /\ pc'[r] = "preflight" /\ status[r] = "queued"
                           => ~PendingSideEffects]_vars
  <2> SUFFICES ASSUME IInv, Next, NEW r \in Runs,
                      pc[r] = "permit", pc'[r] = "preflight", status[r] = "queued"
               PROVE  ~PendingSideEffects
    OBVIOUS
  <2>1. OrchTypes /\ PlaceInv /\ GateInv /\ Kinds
    BY TypesOf, KindOfStep DEF IInv
  <2>2. up # "down" /\ up \in {"up", "stopping", "down"}
    BY <2>1 DEF PlaceInv, OrchTypes
  <2>3. up # "stopping"
    <3>1. CASE Stays \/ Stops \/ Forgets \/ Restarts
      BY <2>1, <3>1 DEF Stays, Stops, Moved, Settled, Forgets, Restarts, AllIdle
    <3>2. ASSUME NEW q \in Runs, Fails(q) \/ Enqueues(q) \/ Cancels(q) \/ Ends(q)
          PROVE  FALSE
      BY <3>2 DEF Fails, Enqueues, Cancels, Ends, Moved, Settled
    <3>3. ASSUME NEW q \in Runs, Walks(q)
          PROVE  up # "stopping"
      BY <2>1, <3>3 DEF Walks, PlaceInv, Late, Early
    <3> QED BY <2>1, <3>1, <3>2, <3>3 DEF Kinds
  <2> QED BY <2>1, <2>2, <2>3 DEF GateInv
<1> QED BY <1>1, Invariance, PTL DEF Spec, GateHolds
===============================================================================
