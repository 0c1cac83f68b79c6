---------------------------- MODULE MCRunLifecycle ----------------------------
(* Instances of RunLifecycle for TLC.                                      *)
EXTENDS RunLifecycle, TLC

CONSTANTS r1, r2, w1, w2, d1

TwoRuns == {r1, r2}

(* A direct run with a side effect and a read, and a second direct run.    *)
Direct == r1 :> "direct" @@ r2 :> "direct"
Calls == {w1, d1}
CallsOf == w1 :> r1 @@ d1 :> r1
OneWrite == {w1}
Writes == {w1, w2}

(* More than one crash only without a stop and before the second run is    *)
(* created: one run that kills the process again and again.                *)
FewCrashes == (crashes <= 1 /\ stops <= 1) \/ (stops = 0 /\ status[r2] = "none")

(* A plan with a side effect, and a command. *)
PlanAndCommand == r1 :> "plan" @@ r2 :> "command"
WritesOf == w1 :> r1 @@ w2 :> r2

(* The same with a read for the side effect of the plan: the call that a   *)
(* resumed run replays.                                                    *)
ReadAndShell == {d1, w2}
ReadAndShellOf == d1 :> r1 @@ w2 :> r2
OneShell == {w2}

Shells == {w2}
=============================================================================
