------------------------------ MODULE Optimization ------------------------------
(***************************************************************************)
(* Proposals to change the program and the files an administrator lets     *)
(* them change (runtime-optimization.ts, runtime-optimization-execution.ts *)
(* and their tables): apply copies what it overwrites, writes, validates   *)
(* and takes everything back when a step fails; rollback takes back what   *)
(* was applied.  Each file operation is a step of its own, requests run    *)
(* side by side, and a crash leaves the files as they are.                 *)
(***************************************************************************)
EXTENDS Naturals, Sequences, SequencesExt

CONSTANTS Paths, Present,    \* files of the workspace; those that exist at the beginning
          ChangeLists,       \* what a request writes: paths in the order of the request
          MaxRequests, MaxTroubles, MaxDecisions  \* bounds of the model

VARIABLES
    proposal,  \* optimization_proposals.status ("none": not generated)
    files,     \* the content of a path; 0: no such file
    backups,   \* stateDir/optimization-backups/<id>: copies by index, 0 for none
    requests,  \* apply and rollback under way or ended, in the order they began
    rows,      \* optimization_applications, in the order they were added
    troubles, decisions, \* operations that failed and crashes; decisions and generations
    mixed      \* two requests overlapped, or the process died in one (history)

optimizationVars == <<proposal, files, backups, requests, rows, troubles, decisions, mixed>>

Original(p) == IF p \in Present THEN 1 ELSE 0

OptimizationInit ==
    /\ proposal = "none"
    /\ files = [p \in Paths |-> Original(p)]
    /\ backups = <<>> /\ requests = <<>> /\ rows = <<>>
    /\ troubles = 0 /\ decisions = 0 /\ mixed = FALSE

UnderWay == {q \in DOMAIN requests : requests[q].at # "done"}
Trouble == troubles < MaxTroubles /\ troubles' = troubles + 1

AddOptimizationProposal == proposal = "none" /\ proposal' = "pending"
UpdateOptimizationProposal(status) == proposal # "none" /\ proposal' = status

(* generate finds something to propose; the model follows one proposal.    *)
Generate ==
    /\ AddOptimizationProposal
    /\ UNCHANGED <<files, backups, requests, rows, troubles, decisions, mixed>>

(* decide: whatever was decided before.                                    *)
Decide(status) ==
    /\ UpdateOptimizationProposal(status)
    /\ decisions < MaxDecisions /\ decisions' = decisions + 1
    /\ UNCHANGED <<files, backups, requests, rows, troubles, mixed>>

(* preview: what a request may write is decided from the proposal as it    *)
(* was read before the workspace was looked at.                            *)
Writable(approved, changes) == proposal = "accepted" /\ approved /\ changes # <<>>

Begins(request) ==
    /\ Len(requests) < MaxRequests
    /\ requests' = Append(requests, request) /\ backups' = Append(backups, <<>>)
    /\ mixed' = (mixed \/ UnderWay # {})

(* apply, and the route: a request that may not write answers so.  A       *)
(* directory is numbered as the request that copies into it.               *)
Apply(approved, changes) ==
    /\ Writable(approved, changes)
    /\ Begins([kind |-> "apply", changes |-> changes, at |-> "copying", next |-> 1,
               saved |-> <<>>, row |-> 0, before |-> files])
    /\ UNCHANGED <<proposal, files, rows, troubles, decisions>>

Path(q) == requests[q].changes[requests[q].next]
Goes(q, at) == requests' = [requests EXCEPT ![q].at = at]

(* access and copyFile; what was not there has no copy.                    *)
CopyOne(q) ==
    /\ requests[q].at = "copying"
    /\ requests' = [requests EXCEPT ![q].at = "writing",
           ![q].saved = Append(@, [path |-> Path(q), existed |-> files[Path(q)] # 0])]
    /\ backups' = [backups EXCEPT ![q] = Append(@, files[Path(q)])]
    /\ UNCHANGED <<proposal, files, rows, troubles, decisions, mixed>>

(* writeFile to a temporary name and rename: the content the request gives *)
(* for its next path.                                                      *)
WriteOne(q) ==
    /\ requests[q].at = "writing"
    /\ files' = [files EXCEPT ![Path(q)] = 10 * q + requests[q].next]
    /\ IF requests[q].next = Len(requests[q].changes)
       THEN Goes(q, "validating")
       ELSE requests' = [requests EXCEPT ![q].at = "copying", ![q].next = @ + 1]
    /\ UNCHANGED <<proposal, backups, rows, troubles, decisions, mixed>>

(* addOptimizationApplication: the row gets an id of its own, which is not *)
(* the one the copies are filed under.                                     *)
AddApplication(q, status) ==
    rows' = Append(rows, [status |-> status, saved |-> requests[q].saved, before |-> requests[q].before,
                          left |-> files', untouched |-> ~mixed, by |-> q,
                          rollback |-> CASE status = "applied" -> "not_requested"
                                         [] status = "rolled_back" -> "completed"
                                         [] OTHER -> "failed"])

(* runValidation succeeds.                                                 *)
Validate(q) ==
    /\ requests[q].at = "validating"
    /\ Goes(q, "done") /\ UNCHANGED files
    /\ AddApplication(q, "applied")
    /\ UNCHANGED <<proposal, backups, troubles, decisions, mixed>>

(* The order in which the copies are put back.                             *)
FaultyUndoOrder(saved) == saved
UndoOrder(saved) == Reverse(saved)

(* An operation of apply fails: the copies are put back one by one.        *)
ApplyFails(q) ==
    /\ requests[q].at \in {"copying", "writing", "validating"} /\ Trouble
    /\ requests' = [requests EXCEPT ![q].at = "undoing", ![q].next = 1]
    /\ UNCHANGED <<proposal, files, backups, rows, decisions, mixed>>

UndoOne(q) ==
    /\ requests[q].at = "undoing" /\ requests[q].next <= Len(requests[q].saved)
    /\ LET saved == UndoOrder(requests[q].saved)[requests[q].next]
       IN files' = [files EXCEPT ![saved.path] =
                        IF saved.existed THEN UndoOrder(backups[q])[requests[q].next] ELSE 0]
    /\ requests' = [requests EXCEPT ![q].next = @ + 1]
    /\ UNCHANGED <<proposal, backups, rows, troubles, decisions, mixed>>

UndoEnds(q) ==
    /\ requests[q].at = "undoing"
    /\ \/ /\ requests[q].next > Len(requests[q].saved)
          /\ UNCHANGED <<files, troubles>> /\ AddApplication(q, "rolled_back")
       \/ /\ requests[q].next <= Len(requests[q].saved) /\ Trouble
          /\ UNCHANGED files /\ AddApplication(q, "failed")
    /\ Goes(q, "done")
    /\ UNCHANGED <<proposal, backups, decisions, mixed>>
----------------------------------------------------------------------------
UpdateOptimizationApplication(r, status, rollback, left, untouched) ==
    rows' = [rows EXCEPT ![r].status = status, ![r].rollback = rollback,
                         ![r].left = left, ![r].untouched = untouched]

(* No request has come after the one that applied r but rollbacks of it    *)
(* (history).                                                              *)
Alone(r) == \A q \in DOMAIN requests : q > rows[r].by => requests[q].row = r

(* rollback: of an application that stands.                                *)
Rollback(r) ==
    /\ rows[r].status = "applied"
    /\ Begins([kind |-> "rollback", changes |-> <<>>, at |-> "restoring", next |-> 1,
               saved |-> rows[r].saved, row |-> r, before |-> files])
    /\ UNCHANGED <<proposal, files, rows, troubles, decisions>>

(* A path that did not exist is removed.  The copy of one that did is      *)
(* looked for below the id of the row, where apply put nothing.            *)
RestoreOne(q) ==
    /\ requests[q].at = "restoring" /\ requests[q].next <= Len(requests[q].saved)
    /\ LET saved == Reverse(requests[q].saved)[requests[q].next]
       IN ~saved.existed /\ files' = [files EXCEPT ![saved.path] = 0]
    /\ requests' = [requests EXCEPT ![q].next = @ + 1]
    /\ UNCHANGED <<proposal, backups, rows, troubles, decisions, mixed>>

FaultyRestoreFails(q) ==
    /\ requests[q].at = "restoring" /\ requests[q].next <= Len(requests[q].saved)
    /\ Reverse(requests[q].saved)[requests[q].next].existed
    /\ requests' = [requests EXCEPT ![q].next = @ + 1]
    /\ UNCHANGED <<proposal, files, backups, rows, troubles, decisions, mixed>>
RestoreFails(q) ==
    /\ requests[q].at = "restoring" /\ requests[q].next <= Len(requests[q].saved)
    /\ \/ Reverse(requests[q].saved)[requests[q].next].existed /\ UNCHANGED troubles
       \/ Trouble
    /\ LET r == requests[q].row
       IN UpdateOptimizationApplication(r, rows[r].status, "failed", rows[r].left, rows[r].untouched)
    /\ Goes(q, "done")
    /\ UNCHANGED <<proposal, files, backups, decisions, mixed>>

RollbackEnds(q) ==
    /\ requests[q].at = "restoring" /\ requests[q].next > Len(requests[q].saved)
    /\ LET r == requests[q].row
       IN UpdateOptimizationApplication(r, "rolled_back", "completed", files, ~mixed /\ Alone(r))
    /\ Goes(q, "done")
    /\ UNCHANGED <<proposal, files, backups, troubles, decisions, mixed>>

Crash ==
    /\ UnderWay # {} /\ Trouble
    /\ requests' = [q \in DOMAIN requests |-> [requests[q] EXCEPT !.at = "done"]]
    /\ mixed' = TRUE
    /\ UNCHANGED <<proposal, files, backups, rows, decisions>>

(* The requests of an administrator.                                       *)
Decision == \E status \in {"accepted", "rejected"} : Decide(status)
Application == \E approved \in BOOLEAN, changes \in ChangeLists : Apply(approved, changes)

OptimizationNext ==
    \/ Generate \/ Crash \/ Decision \/ Application
    \/ \E q \in UnderWay : \/ CopyOne(q) \/ WriteOne(q) \/ Validate(q) \/ ApplyFails(q)
                           \/ UndoOne(q) \/ UndoEnds(q)
                           \/ RestoreOne(q) \/ RestoreFails(q) \/ RollbackEnds(q)
    \/ \E r \in DOMAIN rows : Rollback(r)

OptimizationSpec == OptimizationInit /\ [][OptimizationNext]_optimizationVars
----------------------------------------------------------------------------
OptimizationOK ==
    /\ proposal \in {"none", "pending", "accepted", "rejected"}
    /\ DOMAIN files = Paths
    /\ \A q \in UnderWay : requests[q].kind = "apply" => Len(backups[q]) = Len(requests[q].saved)

(* An application that says it was rolled back, by itself or on request,   *)
(* left every file as it found it, a path it wrote twice too, unless other *)
(* requests or a crash came between.                                       *)
Undone ==
    \A r \in DOMAIN rows :
        rows[r].status = "rolled_back" /\ rows[r].untouched => rows[r].left = rows[r].before

(* What was in a file at the beginning is still there or in a copy of this *)
(* file, whatever overlaps, fails or dies.                                 *)
OriginalsKept ==
    \A p \in Present :
        \/ files[p] = 1
        \/ \E q \in DOMAIN backups : \E i \in DOMAIN backups[q] :
               requests[q].saved[i].path = p /\ backups[q][i] = 1
=============================================================================
