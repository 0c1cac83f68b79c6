------------------------------ MODULE SessionLife ------------------------------
(***************************************************************************)
(* The life of a session and of the background tasks that run in sessions  *)
(* of their own: creation, cancellation, preemption and deletion while     *)
(* runs execute, wait in their queues, are resumed or are being deleted,   *)
(* and the upload of a file.  createTask, executeTask, cancelTask, cancel, *)
(* cancelRun, resumeRun, the reject of decideRunAction, deleteSession and  *)
(* addAttachment of runtime.ts, waitForRunTerminal of runtime-recovery.ts  *)
(* and the rows they write.  Task t runs in session t.                     *)
(***************************************************************************)
EXTENDS Naturals, Sequences, FiniteSets, SequencesExt

CONSTANTS Homes,      \* sessions
          TaskSlots,  \* permits of taskSemaphore, 4 in the code
          MaxSent,    \* bound: runs
          Uploads     \* files that users add

VARIABLES
    alive,     \* sessions that exist
    jobs,      \* runs: session, the status in the row, whether it has an entry in the
               \* queue, has begun and is at work, what its signal was aborted for,
               \* whether an action was rejected
    tasks,     \* task of a session: status, its run, how far executeTask is
    line,      \* tasks that wait for a permit
    held,      \* permits taken
    deletions, \* per session, the runs that its deletion waits for
    uploads    \* files: session, stage, whether the file and the row exist

lifeVars == <<alive, jobs, tasks, line, held, deletions, uploads>>

NoTask == [status |-> "none", run |-> 0, stage |-> "none"]
Over == {"completed", "failed", "cancelled", "interrupted"}
NoUpload == [home |-> 0, stage |-> "none", file |-> FALSE, row |-> FALSE]

LifeInit ==
    /\ alive = {}
    /\ jobs = <<>>
    /\ tasks = [s \in Homes |-> NoTask]
    /\ line = <<>> /\ held = 0
    /\ deletions = [s \in Homes |-> {}]
    /\ uploads = [u \in Uploads |-> NoUpload]

Active(s) == {r \in DOMAIN jobs : jobs[r].home = s /\ jobs[r].works}
Waiting(s) == {r \in DOMAIN jobs : jobs[r].home = s /\ jobs[r].status = "queued"}
Job(s) == [home |-> s, status |-> "queued", entry |-> TRUE, begun |-> FALSE,
           works |-> FALSE, heard |-> "nothing", rejected |-> FALSE]

FaultyWatched(r) == {t \in Homes : tasks[t].stage = "watching" /\ jobs[r].home = t}

(* The tasks whose watcher takes the end of a run for the end of its own,  *)
(* and those that follow it since it was resumed, without a permit.        *)
Watched(r) == {t \in Homes : tasks[t].stage = "watching" /\ tasks[t].run = r}
Followed(r) == {t \in Homes : tasks[t].stage = "following" /\ tasks[t].run = r}

(* A run.updated that says that these runs are over.                       *)
WatchedOf(ended) == UNION {Watched(r) : r \in ended}
ToldOf(ended) == WatchedOf(ended) \cup UNION {Followed(r) : r \in ended}
TasksTold(ended, outcome) ==
    [t \in Homes |-> IF t \in ToldOf(ended)
                     THEN [tasks[t] EXCEPT !.status = outcome, !.stage = "done"] ELSE tasks[t]]
Say(ended, outcome) ==
    /\ tasks' = TasksTold(ended, outcome)
    /\ held' = held - Cardinality(WatchedOf(ended))

(******************************** Sessions *********************************)
CreateSession(s) ==
    /\ s \notin alive /\ tasks[s] = NoTask /\ Active(s) = {} /\ Waiting(s) = {}
    /\ \A r \in DOMAIN jobs : jobs[r].home # s
    /\ alive' = alive \cup {s}
    /\ UNCHANGED <<jobs, tasks, line, held, deletions, uploads>>

(* sendMessage.  In a preemptive session the run at work is aborted and    *)
(* those that wait are cancelled; their entries stay.                      *)
Sent(s, preempts) ==
    Append([r \in DOMAIN jobs |->
                IF preempts /\ r \in Waiting(s) THEN [jobs[r] EXCEPT !.status = "cancelled"]
                ELSE IF preempts /\ r \in Active(s) /\ jobs[r].status = "running"
                     THEN [jobs[r] EXCEPT !.heard = "preempted"]
                ELSE jobs[r]],
           Job(s))

PostTo(s, preempts) ==
    /\ s \in alive /\ Len(jobs) < MaxSent
    /\ jobs' = Sent(s, preempts)
    /\ Say(IF preempts THEN Waiting(s) ELSE {}, "cancelled")
    /\ UNCHANGED <<alive, line, deletions, uploads>>

(* Which of those that wait is next is up to the users, who reorder them.  *)
(* A run that failed by a rejection while it waited is executed too.       *)
JobStarts(r) ==
    /\ jobs[r].entry /\ jobs[r].home \in alive /\ Active(jobs[r].home) = {}
    /\ jobs' = [jobs EXCEPT ![r] =
           IF @.status = "cancelled" THEN [@ EXCEPT !.entry = FALSE]
           ELSE [@ EXCEPT !.entry = FALSE, !.status = "running", !.begun = TRUE, !.works = TRUE]]
    /\ UNCHANGED <<alive, tasks, line, held, deletions, uploads>>

(* What the end of a run may be, after what its signal was aborted for: an *)
(* abort may come too late, and a preempted run with a side effect of      *)
(* unknown outcome is interrupted.                                         *)
Ends(heard) ==
    CASE heard = "nothing" -> {"completed", "failed"}
      [] heard = "cancelled" -> {"completed", "cancelled"}
      [] heard = "preempted" -> {"completed", "cancelled", "interrupted"}

(* A run ends and says so, if the session still exists: the task that      *)
(* watches it takes over the outcome and gives its permit back.            *)
JobEnds(r, outcome) ==
    /\ jobs[r].works /\ outcome \in Ends(jobs[r].heard)
    /\ jobs' = [jobs EXCEPT ![r].status = outcome, ![r].works = FALSE, ![r].heard = "nothing"]
    /\ Say(IF jobs[r].home \in alive THEN {r} ELSE {}, outcome)
    /\ UNCHANGED <<alive, line, deletions, uploads>>

CancelJob(r) ==
    /\ jobs[r].status \in {"queued", "running"} /\ jobs[r].home \in alive
    /\ \/ /\ jobs[r].status = "queued"
          /\ jobs' = [jobs EXCEPT ![r].status = "cancelled", ![r].entry = FALSE]
          /\ Say({r}, "cancelled")
       \/ /\ jobs[r].status = "running" /\ jobs[r].heard = "nothing"
          /\ jobs' = [jobs EXCEPT ![r].heard = "cancelled"]
          /\ UNCHANGED <<tasks, held>>
    /\ UNCHANGED <<alive, line, deletions, uploads>>

(* decideRunAction: a rejected action fails its run, which may be at work, *)
(* or wait for its turn, and goes on.                                      *)
RejectAction(r) ==
    /\ jobs[r].begun /\ jobs[r].home \in alive
    /\ jobs' = [jobs EXCEPT ![r].status = "failed", ![r].rejected = TRUE]
    /\ Say({r}, "failed")
    /\ UNCHANGED <<alive, line, deletions, uploads>>

(* resumeRun: the task of the run runs again and follows it.               *)
ResumeJob(r) ==
    /\ jobs[r].status = "interrupted" /\ jobs[r].home \in alive
    /\ jobs' = [jobs EXCEPT ![r].status = "queued", ![r].entry = TRUE]
    /\ tasks' = [t \in Homes |->
           IF tasks[t].run = r /\ tasks[t].status # "gone"
           THEN [tasks[t] EXCEPT !.status = "running", !.stage = "following"] ELSE tasks[t]]
    /\ UNCHANGED <<alive, line, held, deletions, uploads>>

(* The rows of a session go with it.                                       *)
Erased(s, known) ==
    /\ alive' = alive \ {s}
    /\ tasks' = [known EXCEPT ![s].status = "gone"]
    /\ uploads' = [u \in DOMAIN uploads |->
           IF uploads[u].home = s THEN [uploads[u] EXCEPT !.row = FALSE] ELSE uploads[u]]
    /\ deletions' = [deletions EXCEPT ![s] = {}]

(* deleteSession: the active run is aborted, the queued ones are cancelled *)
(* and the active run is waited for.                                       *)
DeleteSession(s) ==
    /\ s \in alive /\ deletions[s] = {}
    /\ jobs' = [r \in DOMAIN jobs |->
           IF r \in Waiting(s) THEN [jobs[r] EXCEPT !.status = "cancelled", !.entry = FALSE]
           ELSE IF r \in Active(s) /\ jobs[r].heard = "nothing"
                THEN [jobs[r] EXCEPT !.heard = "cancelled"] ELSE jobs[r]]
    /\ held' = held - Cardinality(WatchedOf(Waiting(s)))
    /\ LET told == TasksTold(Waiting(s), "cancelled") IN
       IF Active(s) # {}
       THEN /\ deletions' = [deletions EXCEPT ![s] = Active(s)]
            /\ tasks' = told
            /\ UNCHANGED <<alive, uploads>>
       ELSE Erased(s, told)
    /\ UNCHANGED line

FaultyStopped(s) == TRUE

(* The runs that were waited for have left.  The time may be over before,  *)
(* and a run that only says that it is over fails the deletion too.        *)
Stopped(s) == \A r \in deletions[s] : ~jobs[r].works

DeletionEnds(s) ==
    /\ deletions[s] # {} /\ Stopped(s)
    /\ Erased(s, tasks)
    /\ UNCHANGED <<jobs, line, held>>

DeletionTimesOut(s) ==
    /\ deletions[s] # {} /\ ~Stopped(s)
    /\ deletions' = [deletions EXCEPT ![s] = {}]
    /\ UNCHANGED <<alive, jobs, tasks, line, held, uploads>>

(***************************** Background tasks ****************************)
CreateTask(t) ==
    /\ t \notin alive /\ tasks[t] = NoTask /\ \A r \in DOMAIN jobs : jobs[r].home # t
    /\ alive' = alive \cup {t}
    /\ tasks' = [tasks EXCEPT ![t] = [status |-> "pending", run |-> 0, stage |-> "waiting"]]
    /\ line' = Append(line, t)
    /\ UNCHANGED <<jobs, held, deletions, uploads>>

(* executeTask goes on with a permit.  A task that was cancelled gives it  *)
(* back, and so does one whose message is not accepted (the runtime stops, *)
(* the queue is full), which fails without a run; one whose row is gone    *)
(* throws before, and keeps it.                                            *)
ExecuteTask(t, preempts) ==
    /\ line # <<>> /\ Head(line) = t /\ held < TaskSlots
    /\ line' = Tail(line)
    /\ \/ /\ tasks[t].status = "pending" /\ Len(jobs) < MaxSent
          /\ jobs' = Sent(t, preempts)
          /\ held' = held + 1
          /\ tasks' = [tasks EXCEPT ![t] = [status |-> "running", run |-> Len(jobs) + 1,
                                            stage |-> "watching"]]
       \/ /\ tasks[t].status = "pending"
          /\ tasks' = [tasks EXCEPT ![t].status = "failed", ![t].stage = "done"]
          /\ UNCHANGED <<jobs, held>>
       \/ /\ tasks[t].status \in Over
          /\ tasks' = [tasks EXCEPT ![t].stage = "done"]
          /\ UNCHANGED <<jobs, held>>
       \/ /\ tasks[t].status = "gone"
          /\ held' = held + 1
          /\ tasks' = [tasks EXCEPT ![t].stage = "lost"]
          /\ UNCHANGED jobs
    /\ UNCHANGED <<alive, deletions, uploads>>

(* cancelTask: its watcher gives up, and the run that is active in its     *)
(* session, its own or not, is aborted.                                    *)
CancelTask(t) ==
    /\ tasks[t].status \in {"pending", "running"} /\ t \in alive
    /\ tasks' = [tasks EXCEPT ![t].status = "cancelled",
                              ![t].stage = IF @ = "watching" THEN "done" ELSE @]
    /\ held' = IF tasks[t].stage = "watching" THEN held - 1 ELSE held
    /\ jobs' = [r \in DOMAIN jobs |->
           IF tasks[t].status = "running" /\ r \in Active(t) /\ jobs[r].heard = "nothing"
           THEN [jobs[r] EXCEPT !.heard = "cancelled"] ELSE jobs[r]]
    /\ UNCHANGED <<alive, line, deletions, uploads>>

(********************************** Files **********************************)
StartUpload(u, s) ==
    /\ uploads[u] = NoUpload /\ s \in alive
    /\ uploads' = [uploads EXCEPT ![u] = [NoUpload EXCEPT !.home = s, !.stage = "writing"]]
    /\ UNCHANGED <<alive, jobs, tasks, line, held, deletions>>

(* The file is written and recorded; when the session has gone the row is  *)
(* refused and the file is removed again.                                  *)
WriteEnds(u) ==
    /\ uploads[u].stage = "writing"
    /\ LET recorded == uploads[u].home \in alive IN
       uploads' = [uploads EXCEPT ![u].stage = IF recorded THEN "done" ELSE "failed",
                                  ![u].file = recorded, ![u].row = recorded]
    /\ UNCHANGED <<alive, jobs, tasks, line, held, deletions>>

LifeNext ==
    \/ \E s \in Homes :
           \/ CreateSession(s) \/ DeleteSession(s) \/ DeletionEnds(s) \/ DeletionTimesOut(s)
           \/ \E preempts \in BOOLEAN : PostTo(s, preempts)
    \/ \E r \in DOMAIN jobs :
           \/ JobStarts(r) \/ CancelJob(r) \/ RejectAction(r) \/ ResumeJob(r)
           \/ \E o \in Over : JobEnds(r, o)
    \/ \E t \in Homes :
           \/ CreateTask(t) \/ CancelTask(t)
           \/ \E preempts \in BOOLEAN : ExecuteTask(t, preempts)
    \/ \E u \in DOMAIN uploads : WriteEnds(u) \/ \E s \in Homes : StartUpload(u, s)

LifeSpec == LifeInit /\ [][LifeNext]_lifeVars

(******************************* Properties ********************************)
(* The permits that are taken belong to the tasks that watch a run or have *)
(* lost their row while they waited; a failed upload leaves no file.       *)
LifeOK ==
    /\ alive \subseteq Homes /\ held \in 0..TaskSlots
    /\ held = Cardinality({t \in Homes : tasks[t].stage \in {"watching", "lost"}})
    /\ \A u \in Uploads : uploads[u].row => uploads[u].file
    /\ \A u \in Uploads : uploads[u].stage = "failed" => ~uploads[u].file
    /\ \A t \in Homes : tasks[t].stage = "waiting" <=> \E i \in DOMAIN line : line[i] = t

(* A task reports the outcome of its own run, whatever else runs in its    *)
(* session and however often it is interrupted and resumed, unless an      *)
(* action of the run was rejected, which fails the task before the run has *)
(* ended; and a task that runs has a run that has not ended (the watchers  *)
(* of executeTask and resumeRun).                                          *)
OutcomeIsOwn ==
    \A t \in alive :
        LET task == tasks[t] IN
        /\ task.status \in {"completed", "failed", "interrupted"} /\ task.run # 0 =>
               jobs[task.run].rejected \/ jobs[task.run].status = task.status
        /\ task.status = "running" => jobs[task.run].status \notin Over

(* A session does not disappear under a run that was executing when its    *)
(* deletion was asked for: only a run that started while the deletion      *)
(* waited can lose its session.  deleteSession.                            *)
DeletedWhenIdle ==
    [][\A s \in Homes : deletions[s] # {} /\ s \in alive /\ s \notin alive' =>
           \A r \in deletions[s] : ~jobs[r].works]_lifeVars
================================================================================
