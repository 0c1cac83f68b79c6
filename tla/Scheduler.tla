------------------------------- MODULE Scheduler -------------------------------
(***************************************************************************)
(* SchedulerService (scheduler.ts) with its tables, and the background tasks  *)
(* of runtime.ts that carry out its occurrences.  An occurrence is a       *)
(* row of scheduled_task_runs together with its background task and the    *)
(* run of that task; RunLifecycle has the life of a run.                   *)
(*                                                                         *)
(* External: Node ends the process when a rejected promise has no handler. *)
(***************************************************************************)
EXTENDS Integers, Sequences, FiniteSets, SequencesExt

CONSTANTS Schedules,      \* scheduled tasks, numbers
          Existing,       \* the sets of them that there may be
          OnceAt,         \* the time of a "once" schedule, NoTime for an interval
          Outcomes,       \* how a run may end
          TaskLimit,      \* permits of taskSemaphore
          MaxTime,        \* bound of the model: the clock
          MaxOccurrences, \* bound of the model
          MaxRequests,    \* bound of the model: requests of the user
          MaxDeaths      \* bound of the model

NoTime == -1

VARIABLES
    clock,
    schedule,    \* scheduled_tasks: enabled, next_run_at; "deleted" rows stay as such
    occurrence,  \* scheduled_task_runs, in the order of their creation
    alive,          \* the process works
    launched,    \* SchedulerService.running
    executing,   \* executeTask of an occurrence: "no", "waiting" for a permit, "working"
    monitors,    \* the monitors of an occurrence: "launch", "resume"
    followed,    \* occurrences whose run is followed by watchResumedBackgroundTask
    requests, deaths

scheduleTables == <<schedule, occurrence>>
scheduleMemory == <<launched, executing, monitors, followed>>
schedulerVars == <<clock, scheduleTables, alive, scheduleMemory, requests, deaths>>

Occurrences == DOMAIN occurrence
ActiveOccurrence(i) == occurrence[i].status \in {"claimed", "running", "awaiting_resume"}
HasActive(s) == \E i \in Occurrences : occurrence[i].schedule = s /\ ActiveOccurrence(i)
NextTime(s, after) == IF OnceAt[s] # NoTime THEN OnceAt[s] ELSE after + 1
WorkingTasks == {i \in Occurrences : executing[i] = "working"}

SchedulerInit ==
    /\ clock = 0
    /\ \E some \in Existing :
         schedule = [s \in Schedules |-> [exists |-> s \in some, enabled |-> s \in some,
                                         next |-> NextTime(s, 0)]]
    /\ occurrence = <<>>
    /\ alive = TRUE
    /\ launched = {}
    /\ executing = <<>>
    /\ monitors = <<>>
    /\ followed = {}
    /\ requests = 0
    /\ deaths = 0

Request == alive /\ requests < MaxRequests /\ requests' = requests + 1 /\ UNCHANGED <<clock, alive, deaths>>
Onward == alive /\ UNCHANGED <<clock, alive, requests, deaths>>
----------------------------------------------------------------------------
(* Creating occurrences                                                    *)

NewOccurrence(s, manual) == [schedule |-> s, slot |-> IF manual THEN clock ELSE schedule[s].next,
                   manual |-> manual, status |-> "running", task |-> "pending", run |-> "none",
                   linked |-> FALSE, revoked |-> FALSE]

(* The key of an occurrence is unique: a schedule and its time. *)
KeyTaken(s) == \E i \in Occurrences : /\ occurrence[i].schedule = s
                           /\ ~occurrence[i].manual /\ occurrence[i].slot = schedule[s].next

(* The rows and promises of new occurrences. *)
Launch(new) ==
    /\ occurrence' = occurrence \o new
    /\ launched' = launched \cup {new[k].schedule : k \in DOMAIN new}
    /\ executing' = executing \o [k \in DOMAIN new |-> "waiting"]
    /\ monitors' = monitors \o [k \in DOMAIN new |-> {"launch"}]
    /\ UNCHANGED followed

(* After an occurrence that was not started by hand. *)
Advanced(due) ==
    [s \in Schedules |->
        IF s \notin due THEN schedule[s]
        ELSE [schedule[s] EXCEPT !.enabled = (OnceAt[s] = NoTime),
                                 !.next = IF OnceAt[s] = NoTime THEN NextTime(s, clock) ELSE NoTime]]

(* Bug: a schedule that is enabled but works already is not passed over.   *)
FaultyLaunchable(s) ==
    schedule[s].exists /\ schedule[s].enabled /\ schedule[s].next <= clock /\ s \notin launched

Launchable(s) ==
    /\ schedule[s].exists /\ schedule[s].enabled
    /\ schedule[s].next <= clock
    /\ s \notin launched /\ ~HasActive(s)

EarlierDue(s, t) == schedule[s].next < schedule[t].next \/ (schedule[s].next = schedule[t].next /\ s < t)

(* tick: the due schedules in the order of their times.  An occurrence     *)
(* whose key exists throws, and nobody catches it: the earlier ones are in *)
(* the database, and the process ends.                                     *)
Tick ==
    LET due    == SetToSortSeq({s \in Schedules : Launchable(s)}, EarlierDue)
        clash  == {k \in DOMAIN due : KeyTaken(due[k])}
        done   == IF clash = {} THEN due
                  ELSE SubSeq(due, 1, (CHOOSE k \in clash : \A l \in clash : k <= l) - 1)
        new    == [k \in DOMAIN done |-> NewOccurrence(done[k], FALSE)]
    IN  /\ alive
        /\ due # <<>>
        /\ Len(occurrence) + Len(due) <= MaxOccurrences
        /\ schedule' = Advanced(ToSet(done))
        /\ IF clash = {}
           THEN Launch(new) /\ UNCHANGED <<alive, deaths>>
           ELSE /\ deaths < MaxDeaths
                /\ deaths' = deaths + 1
                /\ occurrence' = occurrence \o new
                /\ alive' = FALSE
                /\ launched' = {} /\ followed' = {}
                /\ executing' = [i \in DOMAIN occurrence' |-> "no"]
                /\ monitors' = [i \in DOMAIN occurrence' |-> {}]
        /\ UNCHANGED <<clock, requests>>

(* runNow; an active occurrence is an error of the request. *)
RunNow(s) ==
    /\ Request
    /\ schedule[s].exists /\ ~HasActive(s)
    /\ Len(occurrence) < MaxOccurrences
    /\ Launch(<<NewOccurrence(s, TRUE)>>)
    /\ UNCHANGED schedule

(* update; a schedule that is saved begins anew. *)
UpdateSchedule(s, enabled) ==
    /\ Request
    /\ schedule[s].exists
    /\ schedule' = [schedule EXCEPT ![s].enabled = enabled,
                      ![s].next = IF enabled THEN NextTime(s, clock) ELSE NoTime]
    /\ schedule' # schedule
    /\ UNCHANGED <<occurrence, scheduleMemory>>

(* delete takes the occurrences along. *)
DeleteSchedule(s) ==
    /\ Request
    /\ schedule[s].exists /\ ~HasActive(s)
    /\ schedule' = [schedule EXCEPT ![s].exists = FALSE, ![s].enabled = FALSE]
    /\ occurrence' = [i \in Occurrences |-> IF occurrence[i].schedule = s
                                    THEN [occurrence[i] EXCEPT !.status = "deleted"]
                                    ELSE occurrence[i]]
    /\ UNCHANGED scheduleMemory
----------------------------------------------------------------------------
(* Background tasks                                                        *)

(* executeTask once it holds a permit: a task that is not pending any more *)
(* gives it back; otherwise the message is sent and its run followed, or   *)
(* sending fails.                                                          *)
ExecuteTask(i) ==
    /\ Onward
    /\ executing[i] = "waiting" /\ Cardinality(WorkingTasks) < TaskLimit
    /\ IF occurrence[i].task # "pending"
       THEN executing' = [executing EXCEPT ![i] = "no"] /\ UNCHANGED occurrence
       ELSE \/ /\ executing' = [executing EXCEPT ![i] = "working"]
               /\ occurrence' = [occurrence EXCEPT ![i].task = "running", ![i].run = "active"]
            \/ /\ executing' = [executing EXCEPT ![i] = "no"]
               /\ occurrence' = [occurrence EXCEPT ![i].task = "failed"]
    /\ UNCHANGED <<schedule, launched, monitors, followed>>

(* Bug: the end of a resumed run is not recorded in its background task.   *)
FaultyTaskRunEnds(i, outcome) ==
    /\ Onward
    /\ occurrence[i].run \in {"active", "asking"}
    /\ occurrence' = [occurrence EXCEPT ![i].run = outcome,
                        ![i].task = IF executing[i] = "working" THEN outcome ELSE @]
    /\ executing' = [executing EXCEPT ![i] = IF @ = "working" THEN "no" ELSE @]
    /\ followed' = followed \ {i}
    /\ UNCHANGED <<schedule, launched, monitors>>

(* The run of the task ends: who follows it writes the task's status.      *)
TaskRunEnds(i, outcome) ==
    /\ Onward
    /\ occurrence[i].run \in {"active", "asking"}
    /\ occurrence' = [occurrence EXCEPT ![i].run = outcome,
                        ![i].task = IF executing[i] = "working" \/ i \in followed THEN outcome ELSE @]
    /\ executing' = [executing EXCEPT ![i] = IF @ = "working" THEN "no" ELSE @]
    /\ followed' = followed \ {i}
    /\ UNCHANGED <<schedule, launched, monitors>>

(* The run asks the user, and is answered. *)
TaskRunAsks(i) ==
    /\ Onward
    /\ occurrence[i].run = "active"
    /\ occurrence' = [occurrence EXCEPT ![i].run = "asking"]
    /\ UNCHANGED <<schedule, scheduleMemory>>

AnswerTaskRun(i) ==
    /\ Request
    /\ occurrence[i].run = "asking"
    /\ occurrence' = [occurrence EXCEPT ![i].run = "active"]
    /\ UNCHANGED <<schedule, scheduleMemory>>

(* cancelRun with cancelTask: the controller stops executeTask, the run is *)
(* told, task and occurrence are cancelled.                                *)
CancelOccurrence(i) ==
    /\ Request
    /\ ActiveOccurrence(i)
    /\ occurrence' = [occurrence EXCEPT ![i].status = "cancelled", ![i].revoked = TRUE,
                        ![i].task = IF @ \in {"pending", "running"} THEN "cancelled" ELSE @,
                        ![i].run = IF occurrence[i].task = "running" /\ @ = "asking"
                                   THEN "cancelled" ELSE @]
    /\ executing' = [executing EXCEPT ![i] = IF @ = "working" THEN "no" ELSE @]
    /\ UNCHANGED <<schedule, launched, monitors, followed>>

(* resumeRun of an interrupted run, with onRunResumed. *)
ResumeOccurrence(i) ==
    /\ Request
    /\ occurrence[i].run = "interrupted" /\ occurrence[i].status # "deleted"
    /\ occurrence' = [occurrence EXCEPT ![i].run = "active", ![i].task = "running",
                        ![i].status = IF @ = "awaiting_resume" THEN "running" ELSE @]
    /\ followed' = followed \cup {i}
    /\ monitors' = [monitors EXCEPT ![i] = IF occurrence[i].status = "awaiting_resume"
                                           THEN @ \cup {"resume"} ELSE @]
    /\ UNCHANGED <<schedule, launched, executing>>

(* A monitor looks at the task, and takes over the name of its run. *)
Link(i) ==
    /\ Onward
    /\ monitors[i] # {} /\ occurrence[i].run # "none" /\ ~occurrence[i].linked
    /\ occurrence[i].status # "deleted"
    /\ occurrence' = [occurrence EXCEPT ![i].linked = TRUE]
    /\ UNCHANGED <<schedule, scheduleMemory>>

(* A monitor sees that the task has ended.  A deleted occurrence is an     *)
(* error: execute catches it, nobody does for a resumed one.               *)
Monitor(i, m) ==
    /\ alive /\ UNCHANGED <<clock, requests, schedule>>
    /\ m \in monitors[i]
    /\ occurrence[i].task \notin {"pending", "running"}
    /\ IF occurrence[i].status = "deleted" /\ m = "resume"
       THEN /\ deaths < MaxDeaths
            /\ deaths' = deaths + 1
            /\ alive' = FALSE
            /\ launched' = {} /\ followed' = {}
            /\ executing' = [j \in Occurrences |-> "no"]
            /\ monitors' = [j \in Occurrences |-> {}]
            /\ UNCHANGED occurrence
       ELSE /\ monitors' = [monitors EXCEPT ![i] = @ \ {m}]
            /\ launched' = IF m = "launch" THEN launched \ {occurrence[i].schedule} ELSE launched
            /\ occurrence' = IF occurrence[i].status = "deleted" THEN occurrence
                 ELSE [occurrence EXCEPT ![i].linked = occurrence[i].run # "none",
                         ![i].status = IF occurrence[i].task = "interrupted" THEN "awaiting_resume"
                                       ELSE occurrence[i].task]
            /\ UNCHANGED <<alive, deaths, executing, followed>>
----------------------------------------------------------------------------
(* The process dies. *)
ServerDies ==
    /\ alive
    /\ deaths < MaxDeaths
    /\ deaths' = deaths + 1
    /\ alive' = FALSE
    /\ launched' = {} /\ followed' = {}
    /\ executing' = [i \in Occurrences |-> "no"]
    /\ monitors' = [i \in Occurrences |-> {}]
    /\ UNCHANGED <<clock, scheduleTables, requests>>

(* The constructor of the database and start(): tasks and runs under way   *)
(* are interrupted, a run may instead still have been queued; recoverRuns  *)
(* launches again what had no run and lets the others wait.                *)
ServerStarts ==
    /\ ~alive
    /\ alive' = TRUE
    /\ \E queued \in SUBSET {i \in Occurrences : occurrence[i].run = "active"} :
         LET again(i) == occurrence[i].status \in {"claimed", "running"} /\ ~occurrence[i].linked
         IN  /\ occurrence' = [i \in Occurrences |->
                  [occurrence[i] EXCEPT
                     !.task = IF again(i) /\ occurrence[i].run = "none"
                                 /\ @ \in {"pending", "running", "interrupted"} THEN "pending"
                              ELSE IF @ \in {"pending", "running"} THEN "interrupted" ELSE @,
                     !.run = IF @ = "active" /\ i \notin queued THEN "interrupted" ELSE @,
                     !.status = IF again(i) THEN "claimed"
                                ELSE IF @ = "running" THEN "awaiting_resume" ELSE @]]
             /\ launched' = {occurrence[i].schedule : i \in {j \in Occurrences : again(j)}}
             /\ executing' = [i \in Occurrences |-> IF again(i) THEN "waiting" ELSE "no"]
             /\ monitors' = [i \in Occurrences |-> IF again(i) THEN {"launch"} ELSE {}]
             /\ UNCHANGED <<clock, schedule, followed, requests, deaths>>

Advance == clock < MaxTime /\ clock' = clock + 1
           /\ UNCHANGED <<scheduleTables, alive, scheduleMemory, requests, deaths>>

SchedulerNext ==
    \/ Advance \/ Tick \/ ServerDies \/ ServerStarts
    \/ \E s \in Schedules : RunNow(s) \/ DeleteSchedule(s) \/ \E enabled \in BOOLEAN : UpdateSchedule(s, enabled)
    \/ \E i \in Occurrences :
         \/ ExecuteTask(i) \/ Link(i) \/ TaskRunAsks(i) \/ AnswerTaskRun(i) \/ CancelOccurrence(i) \/ ResumeOccurrence(i)
         \/ \E outcome \in Outcomes : TaskRunEnds(i, outcome)
         \/ \E m \in monitors[i] : Monitor(i, m)

SchedulerSpec == SchedulerInit /\ [][SchedulerNext]_schedulerVars

SchedulerOK ==
    /\ clock \in 0..MaxTime
    /\ DOMAIN executing = Occurrences /\ DOMAIN monitors = Occurrences
    /\ Cardinality(WorkingTasks) <= TaskLimit
    /\ launched \subseteq Schedules /\ followed \subseteq Occurrences

(* No two occurrences of a schedule are active together: each of tick,     *)
(* runNow and the restart looks before it starts one (hasActiveRun,        *)
(* running).  Occurrences the user has cancelled are excepted, see NoOverlap. *)
OneAtATime ==
    \A i, j \in Occurrences :
        /\ ActiveOccurrence(i) /\ ActiveOccurrence(j)
        /\ occurrence[i].schedule = occurrence[j].schedule
        /\ ~occurrence[i].revoked /\ ~occurrence[j].revoked
        => i = j

(* The same for all occurrences: a monitor that looks at its task after    *)
(* cancelRun brings the cancelled occurrence back.                         *)
NoOverlap ==
    \A i, j \in Occurrences :
        ActiveOccurrence(i) /\ ActiveOccurrence(j) /\ occurrence[i].schedule = occurrence[j].schedule => i = j

(* An occurrence that is claimed or running has a monitor, and once its    *)
(* run has ended the monitor can see it, whatever cancellations,           *)
(* resumptions, deletions and restarts came before; otherwise it would     *)
(* never end and its schedule never run again.                             *)
RunningIsWatched ==
    alive => \A i \in Occurrences :
        occurrence[i].status \in {"claimed", "running"} =>
            /\ monitors[i] # {}
            /\ occurrence[i].run \notin {"none", "active", "asking"} =>
                   occurrence[i].task \notin {"pending", "running"}
=============================================================================
