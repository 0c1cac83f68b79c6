----------------------------- MODULE ConfigReload -----------------------------
(***************************************************************************)
(* Reloading the configuration of a runtime that goes on working: which    *)
(* parts hold the models and the connections of the tool servers before,   *)
(* during and after a reload that may fail half way.  reloadConfig of      *)
(* runtime.ts with the services that its constructor hands the registry    *)
(* to, McpManager of mcp.ts and the roots of skills.ts.                    *)
(*                                                                         *)
(* The configuration has three parts that can be reloaded, each known by   *)
(* its version.  The parts that need a restart change nothing here.        *)
(***************************************************************************)
EXTENDS Naturals, Sequences, FiniteSets

CONSTANTS Reloads, Runs,
          MaxVersion      \* bound: versions of each part

Parts == {"models", "mcp", "skills"}

VARIABLES
    file,     \* the configuration file
    config,   \* this.config
    held,     \* the model registry that runs, commands and listings hold
    managers, \* every McpManager: version and state
    current,  \* this.mcp
    roots,    \* of the skill registry: version, and whether it is watched
    reload,   \* per request
    run,      \* stage, manager of the tools, and whether a reload has reckoned with
              \* it ever since it was last put into the queue
    mishap    \* a reload overlapped another, or failed after its first change

reloadVars == <<file, config, held, managers, current, roots, reload, run, mishap>>

Original == [p \in Parts |-> 0]
NoReload == [stage |-> "idle", next |-> Original, changed |-> {}, manager |-> 0]
NoRun == [stage |-> "none", manager |-> 0, reckoned |-> FALSE]

ReloadInit ==
    /\ file = Original /\ config = Original
    /\ held = [runs |-> 0, commands |-> 0, listings |-> 0]
    /\ managers = <<[version |-> 0, state |-> "open"]>> /\ current = 1
    /\ roots = [version |-> 0, watched |-> TRUE]
    /\ reload = [r \in Reloads |-> NoReload]
    /\ run = [x \in Runs |-> NoRun]
    /\ mishap = FALSE

UnderWay == {r \in Reloads : reload[r].stage \in {"connecting", "closing", "scanning"}}

FaultyBusy == \E x \in Runs : run[x].stage = "working"

(* hasQueued: a run whose status says that it is queued or at work.  One   *)
(* that waits for a decision or was interrupted is not counted, nor is one *)
(* that decideRunAction has failed while it goes on.                       *)
Busy == \E x \in Runs : run[x].stage \in {"queued", "working"}

(* Somebody changes one part, or puts it back, as long as a reload is left *)
(* that will read it (a bound of the model).                               *)
EditFile ==
    /\ \E r \in Reloads : reload[r].stage = "idle"
    /\ \E p \in Parts, v \in 0..MaxVersion : file' = [file EXCEPT ![p] = v]
    /\ UNCHANGED <<config, held, managers, current, roots, reload, run, mishap>>

(******************************** A reload *********************************)
(* The loader has read the file.                                           *)
Load(r) ==
    /\ reload[r].stage = "idle"
    /\ reload' = [reload EXCEPT ![r] = [NoReload EXCEPT !.stage = "loaded", !.next = file]]
    /\ UNCHANGED <<file, config, held, managers, current, roots, run, mishap>>

(* Models and connections of a busy runtime wait for a restart.            *)
Changed(next) ==
    {p \in Parts : next[p] # config[p] /\ (Busy => p = "skills")}

Conclude(r, rec) ==
    /\ config' = [p \in Parts |-> IF p \in rec.changed THEN rec.next[p] ELSE config[p]]
    /\ reload' = [reload EXCEPT ![r].stage = "over"]

Skills(r, rec) ==
    IF "skills" \in rec.changed
    THEN /\ roots' = [version |-> rec.next["skills"], watched |-> FALSE]
         /\ reload' = [reload EXCEPT ![r] = [rec EXCEPT !.stage = "scanning"]]
         /\ UNCHANGED config
    ELSE Conclude(r, rec) /\ UNCHANGED roots

(* What follows the connection of the new servers without a pause.         *)
Apply(r, rec) ==
    /\ held' = IF "models" \in rec.changed THEN [held EXCEPT !.runs = rec.next["models"]] ELSE held
    /\ IF "mcp" \in rec.changed
       THEN /\ current' = rec.manager
            /\ reload' = [reload EXCEPT ![r] = [rec EXCEPT !.stage = "closing", !.manager = current]]
            /\ UNCHANGED <<config, roots>>
       ELSE Skills(r, rec) /\ UNCHANGED current

BeginReload(r) ==
    LET rec == [reload[r] EXCEPT !.changed = Changed(reload[r].next)] IN
    /\ reload[r].stage = "loaded"
    /\ mishap' = (mishap \/ UnderWay # {})
    /\ IF "mcp" \in rec.changed
       THEN /\ managers' = Append(managers, [version |-> rec.next["mcp"], state |-> "connecting"])
            /\ reload' = [reload EXCEPT ![r] =
                   [rec EXCEPT !.stage = "connecting", !.manager = Len(managers) + 1]]
            /\ UNCHANGED <<config, held, current, roots>>
       ELSE Apply(r, rec) /\ UNCHANGED managers
    /\ UNCHANGED <<file, run>>

Connects(r) ==
    /\ reload[r].stage = "connecting"
    /\ managers' = [managers EXCEPT ![reload[r].manager].state = "open"]
    /\ Apply(r, reload[r])
    /\ UNCHANGED <<file, run, mishap>>

FaultyConnectFails(r) ==
    /\ reload[r].stage = "connecting"
    /\ managers' = [managers EXCEPT ![reload[r].manager].state = "closed"]
    /\ Apply(r, reload[r])
    /\ UNCHANGED <<file, run, mishap>>

(* One server does not answer: the new manager is closed, the request      *)
(* fails, and nothing has changed.                                         *)
ConnectFails(r) ==
    /\ reload[r].stage = "connecting"
    /\ managers' = [managers EXCEPT ![reload[r].manager].state = "closed"]
    /\ reload' = [reload EXCEPT ![r].stage = "over"]
    /\ UNCHANGED <<file, config, held, current, roots, run, mishap>>

(* The connections of the previous manager are closed.                     *)
Closed(r) ==
    /\ reload[r].stage = "closing"
    /\ managers' = [managers EXCEPT ![reload[r].manager].state = "closed"]
    /\ Skills(r, reload[r])
    /\ UNCHANGED <<file, held, current, run, mishap>>

Scanned(r) ==
    /\ reload[r].stage = "scanning"
    /\ roots' = [roots EXCEPT !.watched = TRUE]
    /\ Conclude(r, reload[r])
    /\ UNCHANGED <<file, held, managers, current, run, mishap>>

(* A file that vanishes while it is scanned: the request fails with the    *)
(* new models and servers in place and the old configuration recorded.     *)
ScanFails(r) ==
    /\ reload[r].stage = "scanning"
    /\ reload' = [reload EXCEPT ![r].stage = "over"]
    /\ mishap' = TRUE
    /\ UNCHANGED <<file, config, held, managers, current, roots, run>>

(********************************* A run ***********************************)
Connecting == {r \in Reloads : reload[r].stage = "connecting"}

Becomes(x, stage, reckoned) ==
    /\ run' = [run EXCEPT ![x].stage = stage, ![x].reckoned = reckoned]
    /\ UNCHANGED <<file, config, held, managers, current, roots, reload, mishap>>

SendRun(x) == run[x].stage = "none" /\ Becomes(x, "queued", Connecting = {})

(* createTools takes the tools of the manager that is current, for each    *)
(* model loop of the run.                                                  *)
WorkRun(x) ==
    /\ run[x].stage \in {"queued", "working"}
    /\ run' = [run EXCEPT ![x].stage = "working", ![x].manager = current]
    /\ UNCHANGED <<file, config, held, managers, current, roots, reload, mishap>>

(* The plan is shown for confirmation, or the run is interrupted.          *)
PauseRun(x) == run[x].stage \in {"queued", "working"} /\ Becomes(x, "paused", FALSE)

(* The plan is confirmed, or the interrupted run resumed.                  *)
ConfirmRun(x) == run[x].stage = "paused" /\ Becomes(x, "queued", Connecting = {})

(* A reject of one of its actions fails the run, which works on and may    *)
(* write its status again.                                                 *)
DisownRun(x) == run[x].stage = "working" /\ Becomes(x, "disowned", FALSE)
ReturnRun(x) == run[x].stage = "disowned" /\ Becomes(x, "working", FALSE)

EndRun(x) ==
    /\ run[x].stage \in {"queued", "working", "paused", "disowned"}
    /\ Becomes(x, "over", FALSE)

ReloadNext ==
    \/ EditFile
    \/ \E r \in Reloads :
           \/ Load(r) \/ BeginReload(r) \/ Connects(r) \/ ConnectFails(r)
           \/ Closed(r) \/ Scanned(r) \/ ScanFails(r)
    \/ \E x \in Runs :
           \/ SendRun(x) \/ WorkRun(x) \/ PauseRun(x) \/ ConfirmRun(x)
           \/ DisownRun(x) \/ ReturnRun(x) \/ EndRun(x)

ReloadSpec == ReloadInit /\ [][ReloadNext]_reloadVars

(******************************* Properties ********************************)
(* Between reloads that do not overlap, what the runtime says it is        *)
(* configured with is what its runs get: models, open connections, watched *)
(* skills; a reload whose servers do not answer has changed nothing.       *)
(* reloadConfig of runtime.ts.                                             *)
ConfigTrue ==
    UnderWay = {} /\ ~mishap =>
        /\ held.runs = config["models"]
        /\ managers[current] = [version |-> config["mcp"], state |-> "open"]
        /\ roots = [version |-> config["skills"], watched |-> TRUE]

(* A run works on with open connections, whatever is reloaded meanwhile,   *)
(* if no reload was connecting when it was last put into the queue and its *)
(* status has said since that it was queued or at work.  hasQueued of      *)
(* runtime.ts.                                                             *)
ToolsStayOpen ==
    \A x \in Runs :
        run[x].stage = "working" /\ run[x].reckoned => managers[run[x].manager].state = "open"

(* README.md: an active run goes on with its frozen snapshot of the tools. *)
(* A run that is sent, or whose plan is confirmed, while the new servers   *)
(* connect begins to work on the old ones and loses them when the previous *)
(* manager is closed.                                                      *)
ToolsFrozen ==
    \A x \in Runs : run[x].stage = "working" => managers[run[x].manager].state = "open"

================================================================================
