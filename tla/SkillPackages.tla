----------------------------- MODULE SkillPackages -----------------------------
(***************************************************************************)
(* The packages of skills (skill-packages.ts, skills.ts): a package is     *)
(* staged, looked at by its owner and enabled, which copies it below the   *)
(* root the registry serves from.  The model follows the packages of one   *)
(* name; their contents are numbered in the order of installation.  A file *)
(* operation and what follows it in the program are one step, and between  *)
(* two of them any other request may run.                                  *)
(***************************************************************************)
EXTENDS Naturals, FiniteSets

CONSTANTS Extreme,     \* contents the inspection finds to be of extreme risk
          MaxContents, MaxRequested, MaxRestarts  \* bounds of the model

VARIABLES
    package,   \* the row of the name; content 0 while there is none
    stages,    \* directories below skill-staging, by their content
    managed,   \* managed-skills/<name>: its content, or 0
    copies,    \* managed-skills/<name>.new-<uuid>: contents
    registry,  \* SkillRegistry.skills: the content served for the name, or 0
    work,      \* requests under way, by number
    watch,     \* the watcher: its timer is set; what its refreshes under way have read
    approved,  \* contents whose owner has asked to enable them (history)
    muddled,   \* requests or refreshes overlapped, failed, or were cut off (history)
    happened   \* contents, requests and crashes so far

skillVars == <<package, stages, managed, copies, registry, work, watch, approved, muddled, happened>>

NoPackage == [content |-> 0, status |-> "none"]

SkillsInit ==
    /\ package = NoPackage
    /\ stages = {} /\ managed = 0 /\ copies = {} /\ registry = 0
    /\ work = {} /\ watch = [timer |-> FALSE, reads |-> {}]
    /\ approved = {} /\ muddled = FALSE
    /\ happened = [contents |-> 0, requests |-> 0, crashes |-> 0]

(* scan finds whatever holds a SKILL.md below the root, a copy that has not *)
(* got its name yet as well; the last one read is the one that counts.     *)
Found == IF managed = 0 /\ copies = {} THEN {0} ELSE (copies \cup {managed}) \ {0}

(* inspect; and what read and systemPrompt give to an agent.               *)
ExtremeRisk(content) == content \in Extreme
Given == {registry} \ {0}

RequestBegins(request) ==
    /\ happened.requests < MaxRequested
    /\ work' = work \cup {request}
    /\ muddled' = (muddled \/ work # {})

RequestGoes(w, at) == work' = (work \ {w}) \cup {[w EXCEPT !.at = at]}
Ends(w) == work' = work \ {w}
Watched == watch' = [watch EXCEPT !.timer = TRUE]
----------------------------------------------------------------------------
(* install: the files are read and inspected, and the package of that name *)
(* is looked up, before the new stage is written.                          *)
Install ==
    /\ happened.contents < MaxContents
    /\ RequestBegins([kind |-> "install", id |-> happened.requests, at |-> "write",
               content |-> happened.contents + 1, old |-> package.content])
    /\ happened' = [happened EXCEPT !.contents = @ + 1, !.requests = @ + 1]
    /\ UNCHANGED <<package, stages, managed, copies, registry, watch, approved>>

(* The stage is written and upsertSkillPackage makes it the package of the *)
(* name; or a write fails and the stage is removed.                        *)
FaultyStaged(w) ==
    /\ w.kind = "install" /\ w.at = "write"
    /\ stages' = stages \cup {w.content}
    /\ package' = [content |-> w.content,
                   status |-> IF package.status = "enabled" THEN "enabled" ELSE "staged"]
    /\ IF w.old = 0 THEN Ends(w) ELSE RequestGoes(w, "clean")
    /\ UNCHANGED <<managed, copies, registry, watch, approved, muddled, happened>>
Staged(w) ==
    /\ w.kind = "install" /\ w.at = "write"
    /\ stages' = stages \cup {w.content}
    /\ package' = [content |-> w.content, status |-> "staged"]
    /\ IF w.old = 0 THEN Ends(w) ELSE RequestGoes(w, "clean")
    /\ UNCHANGED <<managed, copies, registry, watch, approved, muddled, happened>>

WriteFails(w) ==
    /\ w.kind = "install" /\ w.at = "write"
    /\ Ends(w) /\ muddled' = TRUE
    /\ UNCHANGED <<package, stages, managed, copies, registry, watch, approved, happened>>

(* The stage of the package it replaced is removed; when that fails, the   *)
(* stage the row already names is.                                         *)
OldRemoved(w) ==
    /\ w.kind = "install" /\ w.at = "clean"
    /\ stages' = stages \ {w.old}
    /\ Ends(w)
    /\ UNCHANGED <<package, managed, copies, registry, watch, approved, muddled, happened>>

RemovalFails(w) ==
    /\ w.kind = "install" /\ w.at = "clean"
    /\ stages' = stages \ {w.content}
    /\ Ends(w) /\ muddled' = TRUE
    /\ UNCHANGED <<package, managed, copies, registry, watch, approved, happened>>
----------------------------------------------------------------------------
(* setStatus(enabled) takes the path of the package as it is now ...       *)
FaultyEnable ==
    /\ package.content # 0
    /\ RequestBegins([kind |-> "enable", id |-> happened.requests, at |-> "copy",
               content |-> package.content, old |-> 0])
    /\ approved' = approved \cup {package.content}
    /\ happened' = [happened EXCEPT !.requests = @ + 1]
    /\ UNCHANGED <<package, stages, managed, copies, registry, watch>>
Enable ==
    /\ package.content # 0 /\ ~ExtremeRisk(package.content)
    /\ RequestBegins([kind |-> "enable", id |-> happened.requests, at |-> "copy",
               content |-> package.content, old |-> 0])
    /\ approved' = approved \cup {package.content}
    /\ happened' = [happened EXCEPT !.requests = @ + 1]
    /\ UNCHANGED <<package, stages, managed, copies, registry, watch>>

(* ... copies it beside its place, where a scan already finds it, ...      *)
Copied(w) ==
    /\ w.kind = "enable" /\ w.at = "copy" /\ w.content \in stages
    /\ copies' = copies \cup {w.content}
    /\ RequestGoes(w, "clear") /\ Watched
    /\ UNCHANGED <<package, stages, managed, registry, approved, muddled, happened>>

CopyFails(w) ==
    /\ w.kind = "enable" /\ w.at = "copy"
    /\ copies' \in {copies, IF w.content \in stages THEN copies \cup {w.content} ELSE copies}
    /\ Ends(w) /\ Watched /\ muddled' = TRUE
    /\ UNCHANGED <<package, stages, managed, registry, approved, happened>>

(* ... makes room, and gives it its name; the row is enabled whatever it   *)
(* names by then.  A name that was taken in the meantime is an error.      *)
Cleared(w) ==
    /\ w.at = "clear"
    /\ managed' = 0
    /\ RequestGoes(w, IF w.kind = "enable" THEN "name" ELSE IF w.kind = "reject" THEN "discard" ELSE "record")
    /\ Watched
    /\ UNCHANGED <<package, stages, copies, registry, approved, muddled, happened>>

Named(w) ==
    /\ w.kind = "enable" /\ w.at = "name" /\ managed = 0
    /\ managed' = w.content
    /\ copies' = copies \ {w.content}
    /\ RequestGoes(w, "record") /\ Watched
    /\ UNCHANGED <<package, stages, registry, approved, muddled, happened>>

NameTaken(w) ==
    /\ w.kind = "enable" /\ w.at = "name" /\ managed # 0
    /\ Ends(w) /\ muddled' = TRUE
    /\ UNCHANGED <<package, stages, managed, copies, registry, watch, approved, happened>>

(* setStatus(disabled) and setStatus(rejected), which removes the stage    *)
(* the row names once the copy is gone.                                    *)
Withdraw(kind) ==
    /\ package.content # 0
    /\ RequestBegins([kind |-> kind, id |-> happened.requests, at |-> "clear", content |-> 0, old |-> 0])
    /\ happened' = [happened EXCEPT !.requests = @ + 1]
    /\ UNCHANGED <<package, stages, managed, copies, registry, watch, approved>>

Discarded(w) ==
    /\ w.at = "discard"
    /\ stages' = stages \ {package.content}
    /\ RequestGoes(w, "record")
    /\ UNCHANGED <<package, managed, copies, registry, watch, approved, muddled, happened>>

(* updateSkillPackageStatus, and the registry is read again.               *)
StatusRecorded(w) ==
    /\ w.at = "record"
    /\ package' = [package EXCEPT !.status = CASE w.kind = "enable" -> "enabled"
                                               [] w.kind = "disable" -> "disabled"
                                               [] OTHER -> "rejected"]
    /\ RequestGoes(w, "scan")
    /\ UNCHANGED <<stages, managed, copies, registry, watch, approved, muddled, happened>>
----------------------------------------------------------------------------
(* refresh: what it finds is put in force when everything has been read.   *)
Scanned(w) ==
    /\ w.at = "scan"
    /\ \E f \in Found : work' = (work \ {w}) \cup {[w EXCEPT !.at = "serve", !.content = f]}
    /\ UNCHANGED <<package, stages, managed, copies, registry, watch, approved, muddled, happened>>

Served(w) ==
    /\ w.at = "serve"
    /\ registry' = w.content
    /\ Ends(w)
    /\ UNCHANGED <<package, stages, managed, copies, watch, approved, muddled, happened>>

(* startWatching: a change below the root sets the timer, which starts a   *)
(* refresh of its own.                                                     *)
WatchScans ==
    /\ watch.timer
    /\ \E f \in Found : watch' = [timer |-> FALSE, reads |-> watch.reads \cup {f}]
    /\ muddled' = (muddled \/ watch.reads # {})
    /\ UNCHANGED <<package, stages, managed, copies, registry, work, approved, happened>>

WatchServes(f) ==
    /\ registry' = f
    /\ watch' = [watch EXCEPT !.reads = @ \ {f}]
    /\ UNCHANGED <<package, stages, managed, copies, work, approved, muddled, happened>>

(* A file that disappears while a refresh reads leaves the registry as it  *)
(* is (.catch in startWatching).                                           *)
WatchFails(f) ==
    /\ f \notin Found \cup {0}
    /\ watch' = [watch EXCEPT !.reads = @ \ {f}]
    /\ UNCHANGED <<package, stages, managed, copies, registry, work, approved, muddled, happened>>

(* The process dies, and the next one reads the roots before it serves.    *)
Restart ==
    /\ happened.crashes < MaxRestarts
    /\ happened' = [happened EXCEPT !.crashes = @ + 1]
    /\ muddled' = (muddled \/ work # {})
    /\ work' = {} /\ watch' = [timer |-> FALSE, reads |-> {}]
    /\ registry' \in Found
    /\ UNCHANGED <<package, stages, managed, copies, approved>>

SkillsNext ==
    \/ Install \/ Enable \/ \E kind \in {"disable", "reject"} : Withdraw(kind)
    \/ \E w \in work :
           \/ Staged(w) \/ WriteFails(w) \/ OldRemoved(w) \/ RemovalFails(w)
           \/ Copied(w) \/ CopyFails(w) \/ Cleared(w) \/ Named(w) \/ NameTaken(w)
           \/ Discarded(w) \/ StatusRecorded(w) \/ Scanned(w) \/ Served(w)
    \/ WatchScans \/ Restart
    \/ \E f \in watch.reads : WatchServes(f) \/ WatchFails(f)

SkillsSpec == SkillsInit /\ [][SkillsNext]_skillVars
----------------------------------------------------------------------------
SkillsOK ==
    /\ package.content \in 0..MaxContents
    /\ stages \cup copies \subseteq 1..MaxContents
    /\ {managed, registry} \subseteq 0..MaxContents
    /\ Cardinality(work) <= happened.requests

(* Whatever overlaps, fails or dies, agents are only ever given the        *)
(* content of a package that its owner asked to enable, and never of one    *)
(* that the inspection found to be of extreme risk (setStatus, refresh).   *)
ServedApproved == \A c \in Given : c \in approved /\ ~ExtremeRisk(c)

(* Between requests, as long as none overlapped another or was cut off,    *)
(* the row tells what is below the root: an enabled package is there, with *)
(* the content that was approved, and a disabled or rejected one is not;   *)
(* a rejected one has no stage either.                                     *)
RowTellsRoot ==
    work = {} /\ ~muddled =>
        /\ copies = {}
        /\ package.status = "enabled" => managed = package.content
        /\ package.status \in {"disabled", "rejected"} => managed = 0
        /\ package.status = "rejected" => stages = {}

(* And when the watcher has caught up too, agents are given what is there  *)
(* (startWatching; of two refreshes that overlap the last to end counts).  *)
RegistryCurrent ==
    work = {} /\ ~muddled /\ ~watch.timer /\ watch.reads = {} => registry = managed
=============================================================================
