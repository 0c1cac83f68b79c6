------------------------------- MODULE CommandLine -------------------------------
(***************************************************************************)
(* The program "uma" (main.ts of the CLI), in one of the ways of using it. *)
(*                                                                         *)
(* "uma chat": the session it shows and the one it is told of, what the    *)
(* user's lines do to them, and the answers that come while the user goes  *)
(* on typing: handle is called for each line and waits for nobody.  What   *)
(* the commands do at the server is that of the modules of the server.     *)
(*                                                                         *)
(* "uma run": one message is sent, and what happens to its run is printed  *)
(* as it is told and, in the end, as the server remembers it.  The stream  *)
(* of the client (WebStream) is one that tells each event after the last,  *)
(* or skips some by a snapshot, or forgets where it was.  "uma sync"       *)
(* prints a session without sending anything.                              *)
(*                                                                         *)
(* The other commands make one request or two and end with a code.  "uma   *)
(* eval run", the program uma-eval and /test run in a chat work through a  *)
(* suite of cases, each with a session and a run of its own.               *)
(***************************************************************************)
EXTENDS Naturals, Sequences, FiniteSets

CONSTANTS Rooms,        \* sessions, numbers from 1
          Permits,      \* permissions that runs ask for, numbers from 1
          PermitOf,     \* [Permits -> Rooms]: the session of the run
          Slots,        \* bound of the model: lines that overlap, numbers from 1
          MaxLines,     \* bound: lines of the user
          MaxFiles,     \* bound: files of the chat
          PagePart,     \* events in a page, 1000 in the code
          MaxEvents,    \* bound: events of the session
          Suite         \* a sequence: the status each case of the suite expects

VARIABLES
    verb,      \* chat or run
    chat,      \* the variables of chat()
    air,       \* the requests of the chat that have no answer yet
    fileOf,    \* the session each file was uploaded for, 0 before
    strange,   \* history: what crossed what
    mail,      \* history: a message had files of another session and none of
               \* that explains it; files that left the list without a message
    events,    \* the events of the session: of the run that is sent, or others
    job,       \* that run
    stream,    \* the sequence the client is at, or Forgotten
    printer,   \* the variables of runCommand(), or of syncCommand()
    single,    \* a command of one request or two
    suite      \* the variables of evaluateSuite, and the runs of its cases

cliVars == <<verb, chat, air, fileOf, strange, mail, events, job, stream, printer, single, suite>>
chatVars == <<chat, air, fileOf, strange, mail>>
runVars == <<events, job, stream, printer>>
otherVars == <<single, suite>>

LocalFiles == 1..MaxFiles
Cases == DOMAIN Suite
Waiting == {"awaiting_input", "awaiting_confirmation"}
Rests == Waiting \cup {"completed", "failed"}
Idle == [kind |-> "none", of |-> 0, files |-> {}]
Forgotten == MaxEvents + 1
NoPage == [read |-> FALSE, to |-> 0, more |-> FALSE]

CommandLineInit ==
    /\ verb \in {"chat", "run", "sync", "single", "suite"}
    /\ \E s \in Rooms :
          chat = [active |-> s, snapshot |-> s, held |-> s, heard |-> {s}, timer |-> FALSE,
                  approvals |-> {}, historical |-> {}, files |-> {}, open |-> TRUE, lines |-> 0]
    /\ air = [x \in Slots |-> Idle]
    /\ fileOf = [f \in LocalFiles |-> 0]
    /\ strange = {}
    /\ mail = [misfit |-> FALSE, lost |-> {}]
    /\ events \in {<<>>, <<"other">>} /\ (verb \in {"run", "sync"} \/ events = <<>>)
    /\ job = "none"
    /\ stream = Len(events)
    /\ printer = [at |-> IF verb = "sync" THEN "catching" ELSE "sending", begun |-> Len(events),
                  buffered |-> <<>>, printed |-> <<>>, after |-> Len(events), page |-> NoPage,
                  seen |-> 0, whole |-> FALSE, odd |-> {}]
    /\ single = [kind |-> "none", at |-> "begins", done |-> FALSE, healthy |-> FALSE,
                 known |-> FALSE, code |-> 0]
    /\ \E program \in IF verb = "suite" THEN {"uma", "uma-eval"} ELSE {"uma"} :
          suite = [program |-> program, at |-> "begins", confirmed |-> FALSE, status |-> "none",
                   runs |-> [c \in Cases |-> "none"], passed |-> <<>>, report |-> "none",
                   code |-> 0]
----------------------------------------------------------------------------
(* chat: what handle has to wait for.  A line, or the timer, takes the     *)
(* first slot that is free (the order of slots means nothing).             *)
Free(x) == air[x] = Idle /\ \A y \in Slots : y < x => air[y] # Idle
Awaits(x, kind, of, files) == air' = [air EXCEPT ![x] = [kind |-> kind, of |-> of, files |-> files]]
Done(x) == air' = [air EXCEPT ![x] = Idle]
Under(kinds) == \E y \in Slots : air[y].kind \in kinds

(* A line is entered: first of all it is saved to the history.  (An empty  *)
(* line does nothing, escape asks the server to cancel what the session    *)
(* runs and changes nothing here.)                                         *)
Typed(x) ==
    /\ chat.open /\ chat.lines < MaxLines /\ Free(x)
    /\ chat' = [chat EXCEPT !.lines = @ + 1]
    /\ Awaits(x, "save", 0, {})
    /\ UNCHANGED <<fileOf, strange, mail>>

(* The line is saved, and handle goes on with what the chat shows by then. *)
Saved(x) == chat.open /\ air[x].kind = "save"

(* /newer, /queue status, /copy, /test list, a wrong use of a command.     *)
Local(x) ==
    /\ Saved(x) /\ Done(x)
    /\ UNCHANGED <<chat, fileOf, strange, mail>>

(* /use and /new: the session is asked for before the chat switches to it. *)
Use(x, s) ==
    /\ Saved(x) /\ Awaits(x, "use", s, {})
    /\ UNCHANGED <<chat, fileOf, strange, mail>>

(* /rename, /model, /queue set; /older, if the page begins after the first *)
(* message; a command whose answer is printed: another session is deleted, *)
(* the run of the snapshot is cancelled, resumed or decided, ! starts one, *)
(* tasks, schedules, knowledge and proposals are listed and changed.       *)
Command(x) ==
    /\ Saved(x)
    /\ \/ \E kind \in {"update", "older"} : Awaits(x, kind, chat.active, {})
       \/ Awaits(x, "command", 0, {})
    /\ UNCHANGED <<chat, fileOf, strange, mail>>

(* /approve: of a permission that is offered.                              *)
Approve(x, p) ==
    /\ Saved(x) /\ p \in chat.approvals
    /\ Awaits(x, "approve", p, {})
    /\ UNCHANGED <<chat, fileOf, strange, mail>>

(* /attach, or the first file that a message names: it is read.            *)
Reads(x) ==
    /\ Saved(x) /\ \E kind \in {"attach", "file"} : Awaits(x, kind, 0, {})
    /\ UNCHANGED <<chat, fileOf, strange, mail>>

(* And uploaded for the session that is active by then.                    *)
Unused == {f \in LocalFiles : fileOf[f] = 0 /\ \A g \in LocalFiles : g < f => fileOf[g] # 0}
Upload(x, f) ==
    /\ chat.open /\ air[x].kind \in {"attach", "file"} /\ air[x].of = 0 /\ f \in Unused
    /\ Awaits(x, air[x].kind, chat.active, {f})
    /\ fileOf' = [fileOf EXCEPT ![f] = chat.active]
    /\ UNCHANGED <<chat, strange, mail>>

(* A message takes the files of the list along.  What is written while the *)
(* chat switches goes to the next session with the files of the last one.  *)
Posts(x, files) ==
    /\ Awaits(x, "send", chat.active, files)
    /\ mail' = [mail EXCEPT !.misfit =
                   @ \/ (/\ ~Under({"switch"}) /\ strange' \cap {"late", "crossed", "failed"} = {}
                         /\ \E f \in files : fileOf[f] # chat.active)]

Send(x) ==
    /\ Saved(x)
    /\ UNCHANGED <<chat, fileOf, strange>>
    /\ Posts(x, chat.files)

(* The timer of refresh, 60 ms after the last event: the session that is   *)
(* active by then.                                                         *)
Refresh(x) ==
    /\ chat.timer /\ Free(x)
    /\ Awaits(x, "refresh", chat.active, {})
    /\ chat' = [chat EXCEPT !.timer = FALSE]
    /\ UNCHANGED <<fileOf, strange, mail>>

(* An answer of a session that is no longer the one of the chat.           *)
Late(x) == IF air[x].of # chat.active THEN {"late"} ELSE {}

(* switchSession: the chat stops listening, calls the session active, and  *)
(* asks for it once more.                                                  *)
Switches(x) ==
    /\ air[x].kind = "use"
    /\ strange' = strange \cup (IF Under({"switch"}) THEN {"crossed"} ELSE {})
    /\ Awaits(x, "switch", air[x].of, {})
    /\ chat' = [chat EXCEPT !.heard = @ \ {chat.held}, !.active = air[x].of]
    /\ UNCHANGED <<fileOf, mail>>

(* The rest of switchSession: what was listed for another session is       *)
(* forgotten.                                                              *)
Switched(x) ==
    /\ air[x].kind = "switch"
    /\ Done(x)
    /\ chat' = [chat EXCEPT !.snapshot = air[x].of, !.historical = {}, !.held = air[x].of,
                            !.heard = @ \cup {air[x].of}, !.approvals = {}, !.files = {}]
    /\ strange' = (strange \ {"late", "failed"}) \cup Late(x)
    /\ UNCHANGED <<fileOf, mail>>

(* Whatever is refreshed or updated becomes the active session again.      *)
(* Most updates are followed by a refresh, that of the queue mode is not.  *)
Refreshed(x) ==
    /\ Done(x)
    /\ \/ /\ air[x].kind = "refresh"
          /\ chat' = [chat EXCEPT !.active = air[x].of, !.snapshot = air[x].of]
       \/ /\ air[x].kind = "update"
          /\ \E timer \in {chat.timer, TRUE} :
                chat' = [chat EXCEPT !.active = air[x].of, !.timer = timer]
    /\ strange' = strange \cup Late(x)
    /\ UNCHANGED <<fileOf, mail>>

OlderRead(x) ==
    /\ air[x].kind = "older"
    /\ Done(x)
    /\ chat' = [chat EXCEPT !.historical = @ \cup {air[x].of}]
    /\ strange' = strange \cup Late(x)
    /\ UNCHANGED <<fileOf, mail>>

(* The answer of a command is printed, or the session is refreshed; a      *)
(* permission that was answered is no longer offered.                      *)
Answered(x) ==
    /\ Done(x)
    /\ \/ /\ air[x].kind = "command"
          /\ \E timer \in {chat.timer, TRUE} : chat' = [chat EXCEPT !.timer = timer]
       \/ /\ air[x].kind = "approve"
          /\ chat' = [chat EXCEPT !.approvals = @ \ {air[x].of}]
    /\ UNCHANGED <<fileOf, strange, mail>>

(* The file is listed; a message that brought it reads the next file it    *)
(* names or goes on, with all that are listed, to the session that is      *)
(* active by then.                                                         *)
Uploaded(x) ==
    /\ air[x].files # {} /\ air[x].kind \in {"attach", "file"}
    /\ chat' = [chat EXCEPT !.files = @ \cup air[x].files]
    /\ strange' = strange \cup Late(x) \cup IF Under({"send"}) THEN {"listed"} ELSE {}
    /\ \/ air[x].kind = "attach" /\ Done(x) /\ UNCHANGED mail
       \/ air[x].kind = "file" /\ Unused # {} /\ Awaits(x, "file", 0, {}) /\ UNCHANGED mail
       \/ air[x].kind = "file" /\ Posts(x, chat.files \cup air[x].files)
    /\ UNCHANGED fileOf

(* The message is accepted: the list is emptied, whatever it took along.   *)
Sent(x) ==
    /\ air[x].kind = "send"
    /\ Done(x)
    /\ mail' = [mail EXCEPT !.lost = @ \cup (chat.files \ air[x].files)]
    /\ chat' = [chat EXCEPT !.files = {}, !.timer = TRUE]
    /\ UNCHANGED <<fileOf, strange>>

(* A file cannot be read or written, or a request fails: the error is      *)
(* shown; a chat that has begun to switch listens to nobody.               *)
Fails(x) ==
    /\ air[x] # Idle
    /\ Done(x)
    /\ strange' = strange \cup IF air[x].kind = "switch" THEN {"failed"} ELSE {}
    /\ UNCHANGED <<chat, fileOf, mail>>

(* eventHandler.  A snapshot is taken as it comes; other events restart    *)
(* the timer.                                                              *)
Told(s) ==
    /\ chat.open /\ s \in chat.heard
    /\ \/ chat' = [chat EXCEPT !.snapshot = s, !.active = s]
       \/ chat' = [chat EXCEPT !.timer = TRUE]
       \/ \E p \in Permits : /\ PermitOf[p] = s
                             /\ \/ chat' = [chat EXCEPT !.timer = TRUE, !.approvals = @ \cup {p}]
                                \/ chat' = [chat EXCEPT !.timer = TRUE, !.approvals = @ \ {p}]
    /\ strange' = strange \cup IF s # chat.active THEN {"late"} ELSE {}
    /\ UNCHANGED <<air, fileOf, mail>>

(* /exit, or an interrupt: the client aborts its requests and begins no    *)
(* other, whatever a file that is read or saved is for.                    *)
Exit ==
    /\ chat.open
    /\ chat' = [chat EXCEPT !.open = FALSE, !.timer = FALSE, !.heard = @ \ {chat.held}]
    /\ air' = [x \in Slots |-> Idle]
    /\ UNCHANGED <<fileOf, strange, mail>>

ChatNext ==
    \/ Exit \/ \E s \in Rooms : Told(s)
    \/ \E x \in Slots :
          \/ Typed(x) \/ Local(x) \/ Command(x) \/ Reads(x) \/ Send(x) \/ Refresh(x)
          \/ Switches(x) \/ Switched(x) \/ Refreshed(x) \/ OlderRead(x) \/ Answered(x)
          \/ Uploaded(x) \/ Sent(x) \/ Fails(x)
          \/ \E s \in Rooms : Use(x, s)
          \/ \E p \in Permits : Approve(x, p)
          \/ \E f \in LocalFiles : Upload(x, f)
----------------------------------------------------------------------------
(* run: the session has events of its own, before, between and after those *)
(* of the run that the message begins.                                     *)
Happens(kind) ==
    /\ Len(events) < MaxEvents
    /\ events' = Append(events, kind)

Ours(i) == events[i] = "ours"
Numbers == DOMAIN events
Printed(seq) == printer.printed \o seq
ToSetOf(seq) == {seq[i] : i \in DOMAIN seq}
Shown(i) == verb = "sync" \/ Ours(i)
New(seq) == SelectSeq(seq, LAMBDA i : Shown(i) /\ i \notin ToSetOf(printer.printed))

RunStarts ==
    /\ printer.at = "sending" /\ job = "none"
    /\ Happens("ours") /\ job' = "running"
    /\ UNCHANGED <<stream, printer>>

RunMoves ==
    /\ job \in {"running", "waits"}
    /\ Happens("ours") /\ job' \in {"running", "waits", "ended"}
    /\ UNCHANGED <<stream, printer>>

Others ==
    /\ Happens("other")
    /\ UNCHANGED <<job, stream, printer>>

(* The listener: kept until the message is accepted, then printed, each    *)
(* event once.                                                             *)
Notified(i) ==
    /\ printer.at # "over"
    /\ stream = Forgotten \/ i = stream + 1
    /\ stream' = i
    /\ printer' = IF printer.at = "sending" THEN [printer EXCEPT !.buffered = Append(@, i)]
                  ELSE [printer EXCEPT !.printed = Printed(New(<<i>>))]
    /\ UNCHANGED <<events, job>>

(* A recovery by snapshot tells no event of the run.                       *)
Skips ==
    /\ printer.at # "over" /\ stream # Len(events)
    /\ stream' = Len(events)
    /\ printer' = [printer EXCEPT !.odd = @ \cup {"skipped"}]
    /\ UNCHANGED <<events, job>>

(* Neither events nor a snapshot came: whatever is told next is taken.     *)
(* Once in a behaviour (a bound of the model).                             *)
Forgets ==
    /\ printer.at # "over" /\ printer.odd \cap {"early", "forgot"} = {}
    /\ stream' = Forgotten
    /\ printer' = [printer EXCEPT !.odd = @ \cup {IF printer.at = "sending" THEN "early" ELSE "forgot"}]
    /\ UNCHANGED <<events, job>>

(* Bug: what came before the answer is left to the catch-up.               *)
FaultyAccepted ==
    /\ printer.at = "sending" /\ job # "none"
    /\ printer' = [printer EXCEPT !.at = "waiting", !.buffered = <<>>]
    /\ UNCHANGED <<events, job, stream>>

(* The answer to the message: what came before it is printed as it came.   *)
Accepted ==
    /\ printer.at = "sending" /\ job # "none"
    /\ printer' = [printer EXCEPT !.at = "waiting", !.buffered = <<>>,
                                  !.printed = Printed(SelectSeq(printer.buffered, Ours))]
    /\ UNCHANGED <<events, job, stream>>

(* waitForRun has seen the end, or that the run waits for a decision; the  *)
(* pages of the session begin after the first snapshot.                    *)
Ended ==
    /\ printer.at = "waiting" /\ job \in {"waits", "ended"}
    /\ printer' = [printer EXCEPT !.at = "catching", !.seen = Len(events)]
    /\ UNCHANGED <<events, job, stream>>

PageRead ==
    /\ printer.at = "catching" /\ ~printer.page.read
    /\ LET to == IF printer.after + PagePart < Len(events) THEN printer.after + PagePart
                 ELSE Len(events) IN
          printer' = [printer EXCEPT !.page = [read |-> TRUE, to |-> to, more |-> to < Len(events)]]
    /\ UNCHANGED <<events, job, stream>>

(* Bug: the page is printed as it is.                                      *)
FaultyPagePrinted ==
    /\ printer.at = "catching" /\ printer.page.read
    /\ LET page == [i \in 1..printer.page.to - printer.after |-> printer.after + i] IN
          printer' = [printer EXCEPT !.printed = Printed(SelectSeq(page, Shown)),
                                     !.after = printer.page.to, !.page = NoPage,
                                     !.at = IF printer.page.more THEN @ ELSE "over",
                                     !.whole = ~printer.page.more]
    /\ UNCHANGED <<events, job, stream>>

PagePrinted ==
    /\ printer.at = "catching" /\ printer.page.read
    /\ LET page == [i \in 1..printer.page.to - printer.after |-> printer.after + i] IN
          printer' = [printer EXCEPT !.printed = Printed(New(page)),
                                     !.after = printer.page.to, !.page = NoPage,
                                     !.at = IF printer.page.more THEN @ ELSE "over",
                                     !.whole = ~printer.page.more]
    /\ UNCHANGED <<events, job, stream>>

(* A request fails, with it the command. *)
GivesUp ==
    /\ printer.at # "over"
    /\ printer' = [printer EXCEPT !.at = "over"]
    /\ UNCHANGED <<events, job, stream>>

RunNext ==
    \/ RunStarts \/ RunMoves \/ Others \/ Skips \/ Forgets
    \/ Accepted \/ Ended \/ PageRead \/ PagePrinted \/ GivesUp
    \/ \E i \in Numbers : Notified(i)

(* sync: the pages are printed as they are, and nothing is listened to.    *)
SyncNext == Others \/ PageRead \/ PagePrinted \/ GivesUp
----------------------------------------------------------------------------
(* Any other command: what it reads, what it changes, "knowledge mount",   *)
(* which lists the sources afterwards, and "doctor", which is told of the  *)
(* health of the server and then asks for its models.                      *)
Over(code) == [single EXCEPT !.at = "over", !.code = code]

(* A wrong use of the command, and the help, need no server.               *)
NotAsked ==
    /\ single.at = "begins"
    /\ \E code \in {0, 1} : single' = Over(code)

Asks(kind) ==
    /\ single.at = "begins"
    /\ single' = [single EXCEPT !.at = "asked", !.kind = kind]

(* The server makes the change, if only after the command has given up.    *)
Changes ==
    /\ single.kind \in {"change", "mount"} /\ ~single.done
    /\ single' = [single EXCEPT !.done = TRUE]

Replied ==
    /\ single.at = "asked" /\ (single.kind \in {"change", "mount"} => single.done)
    /\ \/ single.kind \in {"read", "change"} /\ single' = Over(0)
       \/ single.kind = "mount" /\ single' = [single EXCEPT !.at = "lists"]
       \/ single.kind = "doctor" /\ \E healthy \in BOOLEAN :
              single' = [single EXCEPT !.at = "lists", !.healthy = healthy]

(* Bug: a token that is not accepted is only told of. *)
FaultyListed ==
    /\ single.at = "lists"
    /\ \/ single.kind = "mount" /\ single' = Over(0)
       \/ single.kind = "doctor" /\ \E known \in BOOLEAN :
              single' = [Over(IF single.healthy THEN 0 ELSE 1) EXCEPT !.known = known]

(* The list; of the models also the answer that the token is not accepted. *)
Listed ==
    /\ single.at = "lists"
    /\ \/ single.kind = "mount" /\ single' = Over(0)
       \/ single.kind = "doctor" /\ \E known \in BOOLEAN :
              single' = [Over(IF single.healthy /\ known THEN 0 ELSE 1) EXCEPT !.known = known]

Rejected ==
    /\ single.at \in {"asked", "lists"}
    /\ single' = Over(1)

SingleNext ==
    \/ NotAsked \/ Changes \/ Replied \/ Listed \/ Rejected
    \/ \E kind \in {"read", "change", "mount", "doctor"} : Asks(kind)
----------------------------------------------------------------------------
(* A suite: case after case, whatever becomes of each.                     *)
Case == Len(suite.passed) + 1
Judged(passed) ==
    [suite EXCEPT !.passed = Append(@, passed), !.confirmed = FALSE, !.status = "none",
                  !.at = IF Case = Len(Suite) THEN "reports" ELSE "begins"]

(* The session is created and the message of the case accepted.            *)
CaseStarts ==
    /\ suite.at = "begins"
    /\ suite' = [suite EXCEPT !.at = "waits", !.runs[Case] = "running"]

(* The server: a run goes on, until it ends or waits for somebody.         *)
CaseRuns(c) ==
    /\ suite.runs[c] = "running"
    /\ \E status \in Rests : suite' = [suite EXCEPT !.runs[c] = status]

(* waitForRun sees that the run rests; a plan that the case does not       *)
(* expect to be asked about is confirmed, once.                            *)
CaseRests ==
    /\ suite.at = "waits" /\ suite.runs[Case] \in Rests
    /\ LET status == suite.runs[Case]
           confirms == /\ status = "awaiting_confirmation" /\ ~suite.confirmed
                       /\ Suite[Case] # "awaiting_confirmation" IN
          suite' = [suite EXCEPT !.status = status, !.at = IF confirms THEN "confirms" ELSE "reads"]

(* confirmPlan; the run goes on and is waited for again.                   *)
CaseConfirms ==
    /\ suite.at = "confirms"
    /\ suite' = [suite EXCEPT !.at = "waits", !.confirmed = TRUE, !.runs[Case] = "running"]

(* Bug: a run that waits for somebody is as good as one that ends.         *)
FaultyJudges ==
    /\ suite.at = "reads"
    /\ \E passed \in {FALSE, suite.status # "failed"} : suite' = Judged(passed)

(* What the case expects of the answer, the route, the tools, the actions  *)
(* and the first page of events is read and compared.                      *)
Judges ==
    /\ suite.at = "reads"
    /\ \E passed \in {FALSE, suite.status = Suite[Case]} : suite' = Judged(passed)

(* A request fails, with it the case; the message may have been accepted,  *)
(* or the plan confirmed, and the run go on unseen.                        *)
CaseFails ==
    /\ suite.at \in {"begins", "waits", "confirms", "reads"}
    /\ \E status \in {suite.runs[Case]} \cup (IF suite.at \in {"begins", "confirms"}
                                            THEN {"running"} ELSE {}) :
          suite' = [Judged(FALSE) EXCEPT !.runs[Case] = status]

(* The report is stored; uma prints it and ends with 0, whatever it says.  *)
Reports ==
    /\ suite.at = "reports"
    /\ LET failed == \E c \in Cases : ~suite.passed[c] IN
          suite' = [suite EXCEPT !.report = IF failed THEN "failed" ELSE "completed",
                                 !.at = IF suite.program = "uma" THEN "over" ELSE "writes"]

(* Bug: the files tell, the code does not. *)
FaultyWrites ==
    /\ suite.at = "writes"
    /\ suite' = [suite EXCEPT !.at = "over"]

(* uma-eval writes it to files and tells by its code of a case that failed. *)
Writes ==
    /\ suite.at = "writes"
    /\ suite' = [suite EXCEPT !.at = "over", !.code = IF suite.report = "failed" THEN 1 ELSE 0]

NotReported ==
    /\ suite.at \in {"reports", "writes"}
    /\ suite' = [suite EXCEPT !.at = "broken", !.code = 1]

SuiteNext ==
    \/ CaseStarts \/ CaseRests \/ CaseConfirms \/ Judges \/ CaseFails
    \/ Reports \/ Writes \/ NotReported
    \/ \E c \in Cases : CaseRuns(c)

CommandLineNext ==
    /\ UNCHANGED verb
    /\ \/ verb = "chat" /\ ChatNext /\ UNCHANGED <<runVars, otherVars>>
       \/ verb = "run" /\ RunNext /\ UNCHANGED <<chatVars, otherVars>>
       \/ verb = "sync" /\ SyncNext /\ UNCHANGED <<chatVars, otherVars>>
       \/ verb = "single" /\ SingleNext /\ UNCHANGED <<chatVars, runVars, suite>>
       \/ verb = "suite" /\ SuiteNext /\ UNCHANGED <<chatVars, runVars, single>>

CommandLineSpec == CommandLineInit /\ [][CommandLineNext]_cliVars
----------------------------------------------------------------------------
CommandLineOK ==
    /\ {chat.active, chat.snapshot, chat.held} \subseteq Rooms
    /\ chat.heard \cup chat.historical \subseteq Rooms /\ chat.approvals \subseteq Permits
    /\ chat.files \subseteq LocalFiles
    /\ \A x \in Slots : air[x].of \in Rooms \cup Permits \cup {0} /\ air[x].files \subseteq LocalFiles
    /\ strange \subseteq {"late", "crossed", "failed", "listed"}
    /\ stream \in 0..MaxEvents \cup {Forgotten}
    /\ printer.at \in {"sending", "waiting", "catching", "over"}
    /\ single.at \in {"begins", "asked", "lists", "over"}
    /\ suite.at \in {"begins", "waits", "confirms", "reads", "reports", "writes", "over",
                    "broken"}
    /\ suite.status \in Rests \cup {"none"} /\ Len(suite.passed) <= Len(Suite)
    /\ \A c \in Cases : suite.runs[c] \in Rests \cup {"none", "running"}

(* When nothing is under way the chat shows, listens to and offers the     *)
(* session it calls active, after whatever switches, unless an answer came *)
(* late, two switches overlapped or the last one failed (switchSession,    *)
(* refresh, eventHandler); the next switch puts the first and the last     *)
(* right.                                                                  *)
ChatAgrees ==
    chat.open /\ ~chat.timer /\ (\A x \in Slots : air[x] = Idle)
        /\ strange \cap {"late", "crossed", "failed"} = {} =>
        /\ chat.snapshot = chat.active /\ chat.held = chat.active
        /\ chat.heard = {chat.active}
        /\ chat.historical \subseteq {chat.active}
        /\ \A p \in chat.approvals : PermitOf[p] = chat.active

(* The files of a message were uploaded for its session, unless it was     *)
(* written during a switch or after an answer that came late, and a file   *)
(* leaves the list with a message or a switch, unless it was listed while  *)
(* another message was under way (handle).                                 *)
FilesReach ==
    /\ ~mail.misfit
    /\ mail.lost # {} => "listed" \in strange

(* An event of the run is printed once, although the stream and the pages  *)
(* both tell it, unless the stream began anew before the message was       *)
(* accepted (emitted of runCommand).                                       *)
PrintedOnce ==
    "early" \in printer.odd \/
        \A i, j \in DOMAIN printer.printed : printer.printed[i] = printer.printed[j] => i = j

(* When the end of the run is printed, or that it waits, every event it    *)
(* had by then is printed, and none of another run, whatever the stream    *)
(* left out.                                                               *)
PrintedAll ==
    LET done == ToSetOf(printer.printed) IN
    /\ \A i \in done : Shown(i) /\ i > printer.begun
    /\ printer.whole =>
          \A i \in printer.begun + 1..(IF verb = "sync" THEN printer.after ELSE printer.seen) :
              Shown(i) => i \in done

(* What the stream does not skip is printed in order.                      *)
PrintedInOrder ==
    printer.odd # {} \/
        \A i, j \in DOMAIN printer.printed : i < j => printer.printed[i] < printer.printed[j]

(* A command ends with 0 only when what it asked for was done, doctor only *)
(* of a server that is well and accepts the token; what ends with 1 may    *)
(* have been done, or be done yet (main, doctorCommand).                   *)
CodeTells ==
    single.at = "over" /\ single.code = 0 =>
        /\ single.kind \in {"change", "mount"} => single.done
        /\ single.kind = "doctor" => single.healthy /\ single.known

(* A run that goes on, or waits unexpectedly, after its case is the run of *)
(* a case that failed, and whatever becomes of a case each one is judged   *)
(* (evaluateSuite).                                                        *)
NothingLeft ==
    /\ \A c \in DOMAIN suite.passed : suite.passed[c] => suite.runs[c] = Suite[c]
    /\ suite.at \in {"reports", "writes", "over"} => Len(suite.passed) = Len(Suite)

(* The report of the suite says "completed" only if every case passed, and *)
(* uma-eval ends with 0 only then (uma does whatever the report says).     *)
ReportTells ==
    suite.at = "over" =>
        /\ suite.report = "completed" => \A c \in Cases : suite.runs[c] = Suite[c]
        /\ suite.program = "uma-eval" /\ suite.code = 0 => suite.report = "completed"
=============================================================================
