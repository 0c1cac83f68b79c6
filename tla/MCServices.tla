------------------------------ MODULE MCServices ------------------------------
(* The parts of the runtime and of the clients that share no state with    *)
(* each other, checked side by side: "part" says which of them a behaviour *)
(* is about, and the others stand still.                                   *)
EXTENDS AndroidOutbox, KnowledgeIndex, ModelCall, TLC

(* AndroidOutbox and WebDrafts: two accounts with a session each.          *)
Owners == 1 :> 1 @@ 2 :> 2
WebFiles == {1}
MaxPrompts == 2
MaxSubmits == 3
MaxBreaks == 2

PageLength == 2
TurnLength == 3
MaxSequence == 7
MaxRevision == 2
MaxVisits == 2

Homes == {1, 2}
TaskSlots == 1
MaxSent == 2
Uploads == {1}

Chatters == {1, 2}
Values == {1, 2}
MaxFacts == 3
MaxTurns == 1
MaxReviews == 1

(* A schedule that is due once, or one with an interval. *)
Schedules == {1, 2}
Existing == {{1}, {2}}
OnceAt == <<1, -1>>
Outcomes == {"completed", "failed"}
TaskLimit == 1
MaxTime == 2
MaxOccurrences == 2
UserRequests == 2
MaxDeaths == 1

QueueRuns == 1..3
Commands == {2}
Devices == {1}
MaxChanges == 2
MaxRestarts == 1

(* Two pushes of a message beside one of the user, and two messages of the *)
(* buyer: both at once are beyond TLC.                                     *)
Inbound == {1}
Local == {3}
Buyers == {1, 2}
EventsConnected == TRUE
MaxPushes == 2
MaxSwitches == 1

Compactions == {1, 2}
Turns == {{1}, {1, 2}}
MinPending == 2
MaxEntries == 4
MaxForks == 1

MaxMessages == 4

Reloads == {1, 2}
Runs == {1}
MaxVersion == 1

(* AndroidRequests: two accounts, the first with two sessions, one of them *)
(* created while the application runs.                                     *)
Users == {1, 2}
Conversations == {1, 2, 3}
UserOf == <<1, 1, 2>>
Later == {2}
MaxActs == 3

(* Credentials: one browser, two applications that sign in through it.     *)
Places == {1}
Applications == {1, 2}
FailureLimit == 2
FailureWindow == 2
RegistrationLimit == 1
RegistrationWindow == 2
SessionHours == 1
CodeLife == 1
LastInstant == 3
MaxTokens == 2
MaxCookies == 2
MaxCodes == 1
MaxMisses == 3

(* SkillPackages: the second content of a name is of extreme risk.         *)
Extreme == {2}
MaxContents == 2
MaxRequested == 3
MaxCrashes == 1

(* Approvals: two calls and a plan of two accounts. *)
Calls == {1, 2}
Plans == {3}
Askers == <<1, 2, 1>>
MaxSettings == 2

(* Optimization: one file that exists and one that does not, and a request *)
(* that writes the same file twice.                                        *)
Paths == {1, 2}
Present == {1}
ChangeLists == {<<>>, <<1, 1>>, <<2>>, <<1, 2>>}
ChangeRequests == 2
MaxTroubles == 1
MaxDecisions == 2

(* Attachments: a file within the limits of a response and one beyond.     *)
Sizes == {2, 4}
UploadLimit == 3
TotalLimit == 3
MaxAdditions == 3

(* Preflight: a run of either mode. *)
Modes == {"agent", "plan"}
RunDecisions == 3
PolicySwitches == 2

(* XianyuService: a history of two pages, a new chat and an item that is   *)
(* published.                                                              *)
MaxLogins == 2
MaxClosing == 1
Asked == {1, 2, 3}
KindOf == <<"history", "chat", "publish">>
PageSize == 2
MaxTalk == 3
MaxNoted == 2
MaxEnds == 1

(* WebSessions: a page of two accounts and two sessions, one of the first  *)
(* account and one that is created meanwhile.                              *)
Members == {1, 2}
Threads == {1, 2}

(* BrowserWorker: two calls for one page.                                  *)
Opens == {1, 2}
HandleLimit == 1
MaxBrowsers == 3

(* CommandLine: two sessions, lines that overlap in pairs, a permission    *)
(* that a run of the first session asks for, and a suite of two cases, the *)
(* second of which expects to be asked about its plan.                     *)
Rooms == {1, 2}
Slots == {1, 2}
MaxLines == 3
MaxFiles == 2
Permits == {1}
PermitOf == <<1>>
Suite == <<"completed", "awaiting_confirmation">>
PagePart == 2
MaxEvents == 3

VARIABLES part,
    view, notes, sending, uploading, counted, webInbox,
    server, shown, kept, older, reading, jumped, visit,
    alive, tasks, line, held, deletions, uploads, lifeJobs,
    facts, turn, spoken, rollups,
    clock, schedule, occurrence, launched, executing, monitors, followed,
    requests, deaths, schedulerAlive,
    rows, live, head, captured, readAs, revision, device, apart, changes, restarts,
    received, answers, order, replied, autoReply, adapter, stored, sent, bounds,
    channelDrafts,
    log, path, branch, summary, compactionJobs,
    messages, runs, queue, context, tip, origin,
    file, config, heldBy, managers, current, roots, reload, run, mishap,
    screen, air, present, account, strayed,
    now, accounts, tokens, cookies, browser, codes, failures, registrations, misses, joins,
    package, stages, managed, copies, registry, asked, watch, approved, muddled, happened,
    row, waiting, answer, aborted, auto, plan, process, cut, count,
    proposal, files, backups, changing, applications, troubles, decisions, mixed,
    response, activities, attachments, directories, additions, overlapped, crashes,
    planned, entry, asking, policy, decided, allowed, interrupted, switches, ends,
    started, link, closing, login, polls, jar, saved, odd, died,
    talk, connected, pending, asks, listed, noted, stateFile, writer, ended,
    site, page, listing, loading, fresh, making, removing, cached, told, webTroubles,
    opens, handles, expired, contexts, inUse, launching, browsers, unheard, worker, unusual,
    verb, chat, cliAir, fileOf, strange, mail, events, job, stream, printer, single, suite

WebDraft == INSTANCE WebDrafts WITH inbox <- webInbox
History == INSTANCE HistoryPaging
Sessions == INSTANCE SessionLife WITH jobs <- lifeJobs, Uploads <- {}
Uploading == INSTANCE SessionLife WITH jobs <- lifeJobs, MaxSent <- 1
Schedule == INSTANCE Scheduler WITH alive <- schedulerAlive, MaxRequests <- UserRequests
Queue == INSTANCE MessageQueue
Channel == INSTANCE ChannelDelivery WITH drafts <- channelDrafts
Several == INSTANCE ChannelDelivery WITH drafts <- channelDrafts, Inbound <- Buyers, Local <- {}
Context == INSTANCE ModelContext WITH jobs <- compactionJobs
Talk == INSTANCE Conversation WITH head <- tip, source <- origin
Configure == INSTANCE ConfigReload WITH held <- heldBy
Phone == INSTANCE AndroidRequests
Auth == INSTANCE Credentials
Skills == INSTANCE SkillPackages WITH work <- asked
Permit == INSTANCE Approvals WITH Owners <- Users, OwnerOf <- Askers
Improve == INSTANCE Optimization WITH
               requests <- changing, rows <- applications, MaxRequests <- ChangeRequests
Attach == INSTANCE Attachments
Before == INSTANCE Preflight WITH
              run <- planned, auto <- policy, cut <- interrupted, crashes <- ends,
              MaxDecisions <- RunDecisions, MaxSwitches <- PolicySwitches
Market == INSTANCE XianyuService WITH file <- stateFile
Page == INSTANCE WebSessions WITH troubles <- webTroubles
Worker == INSTANCE BrowserWorker WITH
              current <- inUse, pending <- launching, odd <- unusual
Command == INSTANCE CommandLine WITH air <- cliAir

(* The state of each part; those of AndroidOutbox, KnowledgeIndex and      *)
(* ModelCall are the tuples of their modules.                              *)
webDraftState == <<view, notes, sending, uploading, counted, webInbox>>
historyState == <<server, shown, kept, older, reading, jumped, visit>>
sessionState == <<alive, tasks, line, held, deletions, uploads, lifeJobs>>
memoryState == <<facts, turn, spoken, rollups>>
schedulerState == <<clock, schedule, occurrence, launched, executing, monitors, followed,
                    requests, deaths, schedulerAlive>>
queueState == <<rows, live, head, captured, readAs, revision, device, apart, changes, restarts>>
channelState == <<received, answers, order, replied, autoReply, adapter, stored, sent, bounds,
                  channelDrafts>>
contextState == <<log, path, branch, summary, compactionJobs>>
conversationState == <<messages, runs, queue, context, tip, origin>>
toolsState == <<actions, records, loop>>
reloadState == <<file, config, heldBy, managers, current, roots, reload, run, mishap>>
phoneState == <<screen, air, present, account, strayed>>
loginState == <<now, accounts, tokens, cookies, browser, codes, failures, registrations, misses,
                joins>>
skillsState == <<package, stages, managed, copies, registry, asked, watch, approved, muddled,
                 happened>>
permitState == <<row, waiting, answer, aborted, auto, plan, process, cut, count>>
improveState == <<proposal, files, backups, changing, applications, troubles, decisions, mixed>>
attachState == <<response, activities, attachments, directories, additions, overlapped, crashes>>
beforeState == <<planned, entry, asking, policy, decided, allowed, interrupted, switches, ends>>
marketState == <<started, link, closing, login, polls, jar, saved, odd, died>>
platformState == <<talk, connected, pending, asks, listed, noted, stateFile, writer, ended>>
pageState == <<site, page, listing, loading, fresh, making, removing, cached, told, webTroubles>>
workerState == <<opens, handles, expired, contexts, inUse, launching, browsers, unheard, worker,
                 unusual>>
commandState == <<verb, chat, cliAir, fileOf, strange, mail, events, job, stream, printer,
                  single, suite>>
servicesVars ==
    <<part, outboxVars, knowledgeVars, request,
      webDraftState, historyState, sessionState,
      memoryState, schedulerState, queueState,
      channelState, contextState, conversationState,
      toolsState, reloadState, phoneState, loginState, skillsState, permitState, improveState,
      attachState, beforeState, marketState, platformState, pageState, workerState,
      commandState>>

Components ==
    {"outbox", "drafts", "history", "phone", "page", "command",
     "knowledge", "call", "sessions", "uploads", "memory", "scheduler", "queue", "channel",
     "several", "context", "conversation", "tools", "reload", "login", "skills", "permits",
     "improve", "attachments", "preflight", "market", "platform", "worker"}

(* The state of the part that moves tells two states apart: the others are *)
(* as they began.                                                          *)
Seen ==
    <<part,
      CASE part = "outbox" -> outboxVars       [] part = "drafts" -> webDraftState
        [] part = "history" -> historyState    [] part = "phone" -> phoneState
        [] part = "page" -> pageState          [] part = "command" -> commandState
        [] part = "knowledge" -> knowledgeVars [] part = "call" -> request
        [] part \in {"sessions", "uploads"} -> sessionState
        [] part = "memory" -> memoryState      [] part = "scheduler" -> schedulerState
        [] part = "queue" -> queueState        [] part = "context" -> contextState
        [] part \in {"channel", "several"} -> channelState
        [] part = "conversation" -> conversationState
        [] part = "tools" -> toolsState        [] part = "reload" -> reloadState
        [] part = "login" -> loginState        [] part = "skills" -> skillsState
        [] part = "permits" -> permitState     [] part = "improve" -> improveState
        [] part = "attachments" -> attachState [] part = "preflight" -> beforeState
        [] part = "market" -> marketState      [] part = "platform" -> platformState
        [] part = "worker" -> workerState>>

(* One part moves, the others keep the state they began with. *)
Moves(name, step, state) == IF part = name THEN step ELSE UNCHANGED state

Init ==
    /\ part \in Components
    /\ OutboxInit
    /\ KnowledgeInit
    /\ ModelCallInit
    /\ WebDraft!WebDraftsInit
    /\ History!PagingInit
    /\ IF part = "uploads" THEN Uploading!LifeInit ELSE Sessions!LifeInit
    /\ Context!MemoryInit
    /\ Schedule!SchedulerInit
    /\ Queue!QueueInit
    /\ IF part = "several" THEN Several!ChannelInit ELSE Channel!ChannelInit
    /\ Context!CompactionInit
    /\ Talk!ConversationInit
    /\ ToolLoopInit
    /\ Configure!ReloadInit
    /\ Phone!RequestsInit
    /\ Auth!CredentialsInit
    /\ Skills!SkillsInit
    /\ Permit!ApprovalsInit
    /\ Improve!OptimizationInit
    /\ Attach!AttachmentsInit
    /\ Before!PreflightInit
    /\ Market!ServiceInit
    /\ Market!CallsInit
    /\ Page!WebSessionsInit
    /\ Worker!BrowserInit
    /\ Command!CommandLineInit
    /\ part # "preflight" => planned.mode = "agent" /\ ~policy
    /\ part # "market" => saved = Market!NoCookie
    /\ part # "platform" => talk = 0
    /\ site.cookie = 1 /\ site.owner[2] = Page!Nobody /\ chat.active = 1
    /\ site.owner[1] = IF part = "page" THEN 1 ELSE Page!Nobody
    /\ part # "command" => verb = "chat"
    /\ part # "scheduler" => schedule[1].exists
    /\ part # "call" => request.kind = "stream"

Next ==
    /\ UNCHANGED part
    /\ Moves("outbox", OutboxNext, outboxVars)
    /\ Moves("knowledge", KnowledgeNext, knowledgeVars)
    /\ Moves("call", ModelCallNext, request)
    /\ Moves("drafts", WebDraft!WebDraftsNext, webDraftState)
    /\ Moves("history", History!PagingNext, historyState)
    /\ IF part = "uploads" THEN Uploading!LifeNext
       ELSE Moves("sessions", Sessions!LifeNext, sessionState)
    /\ Moves("memory", Context!MemoryNext, memoryState)
    /\ Moves("scheduler", Schedule!SchedulerNext, schedulerState)
    /\ Moves("queue", Queue!QueueNext, queueState)
    /\ IF part = "several" THEN Several!ChannelNext
       ELSE Moves("channel", Channel!ChannelNext, channelState)
    /\ Moves("context", Context!CompactionNext, contextState)
    /\ Moves("conversation", Talk!ConversationNext, conversationState)
    /\ Moves("tools", ToolLoopNext, toolsState)
    /\ Moves("reload", Configure!ReloadNext, reloadState)
    /\ Moves("phone", Phone!RequestsNext, phoneState)
    /\ Moves("login", Auth!CredentialsNext, loginState)
    /\ Moves("skills", Skills!SkillsNext, skillsState)
    /\ Moves("permits", Permit!ApprovalsNext, permitState)
    /\ Moves("improve", Improve!OptimizationNext, improveState)
    /\ Moves("attachments", Attach!AttachmentsNext, attachState)
    /\ Moves("preflight", Before!PreflightNext, beforeState)
    /\ Moves("market", Market!ServiceNext, marketState)
    /\ Moves("platform", Market!CallsNext, platformState)
    /\ Moves("page", Page!WebSessionsNext, pageState)
    /\ Moves("worker", Worker!BrowserNext, workerState)
    /\ Moves("command", Command!CommandLineNext, commandState)

Spec == Init /\ [][Next]_servicesVars

----------------------------------------------------------------------------
(* What a user composes on a phone or in a browser reaches its session     *)
(* once, whatever is lost, repeated, killed or retried, unless a refused   *)
(* retry gave its id up, and after logout nothing of the account is left.  *)
(* SentOnce, LogoutForgets, WebComposes: send and DraftStore of Android,   *)
(* useConversationDrafts of the web.                                       *)
ComposedOnce ==
    /\ part = "outbox" => OutboxOK /\ SentOnce /\ LogoutForgets
    /\ part = "drafts" => WebDraft!WebDraftsOK /\ WebDraft!WebComposes

(* Paging back through a session skips nothing of the active branch and    *)
(* shows nothing of another (ReadsOn: listHistory and the cache of the     *)
(* application); the page of a browser shows the sessions of the account   *)
(* that signed in, with those it created and without those it deleted      *)
(* (CreatedStays, DeletedStays, PageOfAccount, LoginStands: App.tsx), and  *)
(* the program uma shows the session it listens to and prints what happens *)
(* to its run, all of it and once (ChatAgrees, FilesReach, PrintedOnce,    *)
(* PrintedAll, PrintedInOrder), and ends with what was done or judged      *)
(* (CodeTells, NothingLeft, ReportTells: main.ts of the CLI, runner.ts).   *)
ReadsOn ==
    /\ part = "history" => History!TypeOKPaging /\ History!ReadsOn
    /\ part = "page" => /\ Page!WebSessionsOK /\ Page!CreatedStays /\ Page!DeletedStays
                       /\ Page!PageOfAccount /\ Page!LoginStands
    /\ part = "command" => /\ Command!CommandLineOK /\ Command!ChatAgrees /\ Command!FilesReach
                          /\ Command!PrintedOnce /\ Command!PrintedAll
                          /\ Command!PrintedInOrder /\ Command!CodeTells
                          /\ Command!NothingLeft /\ Command!ReportTells

(* A background task reports the outcome of its own run (OutcomeIsOwn:     *)
(* executeTask), and a schedule has one occurrence at a time, each watched *)
(* until it ends (OneAtATime, RunningIsWatched: tick, runNow, monitor).    *)
TasksReport ==
    /\ part = "sessions" => Sessions!LifeOK /\ Sessions!OutcomeIsOwn
    /\ part = "uploads" => Uploading!LifeOK
    /\ part = "scheduler" => /\ Schedule!SchedulerOK
                             /\ Schedule!OneAtATime
                             /\ Schedule!RunningIsWatched

(* A session does not disappear under a run that was executing when its    *)
(* deletion was asked for (deleteSession waits for those).                 *)
DeletedWhenIdle ==
    [][part = "sessions" => \A s \in Homes :
           deletions[s] # {} /\ s \in alive /\ s \notin alive' =>
               \A r \in deletions[s] : ~lifeJobs[r].works]_servicesVars

(* What a model is given: the summary covers the active branch and no      *)
(* other, no message and no call of a result is left out, a key of the     *)
(* memory has one value per session, and a chunk has the vector of its own *)
(* text (SummaryOfPath and ContextComplete: compact; OneValuePerSession:   *)
(* addMemoryFact; VectorsOfTexts and PermitsExact: embedding.ts).          *)
ContextTrue ==
    /\ part = "context" => Context!CompactionOK /\ Context!SummaryOfPath /\ Context!ContextComplete
    /\ part = "memory" => Context!MemoryOK /\ Context!OneValuePerSession
    /\ part = "knowledge" => VectorsOfTexts /\ PermitsExact

(* What the user sees of a conversation only changes by an edit, and a run *)
(* that waits has its message there (PathKept: message-repository.ts and   *)
(* active_path).                                                           *)
PathKept ==
    [][/\ \A m \in Talk!Visible :
            messages[m].role = "command" \/ m \in Talk!Visible'
              \/ \E edited \in Talk!Numbers : Talk!Edit(edited)
       /\ (\A i \in DOMAIN queue :
            runs[queue[i]].resumed \/ runs[queue[i]].message \in Talk!Visible)']_servicesVars

(* The rows of the queue and the entries of the process agree about what   *)
(* waits and in which order, and a device that reorders has seen what it   *)
(* reorders (MirrorComplete, OrderMatches, RevisionTellsOrder:             *)
(* queue-state.ts and the queue operations of runtime.ts).                 *)
QueueAgrees ==
    part = "queue" =>
        Queue!QueueOK /\ Queue!MirrorComplete /\ Queue!OrderMatches /\ Queue!RevisionTellsOrder

(* One run for a message of a buyer and one reply, however often either is *)
(* delivered and whatever dies (OneRunPerMessage, ReplySentOnce: the       *)
(* adapter, xianyu-routes.ts and the deliveries of the database); the      *)
(* adapter is connected as the account that is signed in and says so       *)
(* (StartedRuns, OneAccount, ConnectedTells, StatusTells: transport.ts,    *)
(* login.ts, main.ts); a call waits only on a connection that is there,    *)
(* reads the whole of a history and lists an item once (WaitsOnConnection, *)
(* HistoryWhole, ListedOnce, WriterRests: transport.ts, client.ts).        *)
ChannelOnce ==
    /\ part = "channel" => Channel!ChannelOK /\ Channel!OneRunPerMessage /\ Channel!ReplySentOnce
    /\ part = "several" => Several!ChannelOK /\ Several!OneRunPerMessage /\ Several!ReplySentOnce
    /\ part = "market" => /\ Market!ServiceOK /\ Market!StartedRuns /\ Market!OneAccount
                          /\ Market!ConnectedTells /\ Market!StatusTells
    /\ part = "platform" => /\ Market!CallsOK /\ Market!WaitsOnConnection
                            /\ Market!HistoryWhole /\ Market!ListedOnce
                            /\ Market!WriterRests

(* An agent sees one attempt of a model call and its row agrees with it    *)
(* (OneAnswer, CallAccounted: model-retry.ts, model-calls.ts), a call of a *)
(* tool is not repeated for ever (RepeatsBounded: tool-loop-guard.ts), the *)
(* files it attaches are there, within the limit and sent with the         *)
(* response (TotalKept, SentWithResponse, FileBehind: addAttachment), the  *)
(* pages it opens are there and closed in the end (OneBrowser,             *)
(* HandleHasPage, HandlesLimited, NoneLeft: the browser worker), and       *)
(* a plan is the plan of its goal and has been allowed (PlanAllowed,       *)
(* PlanOfGoal: run-preflight.ts and executeRun).                           *)
CallsAccounted ==
    /\ part = "call" => ModelCallOK /\ OneAnswer /\ CallAccounted
    /\ part = "tools" => ToolLoopOK /\ RepeatsBounded
    /\ part = "attachments" => /\ Attach!AttachmentsOK /\ Attach!TotalKept
                               /\ Attach!SentWithResponse /\ Attach!FileBehind
    /\ part = "preflight" => /\ Before!PreflightOK /\ Before!PlanAllowed
                             /\ Before!PlanOfGoal
    /\ part = "worker" => /\ Worker!BrowserOK /\ Worker!OneBrowser /\ Worker!HandleHasPage
                          /\ Worker!HandlesLimited /\ Worker!NoneLeft

(* Between reloads that do not overlap runs get what the runtime says it   *)
(* is configured with, and a run that was queued while no reload connected *)
(* keeps its tools as long as hasQueued counts it (ConfigTrue,             *)
(* ToolsStayOpen: reloadConfig).                                           *)
ReloadTrue == part = "reload" => Configure!ConfigTrue /\ Configure!ToolsStayOpen

(* An answer that arrives late shows nothing of another session and        *)
(* nothing of another account, and the flag that keeps operations from     *)
(* starting is released by someone (QueueOfSelection, AccountAlone,        *)
(* FlagReleased: the coroutines of MainActivity.kt).                       *)
AnswersFitTheScreen ==
    part = "phone" => /\ Phone!RequestsOK /\ Phone!QueueOfSelection
                      /\ Phone!AccountAlone /\ Phone!FlagReleased

(* Who may ask and what is allowed: a code of an application gives one     *)
(* token and failed logins are slowed down, an agent is given a skill its  *)
(* owner approved, the answer to a permission is what its row says, and    *)
(* files an administrator let a proposal change can be had back            *)
(* (OneTokenPerCode, AttemptsLimited: auth.ts; ServedApproved,             *)
(* RowTellsRoot, RegistryCurrent: skill-packages.ts; AnswerFitsRow,        *)
(* PolicyAnswers: run-approvals.ts; Undone, OriginalsKept:                 *)
(* runtime-optimization-execution.ts).                                     *)
AccountsAndPermissions ==
    /\ part = "login" => Auth!CredentialsOK /\ Auth!OneTokenPerCode /\ Auth!AttemptsLimited
    /\ part = "skills" => /\ Skills!SkillsOK /\ Skills!ServedApproved
                          /\ Skills!RowTellsRoot /\ Skills!RegistryCurrent
    /\ part = "permits" => Permit!ApprovalsOK /\ Permit!AnswerFitsRow /\ Permit!PolicyAnswers
    /\ part = "improve" => /\ Improve!OptimizationOK /\ Improve!Undone
                           /\ Improve!OriginalsKept
=============================================================================
