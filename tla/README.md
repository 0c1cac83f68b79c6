# Verification of UmaAgent

UmaAgent is a server that executes conversations with language models, with a
browser, an Android application and a command line as its clients. A user posts a
message to a session; the server makes a *run* of it, decides how to route it, lets
a model call tools, asks the user where the policy says so, and survives restarts.
This directory holds TLA+ models of what happens in which order on both sides, the
TLC runs that check them and the proofs about them. `PROJECT.json` has the list of
runs, the source lines of every definition, the hazards and the findings.

## 1. Inventory

| Component | State | Operations | What makes it correct |
|---|---|---|---|
| Run orchestrator (`run-orchestrator.ts`) | per session: pending queue, running, paused; idle waiters | enqueue, enqueueFirst, remove, reorder, prioritize, pause, resume, drain | one operation per session, none lost, no idle session with work, drain returns only when quiet |
| Semaphore (`runtime-support.ts`) | active, waiting | acquire, release | permits counted, none lost, waiters served |
| Run lifecycle (`runtime.ts`) | runs in the database; controllers, preempted runs, approvals in memory | sendMessage (queue, preemptive, clarification), confirmPlan, cancelRun, resumeRun, decideRunAction, executeRun, runAgent, verifyAndCorrect, start, stop | side effects at most once, database and process agree, nothing stranded, nothing past the gate |
| Commands (`runtime-command-operations.ts`) | a run and one action | start, execute | as above |
| Action ledger (`database.ts`: run_actions) | status of every tool call | prepare, transition, interruptRunActions, hasPendingSideEffects | an uncertain side effect is settled by the user only |
| Restart recovery (`run-recovery.ts`, `runtime-recovery.ts`, constructor of `database.ts`) | checkpoints, audit entries | interrupt active runs, requeue, resume | bounded, never repeats a side effect |
| Preflight (`run-preflight.ts`) | route, contract, plan of a run | classify, clarify, plan, confirm | a run works on the plan of its goal, and one that was allowed |
| Queue of messages (`queue-state.ts`) | queue_position, queue_revision, captured texts | reorder, prioritize, edit, cancel | the order shown is the order executed |
| Conversations (`message-repository.ts`) | messages, parents, active path | send, edit, complete, list | a run works where its user looks; pages skip nothing |
| Context (`context-manager.ts`), memory | summary, facts, rollups | build, compact; extract, review, delete | the model sees the branch, all of it, and one value per key |
| Sessions and tasks (`runtime.ts`) | sessions, background tasks, uploads | createTask, cancelTask, deleteSession, addAttachment | a task reports its own run; no session vanishes under its run |
| Scheduler (`scheduler.ts`) | schedules, occurrences, monitors | tick, runNow, cancelRun, onRunResumed, start, stop | one active occurrence per task, watched until it ends |
| Model calls, loop guard (`model-retry.ts`, `model-calls.ts`, `tool-loop-guard.ts`) | attempts, row of a call; records of an agent loop | stream, retry, settle; check, record, restore | one answer, accounted; bounded repetition |
| Attachments of responses (`runtime.ts`) | files, rows, response | upload, attach, copy, generate | within the limit, sent with their response |
| Knowledge (`knowledge.ts`, `embedding.ts`) | sources, chunks, permits, cache | index, reindex, delete, embed | a chunk has the vector of its own text; permits exact |
| Configuration (`runtime.ts`, `mcp.ts`) | registries, connections | reloadConfig | runs get what the runtime says it has |
| Skills (`skills.ts`, `skill-packages.ts`) | stages, rows, registry | install, setStatus, refresh | agents are served what the owner approved |
| Approvals (`run-approvals.ts`) | pending approvals in process and database, policy | request, resolve, expire, abort, switch of the policy | the answer given is the one in the row |
| Optimization (`runtime-optimization*.ts`) | proposals, applications, copies of files | apply, roll back | what was changed can be had back |
| Event hub and connections (`events.ts`, `app.ts`) | event log, drafts, buffers | emit in a transaction, broadcast, replay, close | every event once and in order, or a snapshot |
| Web client (`packages/client`, `streaming.ts`, `App.tsx`, `useConversationDrafts.ts`) | cursor, recoveries, projection; drafts | subscribe, dispatch, recover, merge; send | shows the log, catches up, sends once |
| Android (`MainActivity.kt`, `SnapshotProjection.kt`, `DraftStore.kt`) | selection, projection, drafts on disk, account | frames, reads, send, restart, logout | the same; a late answer fits the screen |
| Credentials (`auth.ts`) | tokens, cookies, codes, counters | login, exchange, register, revoke | one token per code, attempts limited |
| Channel (`xianyu-adapter`, `xianyu-routes.ts`) | received messages, drafts, deliveries; connection, logins, cookie, calls | receive, forward, draft, reply; start, stop, login; history, chat, publish | one run and one reply per message; a connection is one of the account signed in |
| Telemetry (`packages/telemetry`) | queue, batches, worker, spans | write, dispatch, watchdog, flush, close, maintenance | losses counted, flush is a barrier |
| Accounts and lists of the page (`App.tsx`, `Login.tsx`, `cache.ts`) | cookie, gate, query of the list, created sessions, cached lists | sign in and out, create, delete, select | the list of the account that signed in, with what it created and without what it deleted |
| Command line (`apps/cli`, `apps/eval-runner`) | active session, subscription, files; events printed; cases of a suite | chat: switch, attach, send, refresh; run: send, wait, catch up; a suite: start, confirm, judge, report | one session is shown, heard and written to; every event of a run printed once; no case passes before its run rests where it should |
| Browser worker (`apps/browser-worker`) | browser, handles, contexts | open, close, expire, relaunch, stop | one browser, a page behind each handle, nothing left |
| Tools, parsers, other workers, rendering | files, processes | | not modelled, see section 6 |

How they interact. A request of the server calls `UmaRuntime` synchronously. The
runtime writes the run to the database in a transaction and enqueues a closure in
the orchestrator. The orchestrator starts the closures of a session one after the
other; a closure waits for the side-effect gate of its session, then for a permit
of the semaphore shared by all sessions, then works. The agent loop calls back
into the runtime before and after each tool call; these callbacks write the
action ledger and wait for approvals. Decisions, cancellations and preempting
messages come from other requests in between and touch the same rows and the same
controllers. Every transaction emits events; the hub broadcasts them after the
commit to the connections, and the clients project them onto a snapshot they read
over HTTP. After a restart only the database and the files are left.

What is hard. JavaScript makes each synchronous stretch atomic and nothing else:
every `await` lets other requests in, and so does every suspension of a coroutine
in the application. The gate is passed before the wait for a permit; an approval is
asked before, and answered after, preemption; a tool ends after its run was
preempted; an answer arrives when another session, or another account, is on the
screen; a crash falls between the start of a tool and the record of its outcome,
or between a file and its row. `PROJECT.json` lists each as a hazard with its line
and the properties that cover it.

## 2. Modules

| Module | What it is |
|---|---|
| `RunOrchestrator` | all of `run-orchestrator.ts` and `Semaphore`, for many sessions |
| `SessionQueues` | what the orchestrator promises: a queue with one server per session |
| `MCRunOrchestrator` | instances for TLC and the refinement mapping |
| `RunOrchestratorProofs` | its invariants and theorems, and the proof of the refinement |
| `RunLifecycle`, `MCRunLifecycle` | the runs of one session: requests, execution, ledger, commands, stop, crash, restart |
| `RunLifecycleProofs` | its invariant and the proofs of its safety properties |
| `Preflight` | the decision before the loop: route, questions, plan, confirmation, restarts |
| `MessageQueue` | rows and live queue of one session, captured texts, the lists on devices |
| `Conversation`, `HistoryPaging` | branches and runs of a session; its pages on a client and in the cache |
| `ModelContext` | what a model is given: the summary and the messages of a branch; facts and rollups |
| `SessionLife`, `Scheduler` | sessions, tasks, deletion; schedules, occurrences, monitors |
| `ModelCall`, `Attachments` | a call with its retries and the guard of a tool loop; files of a response |
| `KnowledgeIndex` | the index of documents and the embedding client |
| `ConfigReload`, `SkillPackages`, `Approvals`, `Optimization` | reload; skill packages; permissions; changes of files |
| `Credentials` | tokens, cookies and codes |
| `ChannelDelivery`, `XianyuService` | the messages of the Xianyu channel; its connection, logins and cookie, and what it asks of the platform |
| `EventServer` | event log, hub, one connection; extended by the next two |
| `WebStream`, `AndroidStream` | the server composed with the web client, and with the application |
| `MessageInbox` | what the server does with posted messages; extended by the next two |
| `WebDrafts`, `AndroidOutbox` | composing and sending in the browser and on the phone |
| `AndroidRequests` | all coroutines of the application that carry an answer to the screen |
| `WebSessions`, `CommandLine`, `BrowserWorker` | the account and the list of the web page; the program `uma`; the pages that agents open |
| `Telemetry` | the writer of telemetry, its worker, spans and maintenance |
| `ChannelProofs` | invariants and proofs of the three parts of the channel, for all constants |
| `RequestsProofs` | the same of `ConfigReload` and `AndroidRequests` |
| `AccountsProofs` | the same of `Approvals`, `Credentials`, `Optimization` and `SkillPackages` |
| `CallProofs` | the same of `ModelCall` and `Preflight` |
| `MCServices`, `MCClients` | the parts that share no state, checked side by side |
| `MCServicesProofs` | what is proved of a component, as the property the runs of `MCServices` check |

One action is one synchronous stretch of the code: from an input, an answer or a
resumption to the next `await`. Where a stretch contains several transactions the
action does them all. Values that only count, texts, keys and files are small
numbers.

**RunOrchestrator.** `known`, `pending`, `running` and `paused` are the map of
session records; `phase` says where the operation of an entry is; `active` and
`waiting` are the fields of the semaphore; `drain` is the caller of `drain()`.
`pump` is an operator (`Pump`) that the actions apply to the state in the middle of
their stretch, since `enqueueEntry`, `resume`, `drain` and the `finally` of an
operation all call it. A permit that `release` hands to a waiter is counted in a
later microtask: the place `handed` is between the two. Operations that fail at the
gate never acquire, so `Finish` accepts them there. The calls in `Caller` are the
ones the runtime makes.

**RunLifecycle.** The variables are grouped as the code keeps them: what the
database holds (`status`, `created`, `route`, `clarified`, `safe`, `restarted`,
`attempts`, `stepsDone`, `act`), what the process holds (queue, controllers,
preempted runs, tool calls under way, recovery list), and counters of the model.
`pc` is the place of a run's operation between two waits for the outside. A step
runs from one such wait to the next, the `catch` and `finally` of `executeRun` and
the following `pump` included (`Fail`, `End`). `UpdateRun`, `TransitionRun`,
`Checkpoint`, `RecordAction` and `TransitionAction` are the methods of the database
of those names. A closure of `resumeRun` first replays the reads of its run, and the
replay may throw (`ReplayFails`, a tool that is gone): the closure ends and the run stays
queued, which `how[r] = "lost"` remembers. An action of the ledger goes from none to prepared (waits for an
approval) or running, then to completed, failed or rejected; an interruption makes a
running side effect uncertain and a running read prepared. `begun` counts how often
the tool of an action was really started, whatever the ledger says; the main
properties compare the two. `deaf` has the runs whose agent loop was aborted before
it listened. `Crash` forgets the process between two steps; `Stop` and `Exit` are the
graceful way; `Restart` is the constructor of the database with `start()`. The order
of the queue after a restart is left open here and is in `MessageQueue`.

**EventServer, WebStream, AndroidStream.** The server works on one answer, one of the
constant `Scripts`: a sequence of transactions, each with the blocks that are nested in
it. A nested transaction only runs its operation (`Outcome`): events get their numbers
where they are emitted and are broadcast after the commit of the outer transaction. A
transaction may throw after any of its blocks; its rows and events are gone, and where
it was one of the run the `catch` of `executeRun` fails the run in the same stretch. The
text of a draft is flushed later than it is broadcast. A connection has a buffer with a limit and is closed when it is full. The
web client has a cursor, at most one recovery per cause, and a projection that merges
snapshots read before or after the events they contain. The application processes
frames and reads in the order of a mutex.

**AndroidRequests.** A request is a member of a family with the same guard before it
starts and after its answer; two that are equal and in the air are one. `strayed`
records what an answer wrote that did not belong to the screen. The operations whose
answers the code does not guard are in the model with the state they may write, and
the properties name what still holds.

**MessageInbox, WebDrafts, AndroidOutbox.** A posted message may be taken although its
caller hears nothing, and a request may be refused before its id is looked at, by the
login or a limit of requests: the message itself, or a page of the history that a retry
checks first. Both clients take such a refusal for one of the message and give the id of
the unconfirmed request up. `counted` and `made` remember the texts this happened to.

**SessionLife.** A run has a status, an entry in the queue and a place at work, which
tell different things: a preempted run leaves its entry behind, a rejected action fails a
run that works on or is about to start, an interrupted run is resumed. A task watches the
events of its own run, from `executeTask` with a permit or, once it was resumed, without.

**ConfigReload.** `reckoned` says of a run that no reload was connecting when it was last
put into the queue, and that its status has said ever since that it is queued or at work,
which is what `hasQueued` counts. Plans that wait for their confirmation and interrupted
runs (`PauseRun`, `ConfirmRun`) and runs failed by a rejection while they work
(`DisownRun`, `ReturnRun`) fall through it.

**WebSessions, CommandLine, BrowserWorker.** The page of `WebSessions` has a gate
(unknown, login, open), the query of its list (data, error, one fetch under way, which is
tried once more when it fails), the sessions it created and that the list does not have yet, and a list per account in the
browser; the query library is external and modelled from how the page uses it.
`CommandLine` is the program `uma` in one of its ways of use: `chat`, where each line is
saved, then handled beside the others, its requests in slots and the answers in any
order; `run`, which prints the events of a run from the stream and from the pages of the
history, and `sync`, which prints the pages; a command of one request or two, which the
server may carry out after the command has given up; and a suite of evaluations
(`evaluateSuite`, shared with `uma-eval`), whose cases each have a run that goes on whatever
becomes of the case. `BrowserWorker` follows a call of `open`
through its awaits beside the expiry of handles, the death of the browser and `stop`;
Playwright is external.

**Others.** Each module's header says what it follows and what it leaves out; the
variables are the rows, the maps and the files the code keeps, commented where they
are declared.

## 3. Runs

| Run | Instance | Shows |
|---|---|---|
| `Orchestrator_order` | 2 sessions, 4 operations (3 + 1), 1 permit, each admitted twice | order, flags and queues under all calls; `ImplementsQueues`, the refinement of `SessionQueues`; `DrainedMeansQuiet` |
| `Orchestrator_permits` | 3 sessions, 4 operations (2 + 1 + 1), 2 permits | the semaphore, and progress under fairness |
| `Lifecycle_safety` | 2 direct runs, a side effect and a read, both queue modes, 2 crashes, 1 stop | at most once, ledger, gate, agreement of database and process, recovery that ends |
| `Lifecycle_progress` | a plan with a read and a command with a side effect, 1 crash, 1 stop | queued runs are worked on or given up, under fairness |
| `Services` | one of twenty-eight parts of the runtime and of the clients | the promises of each part, see below |
| `Clients` | the web page, the application or the telemetry writer | clients show the log and catch up; telemetry accounts for its losses |

`MCServices` and `MCClients` join modules that share no state: `part` says which of
them a behaviour is about, and the others keep their initial state, so that `Services` tells
states apart by the state of the part that moves (its VIEW, `Seen`). One run then
checks each part exactly as a run of its own would (no step of a part reads another),
and an invariant is a conjunction of implications `part = ... => ...`. The sum of the
parts is what TLC explores, not their product. The properties by part:

| Property | Parts | States, for each part |
|---|---|---|
| `ComposedOnce` | outbox, drafts | `SentOnce`, `LogoutForgets`, `WebComposes`: what is composed reaches its session once, unless a refusal made the client give up an id that was taken (section 4); nothing is left after a logout |
| `ReadsOn` | history, page, command | paging back skips nothing of the active branch and shows nothing of another; `CreatedStays`, `DeletedStays`, `PageOfAccount`, `LoginStands`; `ChatAgrees`, `FilesReach`, `PrintedOnce`, `PrintedAll`, `PrintedInOrder`; `CodeTells`, `NothingLeft`, `ReportTells` |
| `TasksReport` | sessions, scheduler | `OutcomeIsOwn`: a task reports its own run; `OneAtATime`, `RunningIsWatched`: one occurrence, watched |
| `DeletedWhenIdle` | sessions | a session does not vanish under a run that executed when its deletion was asked for |
| `ContextTrue` | context, memory, knowledge | `SummaryOfPath`, `ContextComplete`, `OneValuePerSession`, `VectorsOfTexts`, `PermitsExact` |
| `PathKept` | conversation | the visible path only changes by an edit, and a waiting run has its message there |
| `QueueAgrees` | queue | `MirrorComplete`, `OrderMatches`, `RevisionTellsOrder` |
| `ChannelOnce` | channel, several, market, platform | `OneRunPerMessage`, `ReplySentOnce`; `StartedRuns`, `OneAccount`, `ConnectedTells`, `StatusTells`; `WaitsOnConnection`, `HistoryWhole`, `ListedOnce`, `WriterRests` |
| `CallsAccounted` | call, tools, attachments, preflight, worker | `OneAnswer`, `CallAccounted`; `RepeatsBounded`; `TotalKept`, `SentWithResponse`, `FileBehind`; `PlanAllowed`, `PlanOfGoal`; `OneBrowser`, `HandleHasPage`, `HandlesLimited`, `NoneLeft` |
| `ReloadTrue` | reload | `ConfigTrue`, `ToolsStayOpen` |
| `AnswersFitTheScreen` | phone | `QueueOfSelection`, `AccountAlone`, `FlagReleased` |
| `AccountsAndPermissions` | login, skills, permits, improve | `OneTokenPerCode`, `AttemptsLimited`; `ServedApproved`, `RowTellsRoot`, `RegistryCurrent`; `AnswerFitsRow`, `PolicyAnswers`; `Undone`, `OriginalsKept` |
| `WebShows`, `WebKeeps` | web | the page is the log up to its cursor and a prefix of the text; it takes nothing back |
| `AndroidShows` | android | the application shows the log, across reconnections, changes of session and restarts |
| `CatchesUp` | web, android, telemetry | who stays comes to show all of it; every flush returns |
| `TelemetryAccounts` | telemetry | `LossesCounted`, `FlushIsBarrier`, `EndedSpanCounted` |

Each property of a part has, in its module, a faulty form of an operation beside the
mapped one (`Faulty...`): the form the code would have with a dropped guard, a
missing reset or a swapped order. TLC finds the property violated with it. The faulty
forms are not used by any specification.

Bounds. Two sessions are enough for what sessions share, the permits and `drain`;
three entries in one of them let every queue operation act on a queue with a middle.
Two admissions let a session be deleted and created again. Three sessions with two
permits give one waiter while two holders release in either order. Two runs are
what preemption, the gate and the queue relate; the second run of a session can be
queued, waiting at the gate, preempting or resumed while the first works, is
interrupted or waits. A side effect and a read are the two kinds of action the
code distinguishes; a plan has one step, and its steps go through the same loop.
`ClarificationLimit` is 3 in the code and 1 in the runs, `RecoveryLimit` 2 and 1:
they reach the refusal with fewer equal rounds. `FewCrashes` allows a second crash
where the question is a run that kills the process again and again.

In the services and clients: two sessions or chats of different owners are what a
late answer can confuse; two of each kind of overlapping request (recoveries,
compactions, reloads, indexers, jobs, writers) meet each other at every await; three
messages and pages of two give a page with an older neighbour and a cut; a channel
with one buyer, where the user writes too, and one with two buyers, each with two pushes, so
that a message is delivered again before or after it was handled, or another comes in between;
three queued
runs give a middle; one crash or restart at every place, more where a restart meets
what an earlier one left; buffers, batches and limits hold two or three, one less than
what can be produced. The thresholds of the tool loop guard (3 and 6 repetitions) are
those of the code. The file of the configuration changes as long as a reload is
left that will read it. The page meets one trouble of users, network or other devices at a
time, since the next one begins from what the first left; the command line has two
requests under way and three lines, which is a switch, a file and a message; a run has
three events in pages of two, and a suite two cases; the browser worker has two calls at a limit of one handle,
and browsers that die twice. Every bound is a constant, and the ones that exist only in the
model (`Max...`) are marked as bounds where they are declared.

Deadlock is not checked: a server without requests stops, and the bounded callers
run out of calls.

Fairness. `RunOrchestrator` assumes weak fairness of what an operation does behind the
gate (`Behind`) and none for callers: the event loop runs what is ready, and what an
operation waits for there, a model, a tool, an approval, has a timeout. The gate is
different: `waitForSideEffectGate` polls without a timeout until the user has decided, so
that an operation is only forced past it once the runtime stops (`Ungated`: `stop` sets
`stopping` before it calls `drain`). `QueuedProgress` therefore leaves out what is queued
behind an operation that waits at the gate. `RunLifecycle` assumes weak fairness of
`RunStep(r)`, the steps that end what is under way for a run, and none of users,
of crashes, of restarts, nor of further tool calls of a model. `DenyTool` is fair
because an approval expires. In `MCClients`, the steps of the server, of the network
that delivers what was sent, of the client's own continuations and of its timer that
reconnects are fair; users, failures and lost frames are not, and both are bounded. The
watchdog of the telemetry writer is a timer, and a worker that was terminated exits.
Nothing assumes strong fairness.

Findings: the `violation` runs each check one property that a document, a message
or the code's own comment states, and TLC finds a behaviour that breaks it.

* `Orchestrator_limit`: the semaphore can exceed `runtime.maxParallelSessions` when
  `acquire` is called between a release and the continuation of the waiter it woke
  (`runtime-support.ts:14`). The window is one microtask wide.
* `Lifecycle_abort`: a run cancelled while its context is built is not stopped and
  starts its tools (`runtime.ts:2531`).
* `Lifecycle_paused`: exceeding the clarification limit leaves the session paused
  (`runtime.ts:1085`), against the text of its own error message.
* `Lifecycle_commands`: the gate opens when the runtime stops, and a command does not
  look again (`runtime-command-operations.ts:113`).
* `Lifecycle_final`: rejecting an action fails a run that goes on working and ends
  completed (`runtime.ts:578`).
* `Reload_tools`: a run sent, a plan confirmed or a run resumed while a reload connects
  loses the tools it started with (`runtime.ts:341`), although README.md:224 has active runs
  go on with their frozen snapshot.

## 4. What else the models show

Written while modelling; the modules have the behaviour, the properties of the runs
are stated so that they hold with it. Where a document says otherwise it is named.

Conversations, queue and context
* A value of the memory is one per session, not one per owner as README.md:222 has it
  (`addMemoryFact`); the summary may be of a branch the user left until the next
  compaction (docs/conversation-execution-recovery-design.zh-CN.md:27 against
  context-manager.ts:338).
* An edit of a queued message changes its row and not the text its run has captured:
  preflight reads the new text, the agent is prompted with the old one, unless a restart
  came between (`EditReachesRun` of `MessageQueue`; runtime.ts:1222 and 1237). A run that
  was clarified keeps its first message, and editing is possible while the session waits
  for input. `reorder` fails while the head waits to start. `parentMessageId` of a request
  is not validated, messages of commands have no parent, and a message sent after a
  removal may be listed before older ones.
* A plan that waits for its confirmation is overtaken by the next message of its session:
  only a clarification pauses the session (`runtime.ts:1686`), and `confirmPlan` puts the
  plan at the end of the queue. docs/conversation-execution-recovery-design.zh-CN.md:53
  says that an ordinary queue order should skip neither.
* What streams while a user compacts by hand is written below the cut and is lost for
  the model.
* A run interrupted before its route is stored and then resumed executes its plan
  without confirmation (`runtime.ts:1649`; docs/frontend-design.zh-CN.md:218 says it
  waits, and `PlanAllowed` leaves it out). A confirmed run caught in the queue by a restart decides again, and asks again.
  The mode of the clarifying answer replaces the mode of the run.

Sessions, tasks, schedules
* A task fails when an action of its run is rejected, while the run may go on and
  complete; `OutcomeIsOwn` leaves such runs out (finding `Lifecycle_final`).
* `cancelTask` cancels whichever run of the session is active. The permit of a task is
  lost when its session is deleted while the task waits. A message sent during the wait
  of `deleteSession` loses its session. A task that waits for input keeps its permit.
* A finished schedule of kind "once" that is enabled again ends the process by an
  unhandled rejection; an occurrence that awaits resumption blocks its schedule;
  `stop` may hang. A monitor that looks at its task after `cancelRun` brings the cancelled
  occurrence back, beside a new one (`NoOverlap`).
* Concurrent reloads may leave a configuration and registries that differ. After any reload
  the commands, the list of the models and the listing of the servers go on with the
  registry and the manager they got from the constructor (`runtime.ts:183` and 193), so that
  a reload is not as atomic as README.md:164 has it: of `held` only `runs` follows.

Clients
* An unconfirmed message whose retry is refused before the server looks at it (a 401 or
  429 of the check of the history) loses its id on both clients, and the same text is then
  sent under a new one: composed once, it may reach the session twice
  (`useConversationDrafts.ts:78`, `MainActivity.kt:1134`; docs/frontend-design.zh-CN.md:217
  and 553 have the id used again). `SentOnce` and `WebComposes` leave these texts out, and
  are violated without the exception.
* The web page may refetch a snapshot older than what it shows and keeps the newer rows
  only by the merge; a 401 does not clear drafts. An upload that finishes while a send
  is unconfirmed leaves the draft unable to be sent.
* A newest page that begins after the shown window ended is joined to it: the messages
  between are skipped (`NothingSkipped` of `HistoryPaging`;
  docs/android-design.zh-CN.md:40).
* On Android a snapshot blanks the text that is streaming until its next piece. A text
  typed while an earlier one is being sent, possible because a slow selection has released
  `loading`, is wiped when the send is accepted (`DraftsKept`; DraftStore.kt:24). A
  keystroke while a revoked account is being cleared is written after the clearing
  (`StorageForgotten`; MainActivity.kt:153). The answer of `sendXianyuDraft` is applied to
  whatever session is selected, `loadAgentWorkspace` selects before it asks, and handlers
  without a guard release the flag `loading` of others and write into the state of the
  next login (docs/frontend-design.zh-CN.md:1853 and MainActivity.kt:2243 say otherwise).
* The adapter of the channel never opens its event connection (main.ts:273-316,
  client index.ts:763), so that replies of the agent are only sent as drafts
  (README.md:185). The runs set `EventsConnected` to TRUE to check the code behind it.
* The attempt that keeps the adapter's connection never returns normally, so that a
  connection that worked counts as a failed attempt and the delay is never reset
  (`connectOnce`). `stop` during the request of a token does not keep the socket from being
  opened; the loop then waits for that connection to end. The close event of an earlier
  socket writes "not connected" over a later one (`ConnectedTells`). A login marked as
  expired while it is polled is still polled beside the next one (`StatusTells`).

Page, command line, browser worker
* Page: whoever was refused (401) with a list on the screen signs in twice, because the
  error of the list is still there (`WebSessions`); what was shown stays until then. A
  creation right after a login cancels the first fetch of the list, and a login after the
  timer of ten seconds joins the fetch that the old cookie began. A page loaded without a
  network reads the list of the namespace "anonymous", which nobody writes; a deleted
  session comes back from the list in the browser when there is no network. The question
  whether to delete a session survives a sign out, and is then about a session of the
  account before.
* Command line: the answer of a refresh or update makes its session active again after
  the user has left it; switches that overlap leave a subscription behind, and one that
  fails leaves a chat that hears nothing. A message typed during a switch takes the files
  of the last session along, files listed while a message is sent are lost, and two
  messages sent before the first answer carry the same files. `uma run` prints the
  transient deltas among the durable events (they have the sequence 0, so that after the
  first one the rest are dropped), an event twice if the stream began anew before
  the message was accepted, and "run.terminal" for a run that waits for a decision. `uma
  eval run` ends with 0 although cases failed, `uma-eval` does not; a case that a request
  failed leaves its run going.
* Browser worker: a navigation that fails leaves its context open (main.ts:98); the limit
  is looked at before the awaits, so that calls that overlap pass it (main.ts:88); handles
  of a browser that died count until they expire.

Files, accounts, permissions
* Knowledge: the notes of a source are replaced without a transaction, a deletion during
  the processing is undone by it, and what a crash left in processing stays there.
* Skills: temporary copies are scanned and served; a copy that could not be removed is
  served for ever; refreshes that overlap may leave a stale registry; enabling beside an
  installation marks the new content enabled while the old one is served.
* Approvals: those of a process that died stay pending, and answering them does nothing.
* Optimization: the copies of an application are stored below one id and looked for below
  another, so that the roll back of an application that overwrote a file always fails;
  applications that overlap are not excluded; a crash leaves changed files and no row.
* Attachments: two generated images side by side may pass the limit of a response; a crash
  between the file and its row leaves an orphan.
* Credentials: at the instant of expiry a cookie is valid to one function and not to the
  other; a login that succeeds does not reset the counter; a refused exchange uses the code.
* Telemetry: a writer that died is replaced only when all references are released.

Runs
* A preempting message takes the first active run by creation; a resumed command becomes
  an agent run; a blocked tool call leaves its action prepared. No document says what should
  happen there.
* A read that is replayed when its tool is gone (a server or a skill that was removed)
  throws "Tool is unavailable" out of the closure of `resumeRun` (runtime.ts:529 and 2212):
  the run stays queued without an entry until it is cancelled or the server restarts.
  `QueuedHasEntry` and `QueuedProgress` name this as their one exception.

## 5. Proofs

`RunOrchestratorProofs` proves, for any set of sessions, any finite set of
operations, any owner function and any positive limit: type correctness,
`SerialSessions`, `RunningFlag`, `QueuedOnce`, `WorkConserving`, `PermitsCounted`,
`NoIdlePermit` and the action property `DrainedMeansQuiet`. The assumptions are the
four of `RunOrchestrator`: the limit is a positive number, the admission bound a
number, the operations finite, and each belongs to a session.

None of the properties is inductive alone. `SerialSessions` needs the running flag
to be true whenever an operation runs, also for a session without a record; the
flag needs `SerialSessions` when an operation ends; `TypeOK` needs `PermitsCounted`,
since the counter is a natural number only if what is released was counted;
`PermitsCounted` needs to know that who waits in the semaphore is not holding. The
invariant `IInv` has two halves, `QueueInv` (records against operations) and
`SemInv` (semaphore against its users). A queue is described by one notion,
`Lists(q, S)`: q has every member of S exactly once; lemmas say how append, cons,
tail, removal and reordering act on it. `Shape` is the half that holds in the
middle of a synchronous stretch, when pump still has to be called: pump is proved
once to keep it (`PumpKeepsShape`) and to restore `WorkConserving`
(`PumpConserves`), and every action that ends in pump cites these. `QueueFrame` and
`SemFrame` carry over the half an action does not touch.

It also proves `ImplementsQueues`: every behaviour of the
orchestrator is one of `SessionQueues` under the mapping of `MCRunOrchestrator` (the
queue of a session is its pending list, its server holds the operation that executes).
Only two things are visible from outside: pump settles the sessions it is given and
leaves the others alone (`PumpSettles`, `PumpLeaves`), and every action is a step of one
session, a settling of all of them, or unseen (`OneSession`, `AllSettle`, `Unseen`).
`NoneAssumption` says that the value for "no operation" is not an operation.

`RunLifecycleProofs` proves for any finite set of runs (`RunsAssumption`), any actions,
limits, crashes and stops everything `Lifecycle_safety` checks: type correctness,
`AtMostOnce`, `LedgerRemembers`, `RunningIsReal`, `ActiveHasOperation`,
`QueuedHasEntry`, `RecoveryBounded`, and the action properties `UserSettles`,
`CancelledStaysCancelled` and `GateHolds`. With 36 actions the argument does not go
action by action for each property. Three lemmas classify the steps once: `KindOfStep`
says how a step moves the statuses of the runs and the queue (ten kinds: a run is
enqueued, cancelled in the queue, failed at once, its operation ends or moves on, the
process stops, goes down or comes back, or nothing of this happens), `LedgerMovesStep`
how it changes the ledger (an action is born, or never becomes pending again), and
`RestStep` what happens to the rest. Each part of the invariant is then shown to survive
the kinds. `LedgerInv` ties `act`, `tool` and `begun` of one action; it is the whole of
at most once, and needs nothing about queues. `PlaceInv` is the mutual exclusion of the
session and the agreement of status and place; it is what makes `EntryInv`, `GateInv`
and `CancelledStaysCancelled` inductive. `GateInv` says that between the gate and the
permit nothing becomes undecided: no other operation is at work (`PlaceInv`), and what
does not exist yet has not called a tool (`NoneInv`). The attempt to prove `GateHolds`
of every run that starts failed, and TLC showed why: a run cancelled in the queue passes
the gate unseen, and the rejection of one of its actions then turns cancelled into failed,
with which it starts. The property is about queued runs, and the exception belongs to the
finding `Lifecycle_final`. `QueuedHasEntry` fails without its exception, and the proof
shows that there is no other: `EntryInv` says of a queued run that it has an entry, an
operation before its start, or a replay that threw, and a lost run stays lost until it
is no longer queued or the process goes down.

`ChannelProofs` proves `OneRunPerMessage` and `ReplySentOnce` for any messages.
Its one hypothesis, `Disjoint`, is that a message of the buyer is not one of the user:
the platform numbers the first, the server the second. A message has a run only behind
its inbound delivery, which is created once; a reply is on its way in one of three
places, and two of them exclude each other (`SendersKnown`).

It also proves of the service of the channel, for any number of logins, sockets
and restarts, `StartedRuns`, `OneAccount`, `ConnectedTells` and `StatusTells`, and of its
calls, for any requests, page sizes and conversations, `WaitsOnConnection`, `HistoryWhole`,
`ListedOnce` and `WriterRests`. `ConnectedTells` needs to know that only an attempt has a
socket (`SocketOfAttempt`), `StatusTells` that without an overlap one login is polled at a
time and the cookie being written is its own (`OneLogin`), and `HistoryWhole` that a history
has read everything from its cursor to its end (`ReadFrom`), whatever is written to the
conversation meanwhile.

`RequestsProofs` proves `ConfigTrue` and `ToolsStayOpen` for any reloads and runs.
A run that is `reckoned` and at work makes every reload that begins leave the connections
alone, and one that was connecting before would have been seen when the run was queued; the
current manager is open even while reloads overlap, because each closes the one it
replaced and no other (`ManagersApart`); the stage of the one reload under way tells which
parts have changed (`StageTells`).

It also proves `QueueOfSelection`, `FlagReleased` and `AccountAlone` for
any accounts and sessions that are numbers, each session with an owner (`Numbered`). The
steps are classified once (`KindOfStep`); `OneAccount` says that until a token is revoked
every request in the air is one of the account on the screen, `QueueKnown` that a wrong
queue is shown only while a selection or a connected login will correct it. The attempt to
prove `QueueOfSelection` as it was first stated failed at `LoggedIn`: loading the workspace
of the agent moves the selection and keeps the old queue until the snapshot arrives, and a
login that meanwhile finds no session left replaces the client, so that the snapshot is
dropped. It takes about eight operations, more than the bound of the run lets happen; the
property now leaves out a selected session that no longer exists.

`CallProofs` proves `OneAnswer` and `CallAccounted` of a request to a model, and
`PlanAllowed` and `PlanOfGoal` of the decision of a run. A stream has shown nothing
wherever another attempt is still possible, and where it reads, what it has shown and what
waits to be shown are parts of the present attempt (`StreamInv`). `ModelCallAssumption`
has the one relation between the two limits that the code has, 5 for a missing finish
reason and 7 for a broken stream: with the first above the second a request would have
more attempts than `ModelCallOK` allows. For a plan the proof has to say what a run that
goes on carries with it: a resumed run without a decision was cut off while deciding
(`RouteInv`), models are asked only when nothing can be reused, and a plan stays with its
goal because such a run reuses both (`PlanInv`).

`AccountsProofs` proves what four parts promise, and `AccountsComposed` of `MCServicesProofs`
carries it into the run as `AccountsAndPermissions`:

* `Approvals`, for any accounts, calls and plans. Whatever settles rows tells exactly the
  calls that wait for them (`ToldKeeps`), and a row that is pending belongs to a call that
  was told nothing (`Open`), which is what makes a process that dies while the policy
  answers harmless.
* `Credentials`, for any applications, places, limits and windows that are positive
  (`CredentialLimits`). `OneTokenPerCode` needs that the code of a token is no longer stored
  (`TablesInv`); `AttemptsLimited` needs that the counter of the open window is at least
  the number of events in it (`CountersInv`): one that was not counted would be one too
  many later.
* `Optimization`, for any paths, lists of changes and numbers of requests (`PathsGiven`).
  `UndoInv` says of each request under way that putting back what it has saved, in its order, gives
  the files as they were: of an application while it writes or takes back, of a row that may
  still be rolled back, and of a rollback between two files. `PlacesInv` ties a row to the request
  that made it. `CopyInv` says that a file nobody has copied is as it was, and that one that was copied
  has a copy of the first content.
* `SkillPackages`, for any contents, requests and restarts (`SkillLimits`). `ApprovedInv`
  follows an approved content from the stage to the registry; `QuietInv` says what is below
  the root at each await of the one request that works, and that the row is right when none
  does; `CurrentInv` what the watcher has read meanwhile.

The attempt to prove `Undone` as it was first stated failed: when the older of two
applications is rolled back first, the rollback of the newer one does not find the files as
its application left them, and the last row counted as untouched all the same. It takes four requests,
more than the run lets happen. The history `Alone` now counts every request that came after
the one that applied, except rollbacks of the same row. `OriginalsKept` was too weak to notice the copy of a wrong
file, and now asks for a copy of this very one.

`MCServicesProofs` carries the results of components into the run `Services`, in which
one part moves and the others stand still: the invariant of a component is one of the
behaviours that are about it. The lemmas called Same say that the instance of the proofs
and the instance that is checked have the same steps; each is one leaf, since both sides
are the same formula once everything is expanded. `DeletedWhenIdle` is proved there
from the steps of `SessionLife` alone.

Only model-checked:

* the liveness properties: temporal reasoning with ENABLED is out of the prover's reach;
* what needs induction over data: the sums of `Telemetry`, the sum of the files of a
  response (`TotalKept`), the repetitions in the memory of a guard (`RepeatsBounded`), the
  ancestors of a branch, and the orders of the queue (`OrderMatches`,
  `RevisionTellsOrder`), which rest on a sorted sequence whose existence is such an induction;
* the other parts of the runs `Services` and `Clients`, not attempted: drafts, pages and streams of the
  clients, tasks, contexts, the index of documents. For these the bounds of section 3 are what
  the checks cover.

## 6. Not modelled

* Texts, prompts, ranking, parsing of documents, rendering and layout; the file system
  and the processes behind tools; the worker of mathematics; migrations, backups, statistics;
  the sampling of resources and the operating system lock.
* A crash in the middle of a synchronous stretch that spans several transactions.
* Real time: timers fire at any moment after they were armed, except in `Scheduler` and
  `Credentials`, whose clocks count steps.
* The read-only reconciliation of an acknowledged action beside a run that is resumed
  (`runtime.ts:2161`): both write checkpoints whose contents the models do not have.
* A task whose session waits for an answer when its prompt is posted, which becomes a
  clarification; what else a server does after a transaction of its own has thrown.
* The contents of checkpoints, apart from whether they are safe to resume from.
