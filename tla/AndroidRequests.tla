---------------------------- MODULE AndroidRequests ----------------------------
(***************************************************************************)
(* The requests of the Android application, all of them coroutines of one  *)
(* viewModelScope that read and write one state (MainActivity.kt): which   *)
(* session and account an answer belongs to when it arrives, what it       *)
(* writes, and the flag "loading" that keeps most operations from starting *)
(* together.  A request is a member of a family that guards its start and  *)
(* its answer in the same way; two in the air that are equal are one.      *)
(***************************************************************************)
EXTENDS Naturals, FiniteSets

CONSTANTS Users,       \* accounts, numbers from 1
          Conversations, UserOf,   \* sessions, numbers from 1, and whose they are
          Later,       \* the sessions that do not exist at the beginning
          MaxActs      \* bound of the model: logins and operations started

VARIABLES
    screen,   \* UmaUiState and the fields api and sessions of the view model
    air,      \* requests that have not been answered
    present,  \* the sessions of the server
    account,  \* clearAuthentication waits for the disk; whether a token was ever
              \* found to be revoked (history); logins and starts counted
    strayed   \* the queue shown was written by the answer to a channel draft (history)

requestVars == <<screen, air, present, account, strayed>>

NoQueue == [of |-> 0, client |-> 0]
Blank == [user |-> 0, client |-> 0, list |-> {}, selected |-> 0, loading |-> FALSE,
          offline |-> FALSE, queue |-> NoQueue, tasks |-> 0, settings |-> 0]

RequestsInit ==
    /\ screen = Blank
    /\ air = {}
    /\ present = Conversations \ Later
    /\ account = [clearing |-> FALSE, logins |-> 0, starts |-> 0, revoked |-> FALSE]
    /\ strayed = FALSE

Request(kind, s, c) == [kind |-> kind, client |-> s.client, user |-> s.user, of |-> c]
OfUser(a) == {c \in present : UserOf[c] = a}

First(list) == CHOOSE c \in list : \A d \in list : c <= d

(* api === client, and the session that was selected still is. *)
SameClient(r) == screen.client = r.client
FaultyCurrent(r) == SameClient(r)
Current(r) == SameClient(r) /\ screen.selected = r.of

(* selectSession: a new selection takes the place of the one under way.    *)
Selecting(s, flying, c) ==
    /\ screen' = [s EXCEPT !.selected = c, !.loading = TRUE,
                           !.queue = IF s.selected = c THEN @ ELSE NoQueue]
    /\ air' = {r \in flying : r.kind # "select"} \cup {Request("select", s, c)}
    /\ strayed' = (strayed /\ s.selected = c)

Chooses(c) ==
    /\ screen.user # 0 /\ c \in screen.list
    /\ Selecting(screen, air, c)
    /\ UNCHANGED <<present, account>>
----------------------------------------------------------------------------
(* What the families look at before they start, and whether they take the  *)
(* flag.                                                                   *)
Free == ~screen.loading /\ ~screen.offline /\ screen.client # 0
Chosen == screen.selected # 0

(* The queue: reorderQueue, prioritizeRun, cancelQueuedRun,                *)
(* editQueuedMessage; and loadQueue.                                       *)
QueueWrite == Free /\ Chosen
QueueRead == ~screen.offline /\ Chosen /\ screen.client # 0

(* What selects the session again: confirmPlan; retryMessage, editMessage; *)
(* resolveApproval, compactSelectedSession.                                *)
PlanWrite == Free /\ Chosen
MessageWrite == Free /\ Chosen
ApprovalWrite == Free /\ Chosen

(* What changes a session of the list: selectModel; renameSession,         *)
(* updateQueueMode, updateAssistantName and the avatars.                   *)
ModelWrite == Free /\ Chosen
SessionWrite == Free /\ Chosen
SessionCreation == Free /\ present # Conversations
SessionDeletion == Free /\ Chosen

(* What looks at offline only: tasks, schedules, attachments, the service  *)
(* and the conversations of the channel.                                   *)
TaskRequest == ~screen.offline /\ screen.client # 0
ScheduleRequest == ~screen.offline /\ screen.client # 0
FileRequest == ~screen.offline /\ screen.client # 0
ServiceRequest == ~screen.offline /\ screen.client # 0
ChannelRequest == Free
TaskCreation == ~screen.offline /\ screen.client # 0 /\ Chosen
ScheduleCreation == ~screen.offline /\ screen.client # 0

DraftRequest == Free /\ Chosen
AgentWorkspace == screen.client # 0

(* What belongs to the account and checks it: loadModels;                  *)
(* refreshExecutionSettings, setAutoApprove; managementRequest,            *)
(* uploadKnowledgeSource; refreshXianyuWorkspace.                          *)
ModelList == screen.client # 0
ExecutionSettings == screen.client # 0
Management == screen.client # 0
ChannelWorkspace == screen.client # 0

Allowed ==
    [queue |-> QueueWrite, look |-> QueueRead,
     message |-> PlanWrite \/ MessageWrite \/ ApprovalWrite,
     list |-> ModelWrite \/ SessionWrite, create |-> SessionCreation, delete |-> SessionDeletion,
     tasks |-> TaskRequest \/ ScheduleRequest \/ FileRequest \/ ServiceRequest \/ ChannelRequest,
     newtask |-> TaskCreation \/ ScheduleCreation,
     draft |-> DraftRequest, agent |-> AgentWorkspace,
     settings |-> ModelList \/ ExecutionSettings \/ Management \/ ChannelWorkspace]

Start(kind) ==
    /\ screen.user # 0 /\ Allowed[kind] /\ account.starts + account.logins < MaxActs
    /\ air' = air \cup {Request(kind, screen, screen.selected)}
    /\ screen' = [screen EXCEPT !.loading = @ \/ kind \notin {"look", "settings"}]
    /\ account' = [account EXCEPT !.starts = @ + 1]
    /\ UNCHANGED <<present, strayed>>
----------------------------------------------------------------------------
(* The answers.  A family that checks nothing writes into whatever state   *)
(* it finds, and releases the flag of others with its own.                 *)
Left(r) == air \ {r}
Answered(r, s) == screen' = s /\ air' = Left(r) /\ UNCHANGED <<present, account>>
Shown(r) == [of |-> r.of, client |-> r.client]

QueueAnswer(r, ok) ==
    /\ r.kind = "queue"
    /\ Answered(r, IF Current(r)
                   THEN [screen EXCEPT !.loading = FALSE, !.queue = IF ok THEN Shown(r) ELSE @]
                   ELSE screen)
    /\ strayed' = (strayed /\ ~(ok /\ Current(r)))

LookAnswer(r, ok) ==
    /\ r.kind = "look"
    /\ Answered(r, IF ok /\ Current(r) THEN [screen EXCEPT !.queue = Shown(r)] ELSE screen)
    /\ strayed' = (strayed /\ ~(ok /\ Current(r)))

MessageAnswer(r, ok) ==
    /\ r.kind = "message"
    /\ UNCHANGED <<present, account>>
    /\ IF ok /\ Current(r) THEN Selecting(screen, Left(r), r.of)
       ELSE /\ screen' = [screen EXCEPT !.loading = @ /\ ~Current(r)]
            /\ air' = Left(r)
            /\ UNCHANGED strayed

ListAnswer(r) ==
    /\ r.kind = "list"
    /\ Answered(r, [screen EXCEPT !.loading = @ /\ ~Current(r)])
    /\ UNCHANGED strayed

TaskAnswer(r, ok) ==
    /\ r.kind = "tasks"
    /\ Answered(r, [screen EXCEPT !.loading = FALSE, !.tasks = IF ok THEN r.user ELSE @,
                                  !.offline = @ /\ ~ok])
    /\ UNCHANGED strayed

NewTaskAnswer(r, ok) ==
    /\ r.kind = "newtask"
    /\ Answered(r, CASE ~ok -> [screen EXCEPT !.loading = FALSE]
                     [] ok /\ SameClient(r) -> [screen EXCEPT !.loading = FALSE, !.tasks = r.user,
                                                  !.list = OfUser(r.user), !.offline = FALSE]
                     [] OTHER -> screen)
    /\ UNCHANGED strayed

CreateAnswer(r, ok) ==
    /\ r.kind = "create" /\ UNCHANGED account
    /\ \/ /\ ok
          /\ \E c \in Conversations \ present :
               /\ UserOf[c] = r.user
               /\ present' = present \cup {c}
               /\ Selecting([screen EXCEPT !.list = @ \cup {c}, !.queue = NoQueue], Left(r), c)
       \/ /\ ~ok /\ screen' = [screen EXCEPT !.loading = FALSE] /\ air' = Left(r)
          /\ UNCHANGED <<present, strayed>>

FaultyDeleteAnswer(r, ok) ==
    /\ r.kind = "delete" /\ UNCHANGED <<account, strayed>>
    /\ present' = IF ok THEN present \ {r.of} ELSE present
    /\ LET mine == screen.selected = r.of
           left == [screen EXCEPT !.list = @ \ {r.of}]
       IN  /\ screen' = CASE ~SameClient(r) \/ (~ok /\ ~mine) -> screen
                          [] ok /\ SameClient(r) /\ mine ->
                               [left EXCEPT !.selected = 0, !.queue = NoQueue]
                          [] ok /\ SameClient(r) /\ ~mine -> left
                          [] ~ok /\ Current(r) -> [screen EXCEPT !.loading = FALSE]
           /\ air' = {x \in Left(r) : x.kind # "select" \/ ~(ok /\ Current(r))}

DeleteAnswer(r, ok) ==
    /\ r.kind = "delete" /\ UNCHANGED account
    /\ present' = IF ok THEN present \ {r.of} ELSE present
    /\ LET left == [screen EXCEPT !.list = @ \ {r.of}]
       IN  CASE ok /\ Current(r) ->
                  /\ screen' = [left EXCEPT !.selected = 0, !.queue = NoQueue, !.loading = FALSE]
                  /\ air' = {x \in Left(r) : x.kind # "select"}
                  /\ strayed' = FALSE
             [] ok /\ ~Current(r) ->
                  /\ screen' = IF SameClient(r) THEN left ELSE screen
                  /\ air' = Left(r) /\ UNCHANGED strayed
             [] ~ok ->
                  /\ screen' = [screen EXCEPT !.loading = @ /\ ~Current(r)]
                  /\ air' = Left(r) /\ UNCHANGED strayed

(* sendXianyuDraft: the snapshot of its session replaces what is shown.    *)
DraftAnswer(r, ok) ==
    /\ r.kind = "draft" /\ UNCHANGED <<present, account>>
    /\ screen' = [screen EXCEPT !.loading = FALSE, !.queue = IF ok THEN Shown(r) ELSE @,
                                !.offline = @ /\ ~ok]
    /\ strayed' = (ok \/ strayed)
    /\ air' = Left(r) \cup (IF ok /\ screen.client # 0
                            THEN {Request("settings", screen, screen.selected)} ELSE {})

AgentAnswer(r, ok) ==
    /\ r.kind = "agent" /\ UNCHANGED <<present, account>>
    /\ LET list == OfUser(r.user)
           loaded == [screen EXCEPT !.list = list, !.loading = FALSE, !.offline = FALSE]
       IN  CASE ~ok -> /\ screen' = [screen EXCEPT !.loading = FALSE]
                       /\ air' = Left(r) /\ UNCHANGED strayed
             [] ok /\ list = {} -> /\ screen' = [loaded EXCEPT !.selected = 0]
                                   /\ air' = Left(r) /\ UNCHANGED strayed
             [] ok /\ list # {} ->
                  LET c == First(list) IN Selecting([loaded EXCEPT !.selected = c], Left(r), c)

SettingsAnswer(r, ok) ==
    /\ r.kind = "settings"
    /\ Answered(r, IF ok /\ SameClient(r) THEN [screen EXCEPT !.settings = r.user] ELSE screen)
    /\ UNCHANGED strayed

(* The snapshot of a selection, or what the disk has of it. *)
SelectAnswer(r, ok) ==
    /\ r.kind = "select"
    /\ Answered(r, IF Current(r)
                   THEN [screen EXCEPT !.loading = FALSE, !.queue = Shown(r), !.offline = @ \/ ~ok]
                   ELSE screen)
    /\ strayed' = (strayed /\ ~Current(r))
----------------------------------------------------------------------------
(* login, from its page or as retryLogin; the second request of an         *)
(* administrator is answered after api has been set.                       *)
Login(a) ==
    /\ account.starts + account.logins < MaxActs /\ ~account.clearing
    /\ \/ screen.user = 0
       \/ screen.user = a /\ screen.offline /\ ~screen.loading
    /\ \A r \in air : r.kind # "login"
    /\ account' = [account EXCEPT !.logins = @ + 1]
    /\ screen' = [screen EXCEPT !.loading = TRUE]
    /\ air' = air \cup {[kind |-> "login", client |-> account'.logins, user |-> a, of |-> 0]}
    /\ UNCHANGED <<present, strayed>>

LoginConnects(r) ==
    /\ r.kind = "login" /\ screen.client # r.client
    /\ screen' = [screen EXCEPT !.client = r.client]
    /\ UNCHANGED <<air, present, account, strayed>>

LoggedIn(r) ==
    /\ r.kind = "login" /\ screen.client = r.client
    /\ UNCHANGED <<present, account>>
    /\ LET list == OfUser(r.user)
           entered == [screen EXCEPT !.user = r.user, !.list = list, !.offline = FALSE,
                                     !.loading = FALSE]
           asked == Left(r) \cup {[kind |-> "settings", client |-> r.client, user |-> r.user, of |-> 0]}
       IN  IF list = {} THEN screen' = entered /\ air' = asked /\ UNCHANGED strayed
           ELSE Selecting(entered, asked, IF screen.selected \in list THEN screen.selected
                                          ELSE First(list))

(* The password is refused, or the network fails. *)
LoginFails(r) ==
    /\ r.kind = "login" /\ screen.client # r.client
    /\ air' = Left(r)
    /\ screen' = [screen EXCEPT !.loading = FALSE, !.offline = screen.user # 0]
    /\ UNCHANGED <<present, account, strayed>>

(* clearLocalAuthentication, of logout and switchAccount: it ends every    *)
(* coroutine first.                                                        *)
FaultyLogout ==
    /\ screen.user # 0
    /\ screen' = Blank
    /\ account' = [account EXCEPT !.clearing = FALSE]
    /\ strayed' = FALSE
    /\ UNCHANGED <<air, present>>

Logout ==
    /\ screen.user # 0
    /\ screen' = Blank
    /\ air' = {}
    /\ account' = [account EXCEPT !.clearing = FALSE]
    /\ strayed' = FALSE
    /\ UNCHANGED present

(* clearAuthentication, when the server closes the connection because the  *)
(* token is revoked: it ends the selection only, waits for the disk, and   *)
(* starts again from an empty state.                                       *)
Revoke ==
    /\ screen.user # 0 /\ screen.client # 0 /\ ~account.clearing
    /\ screen' = [screen EXCEPT !.client = 0]
    /\ air' = {r \in air : r.kind # "select"}
    /\ account' = [account EXCEPT !.clearing = TRUE, !.revoked = TRUE]
    /\ UNCHANGED <<present, strayed>>

Cleared ==
    /\ account.clearing
    /\ screen' = [Blank EXCEPT !.client = screen.client]
    /\ account' = [account EXCEPT !.clearing = FALSE]
    /\ strayed' = FALSE
    /\ UNCHANGED <<air, present>>
----------------------------------------------------------------------------
Answer(r, ok) ==
    \/ QueueAnswer(r, ok) \/ LookAnswer(r, ok) \/ MessageAnswer(r, ok) \/ ListAnswer(r)
    \/ TaskAnswer(r, ok) \/ NewTaskAnswer(r, ok) \/ CreateAnswer(r, ok) \/ DeleteAnswer(r, ok)
    \/ DraftAnswer(r, ok) \/ AgentAnswer(r, ok) \/ SettingsAnswer(r, ok) \/ SelectAnswer(r, ok)

RequestsNext ==
    \/ \E c \in Conversations : Chooses(c)
    \/ \E kind \in DOMAIN Allowed : Start(kind)
    \/ \E r \in air : LoginConnects(r) \/ LoggedIn(r) \/ LoginFails(r) \/ \E ok \in BOOLEAN : Answer(r, ok)
    \/ \E a \in Users : Login(a)
    \/ Logout \/ Revoke \/ Cleared

RequestsSpec == RequestsInit /\ [][RequestsNext]_requestVars

(******************************* Properties ********************************)
RequestsOK ==
    /\ screen.selected \in Conversations \cup {0} /\ screen.list \subseteq Conversations
    /\ screen.client \in 0..account.logins /\ account.starts + account.logins <= MaxActs
    /\ Cardinality({r \in air : r.kind = "select"}) <= 1

(* "An answer about the queue only updates the session that asked for it": *)
(* when no selection or login is under way, the queue shown is that of the *)
(* session that is selected, whatever was in the air when it was; except   *)
(* after sendXianyuDraft, for a session that was deleted before a login    *)
(* found no other, and after a revoked token.  MainActivity.kt:875.        *)
QueueOfSelection ==
    \/ \E r \in air : r.kind \in {"select", "login"}
    \/ strayed \/ account.revoked
    \/ screen.selected = 0 \/ screen.selected \notin present \/ screen.queue = NoQueue
    \/ screen.queue.of = screen.selected

(* While the flag is set, a request is in the air whose answer will        *)
(* release it: no order of answers, selections, deletions and logins       *)
(* leaves the application unusable.                                        *)
Releases(r) ==
    \/ r.kind \in {"tasks", "create", "draft", "agent", "login"}
    \/ r.kind \in {"queue", "message", "list", "delete", "select"} /\ Current(r)
    \/ r.kind = "newtask" /\ SameClient(r)
FlagReleased == screen.loading /\ ~account.clearing => \E r \in air : Releases(r)

(* After logout and switchAccount nothing of another account is shown      *)
(* (clearLocalAuthentication).  Without cancelled coroutines only the      *)
(* families that check their client would keep this; see README for what   *)
(* clearAuthentication leaves.                                             *)
AccountAlone ==
    ~account.revoked =>
        /\ {screen.tasks, screen.settings} \subseteq {0, screen.user}
        /\ \A c \in screen.list : UserOf[c] = screen.user
        /\ screen.queue.of # 0 => UserOf[screen.queue.of] = screen.user
=============================================================================
