---------------------------- MODULE AndroidOutbox ----------------------------
(***************************************************************************)
(* Drafts and sending on Android (MainActivity.kt, DraftStore.kt): what    *)
(* the user composes in each session, the attachments, the request whose   *)
(* outcome is unknown, their copy in drafts.json, and the account.  Every  *)
(* coroutine may be overtaken by another one, by a change of session, by   *)
(* the loss of the account or by the death of the process.                 *)
(*                                                                         *)
(* A text is a number; 0 is the empty text.  An account is the owner of    *)
(* its chats.  api is the client object in use, 0 when there is none:      *)
(* each login makes a new one, and coroutines compare theirs with it.      *)
(***************************************************************************)
EXTENDS MessageInbox, Functions

CONSTANTS Accounts, OwnerOf, Files,
          MaxTexts, MaxClients, MaxSends, MaxFaults, MaxJobs  \* bounds

ASSUME OutboxAssumption == /\ OwnerOf \in [Chats -> Accounts]
                           /\ Nobody \notin Accounts \cup Chats

VARIABLES
    phone,     \* the client, the visible session and the flags of the page
    drafts,    \* memory: text, attachments and unconfirmed request of a chat
    saving,    \* draftJob: the drafts it will write, or none
    disk,      \* drafts.json and the stored token
    selection, \* selectionJob: its chat and client
    jobs,      \* coroutines of sends and uploads
    made       \* texts, attachments, messages, clients, and faults so far, and the
               \* texts whose message id was given up while it was outstanding

outboxVars == <<phone, drafts, saving, disk, selection, jobs, made, inbox>>

Blank == [text |-> 0, files |-> {}, pending |-> NoRequest]
NoDrafts == [c \in Chats |-> Blank]
NoSave == <<>>
NoSelection == [chat |-> 0, client |-> 0]
NoJob == [kind |-> "none", chat |-> 0, client |-> 0, request |-> NoRequest,
          retry |-> FALSE, saved |-> NoSave, step |-> "none"]
SignedOut == [api |-> 0, selected |-> 0, loading |-> FALSE, unconfirmed |-> FALSE,
              offline |-> FALSE, clearing |-> FALSE, revoked |-> FALSE]

OutboxInit ==
    /\ phone = SignedOut
    /\ drafts = NoDrafts
    /\ saving = NoSave
    /\ disk = [drafts |-> NoDrafts, account |-> Nobody]
    /\ selection = NoSelection
    /\ jobs = [j \in 1..MaxJobs |-> NoJob]
    /\ made = [texts |-> 0, files |-> {}, sends |-> 0, clients |-> 0, faults |-> 0, killed |-> FALSE,
             given |-> {}]
    /\ InboxInit

Chat == phone.selected
Own(a) == {c \in Chats : OwnerOf[c] = a}
Online == phone.api # 0 /\ ~phone.offline
Unconfirmed(c) == drafts[c].pending # NoRequest
(* Bounds the changes of session and account, the failures, the deaths.     *)
Disturbed ==
    /\ made.faults < MaxFaults
    /\ made' = [made EXCEPT !.faults = @ + 1]

FreeJob(j) == jobs[j] = NoJob /\ \A k \in 1..(j - 1) : jobs[k] # NoJob

(* persistDrafts: the delay of a text and no delay at all look the same.   *)
PersistDrafts == saving' = drafts'

PersistDone ==
    /\ saving # NoSave
    /\ disk' = [disk EXCEPT !.drafts = saving]
    /\ saving' = NoSave
    /\ UNCHANGED <<phone, drafts, selection, jobs, made, inbox>>

(*************************** Composing a message ***************************)
Type ==
    /\ Chat # 0 /\ ~phone.loading /\ ~phone.unconfirmed
    /\ made.texts < MaxTexts
    /\ made' = [made EXCEPT !.texts = @ + 1]
    /\ drafts' = [drafts EXCEPT ![Chat].text = made.texts + 1]
    /\ PersistDrafts
    /\ UNCHANGED <<phone, disk, selection, jobs, inbox>>

UploadAttachment(j, f) ==
    /\ Chat # 0 /\ Online /\ FreeJob(j)
    /\ f \notin made.files
    /\ made' = [made EXCEPT !.files = @ \cup {f}]
    /\ phone' = [phone EXCEPT !.loading = TRUE]
    /\ jobs' = [jobs EXCEPT ![j] =
           [NoJob EXCEPT !.kind = "upload", !.chat = Chat, !.client = phone.api,
                         !.request = [NoRequest EXCEPT !.files = {f}]]]
    /\ UNCHANGED <<drafts, saving, disk, selection, inbox>>

(* The attachment belongs to the session and account that began the upload. *)
Uploaded(j) ==
    LET job == jobs[j] IN
    /\ job.kind = "upload"
    /\ jobs' = [jobs EXCEPT ![j] = NoJob]
    /\ IF phone.api = job.client
       THEN /\ drafts' = [drafts EXCEPT ![job.chat].files = @ \cup job.request.files]
            /\ PersistDrafts
            /\ phone' = [phone EXCEPT !.loading = @ /\ Chat # job.chat]
       ELSE UNCHANGED <<drafts, saving, phone>>
    /\ UNCHANGED <<disk, selection, made, inbox>>

RemovePendingAttachment(f) ==
    /\ Chat # 0 /\ ~phone.loading /\ ~phone.unconfirmed
    /\ f \in drafts[Chat].files
    /\ drafts' = [drafts EXCEPT ![Chat].files = @ \ {f}]
    /\ PersistDrafts
    /\ UNCHANGED <<phone, disk, selection, jobs, made, inbox>>

(* The other requests of the page hold it too, until they end.  Those that *)
(* are about no session release whichever is visible; when an account is   *)
(* left, so do those whose coroutine was not cancelled.                    *)
OtherRequestEnds ==
    /\ phone.loading /\ Disturbed
    /\ phone' = [phone EXCEPT !.loading = FALSE]
    /\ UNCHANGED <<drafts, saving, disk, selection, jobs, inbox>>

UploadFails(j) ==
    LET job == jobs[j] IN
    /\ job.kind = "upload" /\ Disturbed
    /\ jobs' = [jobs EXCEPT ![j] = NoJob]
    /\ phone' = [phone EXCEPT !.loading = @ /\ ~(phone.api = job.client /\ Chat = job.chat)]
    /\ UNCHANGED <<drafts, saving, disk, selection, inbox>>

(******************************** Selecting ********************************)
Opened(page, c, known) ==
    [page EXCEPT !.selected = c, !.loading = TRUE,
                 !.unconfirmed = IF page.selected = c THEN @ ELSE known[c].pending # NoRequest]

SelectSession(c) ==
    /\ phone.api # 0 /\ c \in Own(disk.account) /\ Disturbed
    /\ phone' = Opened(phone, c, drafts)
    /\ selection' = [chat |-> c, client |-> phone.api]
    /\ UNCHANGED <<drafts, saving, disk, jobs, inbox>>

(* The selection is cancelled whenever its client is given up.  flushCache *)
(* persists the drafts too.                                                *)
SelectionDone ==
    /\ selection # NoSelection
    /\ selection' = NoSelection
    /\ phone' = [phone EXCEPT !.loading = FALSE, !.offline = FALSE]
    /\ saving' = drafts
    /\ UNCHANGED <<drafts, disk, jobs, made, inbox>>

SelectionFails ==
    /\ selection # NoSelection /\ Disturbed
    /\ selection' = NoSelection
    /\ phone' = [phone EXCEPT !.loading = FALSE, !.offline = TRUE]
    /\ UNCHANGED <<drafts, saving, disk, jobs, inbox>>

(********************************* Sending *********************************)
FaultyRequest(draft, id) ==
    [id |-> id, chat |-> Chat, text |-> draft.text, files |-> draft.files]

Request(draft, id) ==
    IF draft.pending # NoRequest THEN draft.pending
    ELSE [id |-> id, chat |-> Chat, text |-> draft.text, files |-> draft.files]

(* What was asked of an unconfirmed request is what would be asked again.  *)
SameAsPending(draft) ==
    draft.pending # NoRequest =>
        draft.pending.text = draft.text /\ draft.pending.files = draft.files

Send(j) ==
    /\ Chat # 0 /\ Online /\ ~phone.loading /\ FreeJob(j)
    /\ LET draft == drafts[Chat]
           request == Request(draft, made.sends + 1)
           kept == [drafts EXCEPT ![Chat].pending = request]
       IN /\ draft.text # 0 \/ draft.files # {}
          /\ SameAsPending(draft)
          /\ draft.pending # NoRequest \/ made.sends < MaxSends
          /\ drafts' = kept
          /\ jobs' = [jobs EXCEPT ![j] =
                 [kind |-> "send", chat |-> Chat, client |-> phone.api, request |-> request,
                  retry |-> draft.pending # NoRequest, saved |-> kept, step |-> "write"]]
          /\ made' = [made EXCEPT !.sends = IF draft.pending = NoRequest THEN @ + 1 ELSE @]
    /\ saving' = NoSave
    /\ phone' = [phone EXCEPT !.loading = TRUE]
    /\ UNCHANGED <<disk, selection, inbox>>

Sends(j, step) == jobs[j].kind = "send" /\ jobs[j].step = step

(* The message id is on disk before the request leaves. *)
RequestWritten(j) ==
    LET job == jobs[j] IN
    /\ Sends(j, "write")
    /\ disk' = [disk EXCEPT !.drafts = job.saved]
    /\ jobs' = [jobs EXCEPT ![j] =
           IF phone.api # job.client THEN NoJob
           ELSE [job EXCEPT !.saved = NoSave, !.step = IF job.retry THEN "check" ELSE "post"]]
    /\ UNCHANGED <<phone, drafts, saving, selection, made, inbox>>

(* A retry first looks for the message in the history of the session.      *)
HistoryRead(j) ==
    LET job == jobs[j] IN
    /\ Sends(j, "check")
    /\ jobs' = [jobs EXCEPT ![j].step =
           IF Has(job.request.id) THEN "accepted" ELSE "post"]
    /\ UNCHANGED <<phone, drafts, saving, disk, selection, made, inbox>>

(* A 4xx status of the history refuses the retry as one of the message.    *)
HistoryRefused(j) ==
    /\ Sends(j, "check")
    /\ jobs' = [jobs EXCEPT ![j].step = "refused"]
    /\ UNCHANGED <<phone, drafts, saving, disk, selection, made, inbox>>

Post(j) ==
    /\ Sends(j, "post")
    /\ inbox' = Posted(j, jobs[j].request)
    /\ jobs' = [jobs EXCEPT ![j].step = "wait"]
    /\ UNCHANGED <<phone, drafts, saving, disk, selection, made>>

ServerHandles(post) ==
    /\ inbox' = Handled(post)
    /\ jobs' = IF post.by = Nobody THEN jobs
               ELSE [jobs EXCEPT ![post.by].step = "accepted"]
    /\ UNCHANGED <<phone, drafts, saving, disk, selection, made>>

ServerRejects(post) ==
    /\ post.by # Nobody
    /\ inbox' = Rejected(post)
    /\ jobs' = [jobs EXCEPT ![post.by].step = "refused"]
    /\ UNCHANGED <<phone, drafts, saving, disk, selection, made>>

Stale(j) == phone.api # jobs[j].client

SendStale(j) ==
    /\ jobs[j].step \in {"accepted", "refused"} /\ Stale(j)
    /\ jobs' = [jobs EXCEPT ![j] = NoJob]
    /\ UNCHANGED <<phone, drafts, saving, disk, selection, made, inbox>>

SendAccepted(j) ==
    LET c == jobs[j].chat IN
    /\ Sends(j, "accepted") /\ ~Stale(j)
    /\ jobs' = [jobs EXCEPT ![j] = NoJob]
    /\ drafts' = [drafts EXCEPT ![c] = Blank]
    /\ PersistDrafts
    /\ IF Chat = c
       THEN /\ phone' = [phone EXCEPT !.offline = FALSE, !.loading = TRUE, !.unconfirmed = FALSE]
            /\ selection' = [chat |-> c, client |-> phone.api]
       ELSE UNCHANGED <<phone, selection>>
    /\ UNCHANGED <<disk, made, inbox>>

(* The id that is given up is the one of the draft, whosever it is.        *)
SendRefused(j) ==
    LET c == jobs[j].chat
        gone == drafts[c].pending IN
    /\ Sends(j, "refused") /\ ~Stale(j)
    /\ jobs' = [jobs EXCEPT ![j] = NoJob]
    /\ drafts' = [drafts EXCEPT ![c].pending = NoRequest]
    /\ PersistDrafts
    /\ made' = IF /\ gone # NoRequest
                  /\ Outstanding(gone.id) \/ \E k \in (1..MaxJobs) \ {j} : jobs[k].request = gone
               THEN [made EXCEPT !.given = @ \cup {gone.text}] ELSE made
    /\ phone' = IF Chat = c THEN [phone EXCEPT !.loading = FALSE, !.unconfirmed = FALSE,
                                               !.offline = FALSE] ELSE phone
    /\ UNCHANGED <<disk, selection, inbox>>

(* No answer, or one of the server's own failures: the id is kept.         *)
SendFails(j, offline) ==
    LET c == jobs[j].chat IN
    /\ jobs[j].step \in {"write", "check", "post", "wait"} /\ Disturbed
    /\ jobs' = [jobs EXCEPT ![j] = NoJob]
    /\ inbox' = [inbox EXCEPT !.air = Detached({j})]
    /\ phone' = IF ~Stale(j) /\ Chat = c
                THEN [phone EXCEPT !.loading = FALSE, !.unconfirmed = Unconfirmed(c),
                                   !.offline = offline] ELSE phone
    /\ UNCHANGED <<drafts, saving, disk, selection>>

(*************************** Account and process ***************************)
(* The list of the server begins with the smallest. *)
First(a) == IF Chat \in Own(a) THEN Chat ELSE CHOOSE c \in Own(a) : \A d \in Own(a) : c <= d

Login(a) ==
    /\ phone.api = 0 /\ ~phone.clearing /\ disk.account \in {Nobody, a} /\ Own(a) # {}
    /\ made.clients < MaxClients
    /\ LET client == made.clients + 1
           c == First(a)
       IN
       /\ made' = [made EXCEPT !.clients = client]
       /\ phone' = [Opened(phone, c, drafts) EXCEPT !.api = client, !.offline = FALSE]
       /\ selection' = [chat |-> c, client |-> client]
    /\ disk' = [disk EXCEPT !.account = a]
    /\ UNCHANGED <<drafts, saving, jobs, inbox>>

FaultyCancelled == UNCHANGED jobs

Cancelled == jobs' = [j \in 1..MaxJobs |-> NoJob]

(* logout and switchAccount cancel every coroutine, then clear under the   *)
(* lock: a coroutine that waits for the lock finds itself cancelled.       *)
ClearLocalAuthentication ==
    /\ phone.api # 0 /\ Disturbed
    /\ phone' = SignedOut
    /\ drafts' = NoDrafts
    /\ disk' = [drafts |-> NoDrafts, account |-> Nobody]
    /\ saving' = NoSave
    /\ selection' = NoSelection
    /\ Cancelled
    /\ inbox' = [inbox EXCEPT !.air = Detached(1..MaxJobs)]

(* A revoked token: some coroutines are cancelled, and the clearing has to *)
(* wait for the lock.                                                      *)
Revoked ==
    /\ phone.api # 0 /\ Disturbed
    /\ phone' = [phone EXCEPT !.api = 0, !.clearing = TRUE, !.revoked = TRUE]
    /\ saving' = NoSave
    /\ selection' = NoSelection
    /\ UNCHANGED <<drafts, disk, jobs, inbox>>

ClearAuthentication ==
    /\ phone.clearing
    /\ phone' = [SignedOut EXCEPT !.revoked = TRUE]
    /\ drafts' = NoDrafts
    /\ disk' = [drafts |-> NoDrafts, account |-> Nobody]
    /\ UNCHANGED <<saving, selection, jobs, made, inbox>>

(* The process dies and starts again from what was stored. *)
Restart(c) ==
    /\ made.faults < MaxFaults
    /\ made' = [made EXCEPT !.faults = @ + 1, !.killed = TRUE]
    /\ c \in {0} \cup ({Chat} \cap Own(disk.account))
    /\ drafts' = disk.drafts
    /\ phone' = [SignedOut EXCEPT !.selected = c, !.offline = c # 0, !.revoked = phone.revoked,
                     !.unconfirmed = c # 0 /\ disk.drafts[c].pending # NoRequest]
    /\ saving' = NoSave
    /\ selection' = NoSelection
    /\ Cancelled
    /\ inbox' = [inbox EXCEPT !.air = Detached(1..MaxJobs)]
    /\ UNCHANGED disk

OutboxNext ==
    \/ PersistDone \/ Type \/ OtherRequestEnds
    \/ SelectionDone \/ SelectionFails
    \/ ClearLocalAuthentication \/ Revoked \/ ClearAuthentication
    \/ \E f \in Files : RemovePendingAttachment(f)
    \/ \E c \in Chats : SelectSession(c)
    \/ \E c \in {0, Chat} : Restart(c)
    \/ \E a \in Accounts : Login(a)
    \/ \E post \in inbox.air : ServerHandles(post) \/ ServerRejects(post)
    \/ \E j \in 1..MaxJobs :
           \/ \E f \in Files : UploadAttachment(j, f)
           \/ Uploaded(j) \/ UploadFails(j)
           \/ Send(j) \/ RequestWritten(j) \/ HistoryRead(j) \/ HistoryRefused(j) \/ Post(j)
           \/ SendAccepted(j) \/ SendRefused(j) \/ SendStale(j)
           \/ \E offline \in BOOLEAN : SendFails(j, offline)

OutboxSpec == OutboxInit /\ [][OutboxNext]_outboxVars

(******************************* Properties ********************************)
Requests == [id : 0..MaxSends, chat : Chats \cup {0}, text : 0..MaxTexts, files : SUBSET Files]
Drafts == [Chats -> [text : 0..MaxTexts, files : SUBSET Files, pending : Requests]]

(* Types, and the two facts the page relies on: a coroutine that waits for *)
(* the server is the caller of a request in the air, and no client is in   *)
(* use while its account is being cleared.                                 *)
OutboxOK ==
    /\ drafts \in Drafts /\ disk.drafts \in Drafts /\ saving \in Drafts \cup {NoSave}
    /\ disk.account \in Accounts \cup {Nobody}
    /\ phone.selected \in Chats \cup {0} /\ phone.api \in 0..MaxClients
    /\ \A j \in 1..MaxJobs : Sends(j, "wait") <=> \E post \in inbox.air : post.by = j
    /\ phone.clearing => phone.api = 0
    /\ selection # NoSelection => selection.client = phone.api

(* What the user composed once reaches the session once, whatever was      *)
(* lost, repeated, killed or retried on the way, unless a send that was    *)
(* refused gave up the id of another request for it (the catch of send).   *)
SentOnce == \A text \in (1..MaxTexts) \ made.given : Cardinality(Copies(text)) <= 1

(* localStorage: "write serialised with the clearing of the account, so    *)
(* that a late write of the old account cannot restore what was deleted".  *)
(* After logout and switchAccount, no draft of another account is in       *)
(* memory or in drafts.json.                                               *)
Stored(c) == drafts[c] # Blank \/ disk.drafts[c] # Blank
StorageForgotten == \A c \in Chats : Stored(c) => OwnerOf[c] = disk.account
LogoutForgets == ~phone.revoked => StorageForgotten

(* DraftStore: a change of session must not clear a text that was not      *)
(* submitted.  The last text composed is either in its draft or was taken. *)
DraftsKept ==
    ~made.killed /\ phone.api # 0 /\ made.texts # 0 /\ made.clients = 1 =>
        \/ \E c \in Chats : drafts[c].text = made.texts
        \/ Copies(made.texts) # {}
=============================================================================
