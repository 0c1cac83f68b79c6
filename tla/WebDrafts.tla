------------------------------ MODULE WebDrafts ------------------------------
(***************************************************************************)
(* Drafts and sending in the browser (useConversationDrafts.ts): what the  *)
(* user composes in each session, uploads in flight, the one mutation that *)
(* may be sending, and the generation that changes with the account.       *)
(* Nothing of it is stored: a reload forgets the drafts.                   *)
(***************************************************************************)
EXTENDS MessageInbox

CONSTANTS WebFiles, MaxPrompts, MaxSubmits, MaxBreaks   \* bounds

VARIABLES
    view,      \* the visible session and authGeneration
    notes,     \* drafts: text, attachments and pending request of a session
    sending,   \* the mutation: its request, generation and step
    uploading, \* uploads in flight: session, file and generation
    counted    \* texts, requests, files and disturbances so far, and the texts
               \* whose message id was given up while it was outstanding

webDraftVars == <<view, notes, sending, uploading, counted, inbox>>

EmptyDraft == [text |-> 0, files |-> {}, pending |-> NoRequest]
Idle == [request |-> NoRequest, retry |-> FALSE, generation |-> 0, step |-> "idle"]
Sender == 1   \* there is one mutation

WebDraftsInit ==
    /\ view = [chat |-> CHOOSE c \in Chats : TRUE, generation |-> 1]
    /\ notes = [c \in Chats |-> EmptyDraft]
    /\ sending = Idle
    /\ uploading = {}
    /\ counted = [texts |-> 0, requests |-> 0, files |-> {}, breaks |-> 0, given |-> {}]
    /\ InboxInit

Draft == notes[view.chat]
Pending(c) == notes[c].pending # NoRequest
Uploading(c) == \E upload \in uploading : upload.chat = c /\ upload.generation = view.generation

Break ==
    /\ counted.breaks < MaxBreaks
    /\ counted' = [counted EXCEPT !.breaks = @ + 1]

SelectChat(c) ==
    /\ c # view.chat /\ Break
    /\ view' = [view EXCEPT !.chat = c]
    /\ UNCHANGED <<notes, sending, uploading, inbox>>

(* setPrompt: a draft whose request is unconfirmed cannot be edited.       *)
SetPrompt ==
    /\ ~Pending(view.chat) /\ counted.texts < MaxPrompts
    /\ counted' = [counted EXCEPT !.texts = @ + 1]
    /\ notes' = [notes EXCEPT ![view.chat].text = counted.texts + 1]
    /\ UNCHANGED <<view, sending, uploading, inbox>>

RemoveFile(f) ==
    /\ ~Pending(view.chat) /\ f \in Draft.files
    /\ notes' = [notes EXCEPT ![view.chat].files = @ \ {f}]
    /\ UNCHANGED <<view, sending, uploading, counted, inbox>>

Upload(f) ==
    /\ ~Pending(view.chat) /\ sending = Idle /\ f \notin counted.files
    /\ counted' = [counted EXCEPT !.files = @ \cup {f}]
    /\ uploading' = uploading \cup
           {[chat |-> view.chat, file |-> f, generation |-> view.generation]}
    /\ UNCHANGED <<view, notes, sending, inbox>>

Uploaded(upload, ok) ==
    /\ uploading' = uploading \ {upload}
    /\ notes' = IF ok /\ upload.generation = view.generation
                THEN [notes EXCEPT ![upload.chat].files = @ \cup {upload.file}] ELSE notes
    /\ IF ok THEN UNCHANGED counted ELSE Break
    /\ UNCHANGED <<view, sending, inbox>>

FaultyAsked(draft, id) ==
    [id |-> id, chat |-> view.chat, text |-> draft.text, files |-> draft.files]

(* The unconfirmed request is asked again as it was. *)
Asked(draft, id) ==
    IF draft.pending # NoRequest THEN draft.pending
    ELSE [id |-> id, chat |-> view.chat, text |-> draft.text, files |-> draft.files]

Submit ==
    LET request == Asked(Draft, counted.requests + 1) IN
    /\ sending = Idle /\ ~Uploading(view.chat)
    /\ Draft.text # 0 \/ Draft.files # {}
    /\ Pending(view.chat) \/ counted.requests < MaxSubmits
    /\ counted' = [counted EXCEPT !.requests = IF Pending(view.chat) THEN @ ELSE @ + 1]
    /\ notes' = [notes EXCEPT ![view.chat].pending = request]
    /\ sending' = [request |-> request, retry |-> Pending(view.chat),
                   generation |-> view.generation,
                   step |-> IF Pending(view.chat) THEN "check" ELSE "post"]
    /\ UNCHANGED <<view, uploading, inbox>>

Current == sending.generation = view.generation

(* A retry pages through the history; one of an account that was left      *)
(* neither finds nor sends anything.                                       *)
HistoryPages ==
    /\ sending.step = "check"
    /\ sending' = IF ~Current THEN Idle
                  ELSE [sending EXCEPT !.step = IF Has(sending.request.id) THEN "accepted"
                                                ELSE "post"]
    /\ UNCHANGED <<view, notes, uploading, counted, inbox>>

(* A 4xx status of the history refuses the retry as one of the message.    *)
HistoryRefused ==
    /\ sending.step = "check" /\ Break
    /\ sending' = [sending EXCEPT !.step = "refused"]
    /\ UNCHANGED <<view, notes, uploading, inbox>>

PostMessage ==
    /\ sending.step = "post"
    /\ IF Current THEN /\ inbox' = Posted(Sender, sending.request)
                       /\ sending' = [sending EXCEPT !.step = "wait"]
                  ELSE /\ sending' = Idle
                       /\ UNCHANGED inbox
    /\ UNCHANGED <<view, notes, uploading, counted>>

ServerTakes(post) ==
    /\ inbox' = Handled(post)
    /\ sending' = IF post.by = Nobody THEN sending
                  ELSE [sending EXCEPT !.step = "accepted"]
    /\ UNCHANGED <<view, notes, uploading, counted>>

ServerRejects(post) ==
    /\ post.by # Nobody
    /\ inbox' = Rejected(post)
    /\ sending' = [sending EXCEPT !.step = "refused"]
    /\ UNCHANGED <<view, notes, uploading, counted>>

FaultyOnSuccess ==
    /\ sending.step = "accepted"
    /\ notes' = IF Current THEN [notes EXCEPT ![view.chat] = EmptyDraft] ELSE notes
    /\ sending' = Idle
    /\ UNCHANGED <<view, uploading, counted, inbox>>

(* The receipt clears the draft of the session that sent, not the visible one. *)
OnSuccess ==
    /\ sending.step = "accepted"
    /\ notes' = IF Current THEN [notes EXCEPT ![sending.request.chat] = EmptyDraft] ELSE notes
    /\ sending' = Idle
    /\ UNCHANGED <<view, uploading, counted, inbox>>

OnRefused ==
    /\ sending.step = "refused"
    /\ notes' = IF Current THEN [notes EXCEPT ![sending.request.chat].pending = NoRequest]
                ELSE notes
    /\ counted' = IF Current /\ Outstanding(sending.request.id)
                  THEN [counted EXCEPT !.given = @ \cup {sending.request.text}] ELSE counted
    /\ sending' = Idle
    /\ UNCHANGED <<view, uploading, inbox>>

(* The network or the server failed: the request stays unconfirmed.        *)
OnError ==
    /\ sending.step \in {"check", "post", "wait"} /\ Break
    /\ sending' = Idle
    /\ inbox' = [inbox EXCEPT !.air = Detached({Sender})]
    /\ UNCHANGED <<view, notes, uploading>>

(* Another client object, or clear: the drafts are those of nobody.  After *)
(* clear the mutation is forgotten; with a new client it runs on.          *)
ChangeAccount(cleared) ==
    /\ Break
    /\ view' = [view EXCEPT !.generation = @ + 1]
    /\ notes' = [c \in Chats |-> EmptyDraft]
    /\ IF cleared THEN /\ sending' = Idle
                       /\ inbox' = [inbox EXCEPT !.air = Detached({Sender})]
                  ELSE UNCHANGED <<sending, inbox>>
    /\ UNCHANGED uploading

Reload ==
    /\ Break
    /\ view' = [view EXCEPT !.generation = @ + 1]
    /\ notes' = [c \in Chats |-> EmptyDraft]
    /\ sending' = Idle
    /\ uploading' = {}
    /\ inbox' = [inbox EXCEPT !.air = Detached({Sender})]

WebDraftsNext ==
    \/ SetPrompt \/ Submit \/ HistoryPages \/ HistoryRefused \/ PostMessage
    \/ OnSuccess \/ OnRefused \/ OnError \/ Reload
    \/ \E c \in Chats : SelectChat(c)
    \/ \E f \in WebFiles : Upload(f) \/ RemoveFile(f)
    \/ \E upload \in uploading, ok \in BOOLEAN : Uploaded(upload, ok)
    \/ \E post \in inbox.air : ServerTakes(post) \/ ServerRejects(post)
    \/ \E cleared \in BOOLEAN : ChangeAccount(cleared)

WebDraftsSpec == WebDraftsInit /\ [][WebDraftsNext]_webDraftVars

(******************************* Properties ********************************)
(* Types; one caller at a time waits for the server; and the request that  *)
(* is being sent is the unconfirmed one of its draft, which is unchanged   *)
(* since: it can be asked again word for word.                             *)
WebDraftsOK ==
    /\ \A c \in Chats :
           /\ notes[c].text \in 0..MaxPrompts /\ notes[c].files \subseteq WebFiles
           /\ Pending(c) => /\ notes[c].pending.chat = c
                            /\ notes[c].pending.text = notes[c].text
                            /\ notes[c].pending.files = notes[c].files
    /\ sending.step = "wait" <=> \E post \in inbox.air : post.by = Sender
    /\ sending # Idle /\ Current => notes[sending.request.chat].pending = sending.request

(* What was composed once reaches the session once, unless a retry that    *)
(* was refused gave up the id of a request that was sent before, and what  *)
(* has not reached it is still in its draft while the account is the same: *)
(* a receipt never clears the text of the session opened meanwhile.        *)
WebComposes ==
    /\ \A text \in (1..MaxPrompts) \ counted.given : Cardinality(Copies(text)) <= 1
    /\ view.generation = 1 /\ counted.texts # 0 =>
           (\E c \in Chats : notes[c].text = counted.texts) \/ Copies(counted.texts) # {}
=============================================================================
