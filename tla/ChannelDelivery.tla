----------------------------- MODULE ChannelDelivery -----------------------------
(***************************************************************************)
(* Messages between a buyer of the marketplace and one session of Core,    *)
(* through the Xianyu adapter: apps/xianyu-adapter (transport.ts,          *)
(* adapter.ts, main.ts) and apps/server/src/xianyu-routes.ts.  The         *)
(* platform delivers a message again and again; the adapter and Core may   *)
(* die between two steps, and an answer of Core may be lost.  A listener   *)
(* of the adapter that fails ends the adapter: nothing handles the         *)
(* rejected promise.                                                       *)
(***************************************************************************)
EXTENDS Naturals, Sequences, FiniteSets, SequencesExt

CONSTANTS Inbound,          \* messages of the buyer
          Local,            \* messages that a user writes in the session
          EventsConnected,  \* the adapter has an event connection: no code opens it
          MaxPushes, MaxDeaths, MaxSwitches   \* bounds of the model

ChannelMessages == Inbound \cup Local
None == "none"
Status == {None, "pending", "draft", "delivered", "failed"}
NoReply == 0   \* messages are numbers from 1 on

VARIABLES
    received,  \* channel_deliveries, inbound: "none", "pending", "delivered", "failed"
    answers,   \* channel_deliveries, outbound: also "draft"
    order,     \* messages with a run, in the order of the runs; a message may occur twice
    replied,   \* the number of those whose reply is complete
    autoReply, \* channel_settings.auto_reply_enabled
    adapter,   \* memory of the adapter
    stored,    \* state.json: seenIds
    drafts,    \* Core's requests to send a draft
    sent,      \* how often the buyer got the reply
    bounds     \* pushes, deaths and switches so far

channelVars == <<received, answers, order, replied, autoReply, adapter, stored, drafts, sent, bounds>>
core == <<received, answers, order, replied, autoReply, drafts>>

LastReply == IF replied = 0 THEN NoReply ELSE order[replied]

(* seen, receiver (the buyer's id is known), posting (inbound handlers),   *)
(* notices (message.completed, the snapshot not read yet), read (last      *)
(* replies in snapshots), rendered (lastRendered), registering, sending    *)
(* and reporting (outbound handlers).                                      *)
Fresh(ids, events) ==
    [up |-> TRUE, paused |-> FALSE, seen |-> ids, receiver |-> FALSE, posting |-> {},
     notices |-> events, read |-> {}, rendered |-> NoReply,
     registering |-> {}, sending |-> {}, reporting |-> {}]

ChannelInit ==
    /\ received = [m \in Inbound |-> None]
    /\ answers = [m \in ChannelMessages |-> None]
    /\ order = <<>>
    /\ replied = 0
    /\ autoReply = FALSE
    /\ adapter = Fresh({}, 0)
    /\ stored = {}
    /\ drafts = {}
    /\ sent = [m \in ChannelMessages |-> 0]
    /\ bounds = [pushes |-> 0, deaths |-> 0, switches |-> 0]

Count(counter, limit) ==
    bounds[counter] < limit /\ bounds' = [bounds EXCEPT ![counter] = @ + 1]

(* message.completed reaches the listener of a connected adapter. *)
Noticed(a) == IF EventsConnected /\ a.up THEN [a EXCEPT !.notices = @ + 1] ELSE a
Down == [Fresh({}, 0) EXCEPT !.up = FALSE]
----------------------------------------------------------------------------
(* handleRaw, handleInbound: a message that is not seen is remembered as   *)
(* seen before it is handled; a paused adapter drops it.                   *)
Push(m) ==
    /\ adapter.up
    /\ Count("pushes", MaxPushes)
    /\ adapter' = [adapter EXCEPT !.receiver = TRUE, !.seen = @ \cup {m},
                                  !.posting = IF m \in adapter.seen \/ adapter.paused
                                              THEN @ ELSE @ \cup {m}]
    /\ UNCHANGED <<core, stored, sent>>

(* createStateWriter *)
SaveSeen ==
    /\ adapter.up /\ stored # adapter.seen
    /\ stored' = adapter.seen
    /\ UNCHANGED <<core, adapter, sent, bounds>>

(* Bug: what the delivery's status is does not matter. *)
FaultyIsNew(status) == status \in Status

(* createChannelDelivery: the first to ask gets the delivery. *)
IsNew(status) == status = None

(* The inbound route: the delivery, the run of sendMessage, the delivery's *)
(* status.  sendMessage may refuse the message; Core may die on the way.   *)
PostInbound(m) ==
    /\ adapter.up /\ m \in adapter.posting
    /\ \/ /\ ~IsNew(received[m])
          /\ adapter' = [adapter EXCEPT !.posting = @ \ {m}]
          /\ UNCHANGED <<received, order, bounds>>
       \/ /\ IsNew(received[m])
          /\ received' = [received EXCEPT ![m] = "delivered"]
          /\ order' = Append(order, m)
          /\ adapter' = Noticed([adapter EXCEPT !.posting = @ \ {m}])
          /\ UNCHANGED bounds
       \/ /\ IsNew(received[m])
          /\ received' = [received EXCEPT ![m] = "failed"]
          /\ adapter' = [adapter EXCEPT !.posting = @ \ {m}]
          /\ UNCHANGED <<order, bounds>>
       \/ /\ IsNew(received[m])
          /\ Count("deaths", MaxDeaths)
          /\ received' = [received EXCEPT ![m] = "pending"]
          /\ order' \in {order, Append(order, m)}
          /\ adapter' = [adapter EXCEPT !.posting = @ \ {m}]
    /\ UNCHANGED <<answers, replied, autoReply, drafts, stored, sent>>

(* A message that a user writes to the session. *)
WriteLocal(m) ==
    /\ m \notin ToSet(order)
    /\ order' = Append(order, m)
    /\ adapter' = Noticed(adapter)
    /\ UNCHANGED <<received, answers, replied, autoReply, drafts, stored, sent, bounds>>

(* The run of the next message ends with a complete reply. *)
ReplyCompletes ==
    /\ replied < Len(order)
    /\ replied' = replied + 1
    /\ adapter' = Noticed(adapter)
    /\ UNCHANGED <<received, answers, order, autoReply, drafts, stored, sent, bounds>>

SwitchAutoReply ==
    /\ Count("switches", MaxSwitches)
    /\ autoReply' = ~autoReply
    /\ UNCHANGED <<received, answers, order, replied, adapter, drafts, stored, sent>>

(* pause and resume of the adapter. *)
PauseAdapter ==
    /\ adapter.up
    /\ Count("switches", MaxSwitches)
    /\ adapter' = [adapter EXCEPT !.paused = ~@]
    /\ UNCHANGED <<core, stored, sent>>
----------------------------------------------------------------------------
(* The listener of message.completed reads the session ... *)
ReadSession ==
    /\ adapter.notices > 0
    /\ adapter' = [adapter EXCEPT !.notices = @ - 1,
                                  !.read = IF LastReply = NoReply THEN @ ELSE @ \cup {LastReply}]
    /\ UNCHANGED <<core, stored, sent, bounds>>

(* ... and goes on with the last reply, unless it did so with this one. *)
RenderReply(m) ==
    /\ m \in adapter.read
    /\ adapter' = [adapter EXCEPT !.read = @ \ {m}, !.rendered = m,
                                  !.registering = IF adapter.rendered = m THEN @ ELSE @ \cup {m}]
    /\ UNCHANGED <<core, stored, sent, bounds>>

(* The outbound route: only replies to the buyer's messages; the adapter   *)
(* sends when the delivery is new and auto reply is on.                    *)
Register(m) ==
    /\ m \in adapter.registering
    /\ LET first == m \in Inbound /\ IsNew(answers[m])
       IN  /\ answers' = IF first THEN [answers EXCEPT ![m] = IF autoReply THEN "pending" ELSE "draft"]
                         ELSE answers
           /\ adapter' = [adapter EXCEPT !.registering = @ \ {m},
                                         !.sending = IF first /\ autoReply THEN @ \cup {m} ELSE @]
    /\ UNCHANGED <<received, order, replied, autoReply, drafts, stored, sent, bounds>>

(* transport.send: the buyer gets the reply, or the adapter says so and    *)
(* ends.                                                                   *)
SendReply(m) ==
    /\ m \in adapter.sending
    /\ \/ /\ adapter.receiver
          /\ sent' = [sent EXCEPT ![m] = @ + 1]
          /\ adapter' = [adapter EXCEPT !.sending = @ \ {m}, !.reporting = @ \cup {m}]
          /\ UNCHANGED <<answers, bounds>>
       \/ /\ ~adapter.receiver \/ bounds.deaths < MaxDeaths
          /\ answers' = [answers EXCEPT ![m] = "failed"]
          /\ adapter' = Down
          /\ bounds' = [bounds EXCEPT !.deaths = @ + 1]
          /\ UNCHANGED sent
    /\ UNCHANGED <<received, order, replied, autoReply, drafts, stored>>

(* The result route; when its answer is lost the adapter reports a         *)
(* failure and ends.                                                       *)
Report(m) ==
    /\ m \in adapter.reporting
    /\ \/ /\ answers' = [answers EXCEPT ![m] = "delivered"]
          /\ adapter' = [adapter EXCEPT !.reporting = @ \ {m}]
          /\ UNCHANGED bounds
       \/ /\ Count("deaths", MaxDeaths)
          /\ \E status \in {"pending", "delivered", "failed"} :
                answers' = [answers EXCEPT ![m] = status]
          /\ adapter' = Down
    /\ UNCHANGED <<received, order, replied, autoReply, drafts, stored, sent>>

(* Bug: a delivery that failed can be sent as a draft. *)
FaultyConfirmDraft(m) ==
    /\ answers[m] \in {"draft", "failed"}
    /\ answers' = [answers EXCEPT ![m] = "pending"]
    /\ drafts' = drafts \cup {m}
    /\ UNCHANGED <<received, order, replied, autoReply, adapter, stored, sent, bounds>>

(* An administrator sends a draft. *)
ConfirmDraft(m) ==
    /\ answers[m] = "draft"
    /\ answers' = [answers EXCEPT ![m] = "pending"]
    /\ drafts' = drafts \cup {m}
    /\ UNCHANGED <<received, order, replied, autoReply, adapter, stored, sent, bounds>>

(* The adapter's /send and its answer, which Core writes to the delivery:  *)
(* the adapter refuses when it is paused, is down or does not know the     *)
(* buyer.  When the answer is lost, or Core dies, the buyer has the reply. *)
SendDraft(m) ==
    /\ m \in drafts
    /\ drafts' = drafts \ {m}
    /\ LET able == adapter.up /\ ~adapter.paused /\ adapter.receiver
       IN  \/ /\ able
              /\ sent' = [sent EXCEPT ![m] = @ + 1]
              /\ answers' = [answers EXCEPT ![m] = "delivered"]
              /\ UNCHANGED bounds
           \/ /\ able
              /\ Count("deaths", MaxDeaths)
              /\ sent' = [sent EXCEPT ![m] = @ + 1]
              /\ answers' \in {answers, [answers EXCEPT ![m] = "failed"]}
           \/ /\ ~able
              /\ answers' = [answers EXCEPT ![m] = "failed"]
              /\ UNCHANGED <<sent, bounds>>
    /\ UNCHANGED <<received, order, replied, autoReply, adapter, stored>>

AdapterDies ==
    /\ adapter.up
    /\ Count("deaths", MaxDeaths)
    /\ adapter' = Down
    /\ UNCHANGED <<core, stored, sent>>

(* A new process has what state.json has, and gets the events from the     *)
(* first one on: one for each message and each reply.                      *)
AdapterStarts ==
    /\ ~adapter.up
    /\ adapter' = Fresh(stored, IF EventsConnected THEN Len(order) + replied ELSE 0)
    /\ UNCHANGED <<core, stored, sent, bounds>>

ChannelNext ==
    \/ SaveSeen \/ ReplyCompletes \/ SwitchAutoReply \/ PauseAdapter \/ ReadSession
    \/ AdapterDies \/ AdapterStarts
    \/ \E m \in Inbound : Push(m) \/ PostInbound(m)
    \/ \E m \in Local : WriteLocal(m)
    \/ \E m \in ChannelMessages :
          RenderReply(m) \/ Register(m) \/ SendReply(m) \/ Report(m) \/ ConfirmDraft(m) \/ SendDraft(m)

(* The service manager restarts the adapter; its handlers go on while it   *)
(* runs.                                                                   *)
ChannelFairness ==
    /\ WF_channelVars(AdapterStarts)
    /\ WF_channelVars(ReadSession)
    /\ \A m \in ChannelMessages :
          WF_channelVars(RenderReply(m)) /\ WF_channelVars(Register(m))

ChannelSpec == ChannelInit /\ [][ChannelNext]_channelVars /\ ChannelFairness
----------------------------------------------------------------------------
ChannelOK ==
    /\ received \in [Inbound -> Status] /\ answers \in [ChannelMessages -> Status]
    /\ ToSet(order) \subseteq ChannelMessages /\ replied \in 0..Len(order)
    /\ adapter.posting \subseteq adapter.seen
    /\ drafts \subseteq Inbound

(* However often the platform delivers a message, and whatever dies, there *)
(* is at most one run for it.                                              *)
OneRunPerMessage == IsInjective(order)

(* The buyer gets a reply at most once, whether it is sent by itself or as *)
(* a draft, and whatever dies or is lost; a delivery that counts as sent   *)
(* has been sent, and a draft or the answer to a user has not.             *)
ReplySentOnce ==
    \A m \in ChannelMessages :
        /\ sent[m] <= 1
        /\ answers[m] = "delivered" => sent[m] = 1
        /\ answers[m] \in {None, "draft"} => sent[m] = 0

(* The reply to the buyer that is the last of its session becomes a        *)
(* delivery: a draft for the administrator, or one that is sent.           *)
ReplyRegistered ==
    \A m \in Inbound :
        LastReply = m ~> (answers[m] # None \/ LastReply # m)
=============================================================================
