---------------------------- MODULE ChannelProofs ----------------------------
(***************************************************************************)
(* The parts of the channel adapter: what ChannelDelivery promises for     *)
(* every set of messages, XianyuService for every number of logins, of     *)
(* sockets that close late and of crashes, and its calls for all           *)
(* requests, conversations and pages.                                      *)
(*                                                                         *)
(* The argument for the messages.  A message has a run only if its inbound *)
(* delivery exists (RunsAreDelivered), and a delivery is created once.  A  *)
(* reply is on its way to the buyer in one of three places, the senders of *)
(* the adapter, the drafts that Core sends, and the reports of what was    *)
(* sent: the first two exclude each other and belong to a pending delivery *)
(* whose reply was not sent (SendersKnown), and a report is about a reply  *)
(* that was.  The platform's messages have ids of their own, so the        *)
(* theorems assume that no message is both the buyer's and the user's      *)
(* (Disjoint).                                                             *)
(*                                                                         *)
(* The argument for the connection.  Only an attempt that is under way has *)
(* a socket (SocketOfAttempt), so what ends an attempt leaves none behind  *)
(* but those it gave up; and the cookie changes in the microtasks in which *)
(* the loop ends, or when there is no loop.                                *)
(*                                                                         *)
(* The argument for the status.  Until two logins are polled at once there *)
(* is one login that someone works on; while it is, the status is not      *)
(* "authenticated", and when it is about to be written to the file it is   *)
(* the cookie in memory (OneLogin).                                        *)
(*                                                                         *)
(* The argument for the calls.  What a history has read so far is the run  *)
(* of messages from its cursor to the last one (ReadFrom); nothing is      *)
(* listed for an item before its last call (NotListedYet); and what the    *)
(* writer writes is the last change unless it knows of another one         *)
(* (WritesLast).                                                           *)
(***************************************************************************)
EXTENDS ChannelDelivery, XianyuService, SequenceTheorems, TLAPS

(********************************* Messages ********************************)
Disjoint == Inbound \cap Local = {}

AdapterType ==
    [up : BOOLEAN, paused : BOOLEAN, seen : SUBSET Inbound, receiver : BOOLEAN,
     posting : SUBSET Inbound, notices : Nat, read : SUBSET ChannelMessages,
     rendered : ChannelMessages \cup {NoReply}, registering : SUBSET ChannelMessages,
     sending : SUBSET ChannelMessages, reporting : SUBSET ChannelMessages]

ChannelTypes ==
    /\ received \in [Inbound -> Status]
    /\ answers \in [ChannelMessages -> Status]
    /\ order \in Seq(ChannelMessages)
    /\ replied \in 0..Len(order)
    /\ autoReply \in BOOLEAN
    /\ adapter \in AdapterType
    /\ adapter.posting \subseteq adapter.seen
    /\ stored \subseteq Inbound
    /\ drafts \subseteq Inbound
    /\ sent \in [ChannelMessages -> Nat]
    /\ \A m \in ChannelMessages : answers[m] # None => m \in Inbound

(* The run of a buyer's message was created with its delivery. *)
RunsAreDelivered ==
    \A i \in DOMAIN order : order[i] \in Inbound => received[order[i]] # None

(* Who may still send the reply to m, and what the delivery says meanwhile. *)
SendersKnown ==
    \A m \in ChannelMessages :
        /\ m \in adapter.sending => answers[m] = "pending" /\ sent[m] = 0 /\ m \notin drafts
        /\ m \in drafts => answers[m] = "pending" /\ sent[m] = 0
        /\ m \in adapter.reporting => sent[m] = 1 /\ answers[m] # None

ChannelInv ==
    /\ ChannelTypes
    /\ RunsAreDelivered /\ OneRunPerMessage
    /\ SendersKnown /\ ReplySentOnce

-----------------------------------------------------------------------------
(* A sequence with one more element. *)
LEMMA AppendDomain ==
    ASSUME NEW S, NEW s \in Seq(S), NEW x \in S
    PROVE  /\ Append(s, x) \in Seq(S) /\ Len(Append(s, x)) = Len(s) + 1
           /\ DOMAIN Append(s, x) = 1..Len(s) + 1 /\ DOMAIN s = 1..Len(s) /\ Len(s) \in Nat
           /\ \A i \in DOMAIN s : i \in DOMAIN Append(s, x) /\ Append(s, x)[i] = s[i] /\ i # Len(s) + 1
           /\ \A i \in DOMAIN Append(s, x) : i \in DOMAIN s \/ i = Len(s) + 1
           /\ Append(s, x)[Len(s) + 1] = x
  OBVIOUS

(* An element that is new keeps a sequence free of repetitions. *)
LEMMA AppendIsNew ==
    ASSUME NEW S, NEW s \in Seq(S), NEW x \in S, IsInjective(s), \A i \in DOMAIN s : s[i] # x
    PROVE  IsInjective(Append(s, x))
<1>1. \A a, b \in DOMAIN s : s[a] = s[b] => a = b
  BY DEF IsInjective
<1>2. \A a, b \in DOMAIN Append(s, x) : Append(s, x)[a] = Append(s, x)[b] => a = b
  BY <1>1
<1> QED BY <1>2 DEF IsInjective

(* The adapters that a new or an ended process has. *)
LEMMA FreshTypes ==
    ASSUME NEW ids \in SUBSET Inbound, NEW events \in Nat
    PROVE  /\ Fresh(ids, events) \in AdapterType /\ Down \in AdapterType
           /\ Fresh(ids, events).posting = {} /\ Down.posting = {}
           /\ Fresh(ids, events).sending = {} /\ Down.sending = {}
           /\ Fresh(ids, events).reporting = {} /\ Down.reporting = {}
  BY DEF Fresh, Down, AdapterType, NoReply

(* An event changes the notices and nothing else. *)
LEMMA NoticedTypes ==
    ASSUME NEW a \in AdapterType
    PROVE  /\ Noticed(a) \in AdapterType
           /\ Noticed(a).posting = a.posting /\ Noticed(a).seen = a.seen
           /\ Noticed(a).sending = a.sending /\ Noticed(a).reporting = a.reporting
  BY DEF Noticed, AdapterType

(* A status that is written to a delivery to the buyer. *)
LEMMA Written ==
    ASSUME NEW f \in [ChannelMessages -> Status], NEW m \in Inbound, NEW v \in Status,
           \A n \in ChannelMessages : f[n] # None => n \in Inbound
    PROVE  /\ [f EXCEPT ![m] = v] \in [ChannelMessages -> Status]
           /\ \A n \in ChannelMessages : [f EXCEPT ![m] = v][n] # None => n \in Inbound
  BY DEF ChannelMessages

LEMMA InitInv == ChannelInit => ChannelInv
<1> SUFFICES ASSUME ChannelInit PROVE ChannelInv
  OBVIOUS
<1>1. adapter = Fresh({}, 0) /\ order = <<>> /\ order \in Seq(ChannelMessages)
      /\ Len(order) = 0 /\ DOMAIN order = {}
  BY DEF ChannelInit
<1>2. ChannelTypes
  <2>1. adapter \in AdapterType /\ adapter.posting = {}
    BY <1>1, FreshTypes
  <2>2. /\ received \in [Inbound -> Status] /\ answers \in [ChannelMessages -> Status]
        /\ sent \in [ChannelMessages -> Nat]
    BY DEF ChannelInit, Status
  <2>3. replied = 0 /\ autoReply = FALSE /\ stored = {} /\ drafts = {}
    BY DEF ChannelInit
  <2>4. replied \in 0..Len(order)
    BY <1>1, <2>3
  <2>5. \A m \in ChannelMessages : answers[m] # None => m \in Inbound
    BY DEF ChannelInit
  <2> QED BY <1>1, <2>1, <2>2, <2>3, <2>4, <2>5 DEF ChannelTypes
<1>3. RunsAreDelivered /\ OneRunPerMessage
  BY <1>1 DEF RunsAreDelivered, OneRunPerMessage, IsInjective
<1>4. SendersKnown /\ ReplySentOnce
  <2>1. adapter.sending = {} /\ adapter.reporting = {}
    BY <1>1, FreshTypes
  <2>2. \A m \in ChannelMessages : sent[m] = 0 /\ answers[m] = "none" /\ m \notin drafts
    BY DEF ChannelInit, None
  <2> QED BY <2>1, <2>2 DEF SendersKnown, ReplySentOnce
<1> QED BY <1>2, <1>3, <1>4 DEF ChannelInv

-----------------------------------------------------------------------------
(* What a step does to the senders, the drafts and the deliveries: most steps leave *)
(* them alone or forget senders.                                                    *)
NothingNew ==
    /\ adapter'.sending \subseteq adapter.sending /\ adapter'.reporting \subseteq adapter.reporting
    /\ UNCHANGED <<answers, drafts, sent>>

LEMMA QuietKeeps ==
    ASSUME SendersKnown, ReplySentOnce, NothingNew
    PROVE  SendersKnown' /\ ReplySentOnce'
  BY DEF SendersKnown, ReplySentOnce, NothingNew

LEMMA QuietRuns ==
    ASSUME RunsAreDelivered, OneRunPerMessage, UNCHANGED <<received, order>>
    PROVE  RunsAreDelivered' /\ OneRunPerMessage'
  BY DEF RunsAreDelivered, OneRunPerMessage

-----------------------------------------------------------------------------
(* The types. *)
LEMMA TypesStep == ChannelTypes /\ SendersKnown /\ [ChannelNext]_channelVars => ChannelTypes'
<1> SUFFICES ASSUME ChannelTypes, SendersKnown, [ChannelNext]_channelVars PROVE ChannelTypes'
  OBVIOUS
<1> USE DEF core
<1>t. /\ adapter \in AdapterType /\ adapter.posting \subseteq adapter.seen
      /\ order \in Seq(ChannelMessages) /\ Len(order) \in Nat /\ replied \in 0..Len(order)
      /\ received \in [Inbound -> Status] /\ answers \in [ChannelMessages -> Status]
      /\ sent \in [ChannelMessages -> Nat] /\ drafts \subseteq Inbound /\ stored \subseteq Inbound
      /\ autoReply \in BOOLEAN
      /\ \A m \in ChannelMessages : answers[m] # None => m \in Inbound
  BY DEF ChannelTypes
<1>d. None \in Status /\ {"pending", "draft", "delivered", "failed"} \subseteq Status
  BY DEF Status
<1>m. Inbound \subseteq ChannelMessages /\ Local \subseteq ChannelMessages
  BY DEF ChannelMessages
<1>s. \A m \in ChannelMessages : m \in adapter.sending \cup adapter.reporting => m \in Inbound
  BY <1>t DEF SendersKnown, None
<1>1. CASE SaveSeen
  BY <1>1, <1>t DEF SaveSeen, ChannelTypes, AdapterType
<1>2. CASE ReplyCompletes
  <2>1. adapter' \in AdapterType /\ adapter'.posting \subseteq adapter'.seen
    BY <1>2, <1>t, NoticedTypes DEF ReplyCompletes
  <2>2. replied' \in 0..Len(order)
    BY <1>2, <1>t DEF ReplyCompletes
  <2> QED BY <1>2, <1>t, <2>1, <2>2 DEF ReplyCompletes, ChannelTypes
<1>3. CASE SwitchAutoReply
  BY <1>3, <1>t DEF SwitchAutoReply, ChannelTypes
<1>4. CASE PauseAdapter
  <2>1. PICK b \in BOOLEAN : adapter' = [adapter EXCEPT !.paused = b]
    BY <1>4, Zenon DEF PauseAdapter
  <2>2. adapter' \in AdapterType /\ adapter'.posting \subseteq adapter'.seen
    BY <2>1, <1>t DEF AdapterType
  <2> QED BY <1>4, <1>t, <2>2 DEF PauseAdapter, ChannelTypes
<1>5. CASE ReadSession
  <2>1. LastReply # NoReply => LastReply \in ChannelMessages
    BY <1>t DEF LastReply
  <2>3. PICK S \in SUBSET ChannelMessages :
          adapter' = [adapter EXCEPT !.notices = adapter.notices - 1, !.read = S]
    <3>1. adapter.read \in SUBSET ChannelMessages
      BY <1>t DEF AdapterType
    <3>2. LastReply # NoReply => adapter.read \cup {LastReply} \in SUBSET ChannelMessages
      BY <2>1, <3>1
    <3> QED BY <1>5, <3>1, <3>2 DEF ReadSession
  <2>4. adapter.notices \in Nat /\ adapter.notices - 1 \in Nat
    BY <1>5, <1>t DEF ReadSession, AdapterType
  <2>2. adapter' \in AdapterType /\ adapter'.posting \subseteq adapter'.seen
    BY <1>t, <2>3, <2>4 DEF AdapterType
  <2> QED BY <1>5, <1>t, <2>2 DEF ReadSession, ChannelTypes
<1>6. CASE AdapterDies
  BY <1>6, <1>t, FreshTypes DEF AdapterDies, ChannelTypes
<1>7. CASE AdapterStarts
  <2>1. (IF EventsConnected THEN Len(order) + replied ELSE 0) \in Nat
    BY <1>t
  <2>2. adapter' \in AdapterType /\ adapter'.posting = {}
    BY <1>7, <1>t, <2>1, FreshTypes DEF AdapterStarts
  <2> QED BY <1>7, <1>t, <2>2 DEF AdapterStarts, ChannelTypes
<1>8. ASSUME NEW m \in Inbound, Push(m)
      PROVE  ChannelTypes'
  <2>1. adapter' \in AdapterType /\ adapter'.posting \subseteq adapter'.seen
    BY <1>8, <1>t DEF Push, AdapterType
  <2> QED BY <1>8, <1>t, <2>1 DEF Push, ChannelTypes
<1>9. ASSUME NEW m \in Inbound, PostInbound(m)
      PROVE  ChannelTypes'
  <2> DEFINE a == [adapter EXCEPT !.posting = @ \ {m}]
  <2>1. a \in AdapterType /\ a.posting \subseteq a.seen
    BY <1>t DEF AdapterType
  <2> HIDE DEF a
  <2>2. Noticed(a) \in AdapterType /\ Noticed(a).posting \subseteq Noticed(a).seen
    BY <2>1, NoticedTypes
  <2>3. adapter' \in {a, Noticed(a)} /\ order' \in {order, Append(order, m)}
        /\ received' \in [Inbound -> Status]
    BY <1>9, <1>t, <1>d DEF PostInbound, a
  <2>6. /\ Append(order, m) \in Seq(ChannelMessages) /\ Len(Append(order, m)) = Len(order) + 1
        /\ replied \in 0..Len(order) + 1
    BY <1>t, <1>m, AppendDomain
  <2>4. order' \in Seq(ChannelMessages) /\ replied \in 0..Len(order')
    BY <2>3, <2>6, <1>t
  <2>5. UNCHANGED <<answers, replied, autoReply, drafts, stored, sent>>
    BY <1>9 DEF PostInbound
  <2> QED BY <1>t, <2>1, <2>2, <2>3, <2>4, <2>5 DEF ChannelTypes
<1>10. ASSUME NEW m \in Local, WriteLocal(m)
       PROVE  ChannelTypes'
  <2>1. adapter' \in AdapterType /\ adapter'.posting \subseteq adapter'.seen
    BY <1>10, <1>t, NoticedTypes DEF WriteLocal
  <2>2. order' \in Seq(ChannelMessages) /\ replied \in 0..Len(order')
    BY <1>10, <1>t, <1>m, AppendDomain DEF WriteLocal
  <2> QED BY <1>10, <1>t, <2>1, <2>2 DEF WriteLocal, ChannelTypes
<1>11. ASSUME NEW m \in ChannelMessages, RenderReply(m)
       PROVE  ChannelTypes'
  <2>1. adapter' \in AdapterType /\ adapter'.posting \subseteq adapter'.seen
    BY <1>11, <1>t DEF RenderReply, AdapterType
  <2> QED BY <1>11, <1>t, <2>1 DEF RenderReply, ChannelTypes
<1>12. ASSUME NEW m \in ChannelMessages, Register(m)
       PROVE  ChannelTypes'
  <2>1. PICK S \in SUBSET ChannelMessages :
          adapter' = [adapter EXCEPT !.registering = adapter.registering \ {m}, !.sending = S]
    <3>1. adapter.sending \in SUBSET ChannelMessages /\ adapter.sending \cup {m} \in SUBSET ChannelMessages
      BY <1>t DEF AdapterType
    <3> QED BY <1>12, <3>1 DEF Register
  <2>2. adapter' \in AdapterType /\ adapter'.posting \subseteq adapter'.seen
    BY <1>t, <2>1 DEF AdapterType
  <2>3. answers' = answers \/ (m \in Inbound /\ \E v \in Status : answers' = [answers EXCEPT ![m] = v])
    BY <1>12, <1>d DEF Register
  <2>4. /\ answers' \in [ChannelMessages -> Status]
        /\ \A n \in ChannelMessages : answers'[n] # None => n \in Inbound
    BY <1>t, <2>3, Written
  <2> QED BY <1>12, <1>t, <2>2, <2>4 DEF Register, ChannelTypes
<1>13. ASSUME NEW m \in ChannelMessages, SendReply(m)
       PROVE  ChannelTypes'
  <2>i. m \in Inbound
    BY <1>13, <1>s DEF SendReply
  <2>1. CASE adapter' = Down /\ answers' = [answers EXCEPT ![m] = "failed"] /\ sent' = sent
    <3>1. /\ answers' \in [ChannelMessages -> Status]
          /\ \A n \in ChannelMessages : answers'[n] # None => n \in Inbound
      BY <1>t, <1>d, <2>i, <2>1, Written
    <3> QED BY <1>13, <1>t, <2>1, <3>1, FreshTypes DEF SendReply, ChannelTypes
  <2>2. CASE /\ adapter' = [adapter EXCEPT !.sending = @ \ {m}, !.reporting = @ \cup {m}]
             /\ sent' = [sent EXCEPT ![m] = @ + 1] /\ answers' = answers
    <3>1. adapter' \in AdapterType /\ adapter'.posting \subseteq adapter'.seen
      BY <1>13, <1>t, <2>2 DEF AdapterType
    <3>2. sent' \in [ChannelMessages -> Nat]
      BY <1>t, <2>2
    <3> QED BY <1>13, <1>t, <2>2, <3>1, <3>2 DEF SendReply, ChannelTypes
  <2> QED BY <1>13, <2>1, <2>2 DEF SendReply
<1>14. ASSUME NEW m \in ChannelMessages, Report(m)
       PROVE  ChannelTypes'
  <2>i. m \in Inbound
    BY <1>14, <1>s DEF Report
  <2>1. adapter' \in {Down, [adapter EXCEPT !.reporting = @ \ {m}]}
        /\ \E v \in Status : answers' = [answers EXCEPT ![m] = v]
    BY <1>14, <1>d DEF Report
  <2>2. [adapter EXCEPT !.reporting = @ \ {m}] \in AdapterType
        /\ [adapter EXCEPT !.reporting = @ \ {m}].posting \subseteq [adapter EXCEPT !.reporting = @ \ {m}].seen
    BY <1>t DEF AdapterType
  <2>3. adapter' \in AdapterType /\ adapter'.posting \subseteq adapter'.seen
    BY <2>1, <2>2, FreshTypes
  <2>4. /\ answers' \in [ChannelMessages -> Status]
        /\ \A n \in ChannelMessages : answers'[n] # None => n \in Inbound
    BY <1>t, <2>i, <2>1, Written
  <2> QED BY <1>14, <1>t, <2>3, <2>4 DEF Report, ChannelTypes
<1>15. ASSUME NEW m \in ChannelMessages, ConfirmDraft(m)
       PROVE  ChannelTypes'
  <2>1. m \in Inbound
    BY <1>15, <1>t DEF ConfirmDraft, None
  <2>2. /\ answers' \in [ChannelMessages -> Status]
        /\ \A n \in ChannelMessages : answers'[n] # None => n \in Inbound
    BY <1>15, <1>t, <1>d, <2>1, Written DEF ConfirmDraft
  <2> QED BY <1>15, <1>t, <2>1, <2>2 DEF ConfirmDraft, ChannelTypes
<1>16. ASSUME NEW m \in ChannelMessages, SendDraft(m)
       PROVE  ChannelTypes'
  <2>1. m \in Inbound /\ drafts' \subseteq Inbound
    BY <1>16, <1>t DEF SendDraft
  <2>2. answers' = answers \/ \E v \in Status : answers' = [answers EXCEPT ![m] = v]
    BY <1>16, <1>d DEF SendDraft
  <2>3. /\ answers' \in [ChannelMessages -> Status]
        /\ \A n \in ChannelMessages : answers'[n] # None => n \in Inbound
    BY <1>t, <2>1, <2>2, Written
  <2>4. sent' \in [ChannelMessages -> Nat]
    BY <1>16, <1>t DEF SendDraft
  <2> QED BY <1>16, <1>t, <2>1, <2>3, <2>4 DEF SendDraft, ChannelTypes
<1>17. CASE UNCHANGED channelVars
  BY <1>17 DEF channelVars, ChannelTypes
<1> QED BY <1>1, <1>2, <1>3, <1>4, <1>5, <1>6, <1>7, <1>8, <1>9, <1>10, <1>11, <1>12, <1>13,
           <1>14, <1>15, <1>16, <1>17 DEF ChannelNext

-----------------------------------------------------------------------------
(* One run for each message of the buyer: PostInbound appends a message whose delivery *)
(* did not exist, WriteLocal one that has no run.                                      *)
LEMMA RunAppended ==
    ASSUME ChannelTypes, RunsAreDelivered, OneRunPerMessage,
           NEW m \in ChannelMessages, \A i \in DOMAIN order : order[i] # m,
           order' = Append(order, m),
           m \in Inbound => received'[m] # None,
           \A n \in Inbound : n # m => received'[n] = received[n]
    PROVE  RunsAreDelivered' /\ OneRunPerMessage'
<1>1. order \in Seq(ChannelMessages)
  BY DEF ChannelTypes
<1>2. OneRunPerMessage'
  BY <1>1, AppendIsNew DEF OneRunPerMessage
<1>3. ASSUME NEW i \in DOMAIN order', order'[i] \in Inbound
      PROVE  received'[order'[i]] # None
  <2>1. CASE i \in DOMAIN order
    BY <1>1, <1>3, <2>1, AppendDomain DEF RunsAreDelivered
  <2>2. CASE i \notin DOMAIN order
    BY <1>1, <1>3, <2>2, AppendDomain
  <2> QED BY <2>1, <2>2
<1> QED BY <1>2, <1>3 DEF RunsAreDelivered

LEMMA RunsStep ==
    ASSUME Disjoint
    PROVE  ChannelTypes /\ RunsAreDelivered /\ OneRunPerMessage /\ [ChannelNext]_channelVars
              => RunsAreDelivered' /\ OneRunPerMessage'
<1> SUFFICES ASSUME ChannelTypes, RunsAreDelivered, OneRunPerMessage, [ChannelNext]_channelVars
             PROVE  RunsAreDelivered' /\ OneRunPerMessage'
  OBVIOUS
<1>t. received \in [Inbound -> Status]
  BY DEF ChannelTypes
<1>1. ASSUME NEW m \in Inbound, PostInbound(m)
      PROVE  RunsAreDelivered' /\ OneRunPerMessage'
  <2>1. CASE received' = received /\ order' = order
    BY <2>1, QuietRuns
  <2>2. CASE IsNew(received[m]) /\ order' = Append(order, m)
    <3>1. \A i \in DOMAIN order : order[i] # m
      BY <2>2 DEF RunsAreDelivered, IsNew
    <3>2. received'[m] # None /\ \A n \in Inbound : n # m => received'[n] = received[n]
      BY <1>1, <1>t, <2>2 DEF PostInbound, None, IsNew
    <3> QED BY <2>2, <3>1, <3>2, RunAppended DEF ChannelMessages
  <2>3. CASE IsNew(received[m]) /\ order' = order
    <3>1. \A n \in Inbound : received[n] # None => received'[n] # None
      BY <1>1, <1>t, <2>3 DEF PostInbound, None, IsNew
    <3> QED BY <2>3, <3>1 DEF RunsAreDelivered, OneRunPerMessage
  <2> QED BY <1>1, <2>1, <2>2, <2>3 DEF PostInbound
<1>2. ASSUME NEW m \in Local, WriteLocal(m)
      PROVE  RunsAreDelivered' /\ OneRunPerMessage'
  <2>1. \A i \in DOMAIN order : order[i] # m
    BY <1>2 DEF WriteLocal, ToSet
  <2>2. m \notin Inbound
    BY DEF Disjoint
  <2> QED BY <1>2, <2>1, <2>2, RunAppended DEF WriteLocal, ChannelMessages
<1>3. CASE ReplyCompletes
  BY <1>3, QuietRuns DEF ReplyCompletes
<1>4. CASE SaveSeen \/ SwitchAutoReply \/ PauseAdapter \/ ReadSession \/ AdapterDies \/ AdapterStarts
  BY <1>4, QuietRuns DEF SaveSeen, SwitchAutoReply, PauseAdapter, ReadSession, AdapterDies, AdapterStarts, core
<1>5. ASSUME NEW m \in Inbound, Push(m)
      PROVE  RunsAreDelivered' /\ OneRunPerMessage'
  BY <1>5, QuietRuns DEF Push, core
<1>6. ASSUME NEW m \in ChannelMessages,
             RenderReply(m) \/ Register(m) \/ SendReply(m) \/ Report(m) \/ ConfirmDraft(m) \/ SendDraft(m)
      PROVE  RunsAreDelivered' /\ OneRunPerMessage'
  BY <1>6, QuietRuns DEF RenderReply, Register, SendReply, Report, ConfirmDraft, SendDraft, core
<1>7. CASE UNCHANGED channelVars
  BY <1>7, QuietRuns DEF channelVars
<1> QED BY <1>1, <1>2, <1>3, <1>4, <1>5, <1>6, <1>7 DEF ChannelNext

-----------------------------------------------------------------------------
(* One reply: only Register, SendReply, Report, ConfirmDraft and SendDraft move it. *)
LEMMA OneReply ==
    ASSUME SendersKnown, ReplySentOnce, NEW m \in ChannelMessages,
           \A n \in ChannelMessages : n # m =>
               /\ answers'[n] = answers[n] /\ sent'[n] = sent[n]
               /\ n \in adapter'.sending => n \in adapter.sending
               /\ n \in adapter'.reporting => n \in adapter.reporting
               /\ n \in drafts' => n \in drafts,
           m \in adapter'.sending => answers'[m] = "pending" /\ sent'[m] = 0 /\ m \notin drafts',
           m \in drafts' => answers'[m] = "pending" /\ sent'[m] = 0,
           m \in adapter'.reporting => sent'[m] = 1 /\ answers'[m] # None,
           sent'[m] <= 1, answers'[m] = "delivered" => sent'[m] = 1,
           answers'[m] \in {None, "draft"} => sent'[m] = 0
    PROVE  SendersKnown' /\ ReplySentOnce'
<1>1. ASSUME NEW n \in ChannelMessages
      PROVE  /\ n \in adapter'.sending => answers'[n] = "pending" /\ sent'[n] = 0 /\ n \notin drafts'
             /\ n \in drafts' => answers'[n] = "pending" /\ sent'[n] = 0
             /\ n \in adapter'.reporting => sent'[n] = 1 /\ answers'[n] # None
             /\ sent'[n] <= 1
             /\ answers'[n] = "delivered" => sent'[n] = 1
             /\ answers'[n] \in {None, "draft"} => sent'[n] = 0
  <2>1. CASE n = m
    BY <2>1
  <2>2. CASE n # m
    BY <2>2 DEF SendersKnown, ReplySentOnce
  <2> QED BY <2>1, <2>2
<1> QED BY <1>1 DEF SendersKnown, ReplySentOnce

LEMMA SendersStep ==
    ChannelTypes /\ SendersKnown /\ ReplySentOnce /\ [ChannelNext]_channelVars
       => SendersKnown' /\ ReplySentOnce'
<1> SUFFICES ASSUME ChannelTypes, SendersKnown, ReplySentOnce, [ChannelNext]_channelVars
             PROVE  SendersKnown' /\ ReplySentOnce'
  OBVIOUS
<1>t. /\ adapter \in AdapterType /\ answers \in [ChannelMessages -> Status]
      /\ sent \in [ChannelMessages -> Nat]
  BY DEF ChannelTypes
<1>d. Down.sending = {} /\ Down.reporting = {}
  BY FreshTypes
<1>k. ASSUME NEW m \in ChannelMessages
      PROVE  /\ m \in adapter.sending => answers[m] = "pending" /\ sent[m] = 0 /\ m \notin drafts
             /\ m \in drafts => answers[m] = "pending" /\ sent[m] = 0
             /\ m \in adapter.reporting => sent[m] = 1 /\ answers[m] # None
             /\ sent[m] <= 1 /\ sent[m] \in Nat
             /\ answers[m] = "delivered" => sent[m] = 1
             /\ answers[m] \in {None, "draft"} => sent[m] = 0
  BY <1>t DEF SendersKnown, ReplySentOnce
<1>1. ASSUME NEW m \in ChannelMessages, Register(m)
      PROVE  SendersKnown' /\ ReplySentOnce'
  <2>1. CASE m \in Inbound /\ answers[m] = None
    <3>1. /\ answers' = [answers EXCEPT ![m] = IF autoReply THEN "pending" ELSE "draft"]
          /\ adapter'.sending = (IF autoReply THEN adapter.sending \cup {m} ELSE adapter.sending)
          /\ adapter'.reporting = adapter.reporting /\ sent' = sent /\ drafts' = drafts
      BY <1>1, <1>t, <2>1 DEF Register, AdapterType, IsNew
    <3>2. /\ answers'[m] = "pending" \/ (answers'[m] = "draft" /\ ~autoReply)
          /\ \A n \in ChannelMessages : n # m => answers'[n] = answers[n]
      BY <1>t, <3>1
    <3>3. m \notin drafts /\ m \notin adapter.reporting /\ m \notin adapter.sending /\ sent[m] = 0
      BY <1>k, <2>1 DEF None
    <3> HIDE DEF None
    <3> QED BY <3>1, <3>2, <3>3, OneReply DEF None
  <2>2. CASE ~(m \in Inbound /\ answers[m] = None)
    BY <1>1, <1>t, <2>2, QuietKeeps DEF Register, AdapterType, IsNew, NothingNew
  <2> QED BY <2>1, <2>2
<1>2. ASSUME NEW m \in ChannelMessages, SendReply(m)
      PROVE  SendersKnown' /\ ReplySentOnce'
  <2>0. m \in adapter.sending /\ drafts' = drafts
    BY <1>2 DEF SendReply
  <2>k. answers[m] = "pending" /\ sent[m] = 0 /\ m \notin drafts
    BY <1>k, <2>0
  <2>1. CASE adapter' = Down /\ answers' = [answers EXCEPT ![m] = "failed"] /\ sent' = sent
    BY <1>t, <1>d, <2>0, <2>1, <2>k, OneReply DEF None
  <2>2. CASE /\ adapter' = [adapter EXCEPT !.sending = @ \ {m}, !.reporting = @ \cup {m}]
             /\ sent' = [sent EXCEPT ![m] = @ + 1] /\ answers' = answers
    <3>1. /\ adapter'.sending = adapter.sending \ {m} /\ adapter'.reporting = adapter.reporting \cup {m}
          /\ sent'[m] = 1 /\ \A n \in ChannelMessages : n # m => sent'[n] = sent[n]
      BY <1>t, <2>2, <2>k DEF AdapterType
    <3> QED BY <2>0, <2>2, <2>k, <3>1, OneReply DEF None
  <2> QED BY <1>2, <2>1, <2>2 DEF SendReply
<1>3. ASSUME NEW m \in ChannelMessages, Report(m)
      PROVE  SendersKnown' /\ ReplySentOnce'
  <2>0. m \in adapter.reporting /\ drafts' = drafts /\ sent' = sent
    BY <1>3 DEF Report
  <2>k. sent[m] = 1 /\ m \notin drafts /\ m \notin adapter.sending
    BY <1>k, <2>0
  <2>1. PICK v \in {"pending", "delivered", "failed"} : answers' = [answers EXCEPT ![m] = v]
    BY <1>3 DEF Report
  <2>2. /\ adapter'.sending \subseteq adapter.sending
        /\ adapter'.reporting \subseteq adapter.reporting
    BY <1>3, <1>t, <1>d DEF Report, AdapterType
  <2>3. answers'[m] = v /\ \A n \in ChannelMessages : n # m => answers'[n] = answers[n]
    BY <1>t, <2>1
  <2> QED BY <2>0, <2>k, <2>2, <2>3, OneReply DEF None
<1>4. ASSUME NEW m \in ChannelMessages, ConfirmDraft(m)
      PROVE  SendersKnown' /\ ReplySentOnce'
  <2>0. /\ answers[m] = "draft" /\ answers' = [answers EXCEPT ![m] = "pending"]
        /\ drafts' = drafts \cup {m} /\ UNCHANGED <<adapter, sent>>
    BY <1>4 DEF ConfirmDraft
  <2>k. sent[m] = 0 /\ m \notin adapter.sending /\ m \notin adapter.reporting
    BY <1>k, <2>0
  <2>3. answers'[m] = "pending" /\ \A n \in ChannelMessages : n # m => answers'[n] = answers[n]
    BY <1>t, <2>0
  <2> QED BY <2>0, <2>k, <2>3, OneReply DEF None
<1>5. ASSUME NEW m \in ChannelMessages, SendDraft(m)
      PROVE  SendersKnown' /\ ReplySentOnce'
  <2>0. m \in drafts /\ drafts' = drafts \ {m} /\ UNCHANGED adapter
    BY <1>5 DEF SendDraft
  <2>k. /\ answers[m] = "pending" /\ sent[m] = 0
        /\ m \notin adapter.sending /\ m \notin adapter.reporting
    BY <1>k, <2>0
  <2>1. CASE /\ sent' = [sent EXCEPT ![m] = @ + 1]
             /\ answers' \in {answers, [answers EXCEPT ![m] = "delivered"], [answers EXCEPT ![m] = "failed"]}
    <3>1. sent'[m] = 1 /\ \A n \in ChannelMessages : n # m => sent'[n] = sent[n]
      BY <1>t, <2>1, <2>k
    <3>2. /\ answers'[m] \in {"pending", "delivered", "failed"}
          /\ \A n \in ChannelMessages : n # m => answers'[n] = answers[n]
      BY <1>t, <2>1, <2>k
    <3> QED BY <2>0, <2>k, <3>1, <3>2, OneReply DEF None
  <2>2. CASE sent' = sent /\ answers' = [answers EXCEPT ![m] = "failed"]
    <3>1. /\ answers'[m] = "failed"
          /\ \A n \in ChannelMessages : n # m => answers'[n] = answers[n]
      BY <1>t, <2>2
    <3> QED BY <2>0, <2>2, <2>k, <3>1, OneReply DEF None
  <2> QED BY <1>5, <2>1, <2>2 DEF SendDraft
<1>6. ASSUME NEW m \in ChannelMessages, RenderReply(m)
      PROVE  SendersKnown' /\ ReplySentOnce'
  BY <1>6, <1>t, QuietKeeps DEF RenderReply, AdapterType, NothingNew, core
<1>7. ASSUME NEW m \in Inbound, Push(m)
      PROVE  SendersKnown' /\ ReplySentOnce'
  BY <1>7, <1>t, QuietKeeps DEF Push, AdapterType, NothingNew, core
<1>8. ASSUME NEW m \in Inbound, PostInbound(m)
      PROVE  SendersKnown' /\ ReplySentOnce'
  <2> DEFINE a == [adapter EXCEPT !.posting = @ \ {m}]
  <2>1. a \in AdapterType /\ a.sending = adapter.sending /\ a.reporting = adapter.reporting
    BY <1>t DEF AdapterType
  <2>2. adapter' \in {a, Noticed(a)} /\ UNCHANGED <<answers, drafts, sent>>
    BY <1>8 DEF PostInbound
  <2> HIDE DEF a
  <2> QED BY <2>1, <2>2, NoticedTypes, QuietKeeps DEF NothingNew
<1>9. ASSUME NEW m \in Local, WriteLocal(m)
      PROVE  SendersKnown' /\ ReplySentOnce'
  BY <1>9, <1>t, NoticedTypes, QuietKeeps DEF WriteLocal, NothingNew
<1>10. CASE ReplyCompletes
  BY <1>10, <1>t, NoticedTypes, QuietKeeps DEF ReplyCompletes, NothingNew
<1>11. CASE SaveSeen \/ SwitchAutoReply
  BY <1>11, QuietKeeps DEF SaveSeen, SwitchAutoReply, NothingNew, core
<1>12. CASE PauseAdapter \/ ReadSession
  BY <1>12, <1>t, QuietKeeps DEF PauseAdapter, ReadSession, AdapterType, NothingNew, core
<1>13. CASE AdapterDies \/ AdapterStarts
  <2>1. adapter'.sending = {} /\ adapter'.reporting = {}
    BY <1>13 DEF AdapterDies, AdapterStarts, Fresh, Down
  <2> QED BY <1>13, <2>1, QuietKeeps DEF AdapterDies, AdapterStarts, NothingNew, core
<1>14. CASE UNCHANGED channelVars
  BY <1>14, QuietKeeps DEF channelVars, NothingNew
<1> QED BY <1>1, <1>2, <1>3, <1>4, <1>5, <1>6, <1>7, <1>8, <1>9, <1>10, <1>11, <1>12, <1>13,
           <1>14 DEF ChannelNext

-----------------------------------------------------------------------------
LEMMA NextInv ==
    ASSUME Disjoint
    PROVE  ChannelInv /\ [ChannelNext]_channelVars => ChannelInv'
  BY TypesStep, RunsStep, SendersStep DEF ChannelInv

LEMMA InvPromises == ChannelInv => ChannelOK /\ OneRunPerMessage /\ ReplySentOnce
<1>1. ASSUME ChannelTypes
      PROVE  ToSet(order) \subseteq ChannelMessages
  BY <1>1 DEF ChannelTypes, ToSet
<1> QED BY <1>1 DEF ChannelInv, ChannelTypes, ChannelOK

(* The inductive invariant holds throughout. *)
THEOREM ChannelInvariance ==
    ASSUME Disjoint
    PROVE  ChannelSpec => []ChannelInv
<1>1. ChannelInv /\ [ChannelNext]_channelVars => ChannelInv'
  BY NextInv
<1> QED BY InitInv, <1>1, PTL DEF ChannelSpec

(* However often the platform delivers a message and whatever dies, there is at most *)
(* one run for it (createChannelDelivery and the inbound route).                     *)
THEOREM OneRunForAMessage ==
    ASSUME Disjoint
    PROVE  ChannelSpec => []OneRunPerMessage
  BY ChannelInvariance, InvPromises, PTL

(* The buyer gets a reply at most once, and a delivery says so truly (the outbound   *)
(* route, the sending of the adapter and the drafts of the administrator).           *)
THEOREM OneReplyForAMessage ==
    ASSUME Disjoint
    PROVE  ChannelSpec => []ReplySentOnce
  BY ChannelInvariance, InvPromises, PTL

(************************* The service and its calls ***********************)
LinkRecord == [loop : {"none", "token", "opening", "open", "waiting", "ended"},
               sock : {"none", "connecting", "open", "closing"},
               stopping : BOOLEAN, enabled : BOOLEAN, connected : BOOLEAN,
               authenticated : BOOLEAN, account : Cookies]
PollRecord == [at : Working \cup {"none", "done"}, code : {"none", "new", "scanned", "confirmed"}]
LoginRecord ==
    [status : Shown \cup {"pending_login", "expired", "authenticated", "failed"}, running : BOOLEAN]

(* Between attempts there is no socket in use. *)
SocketOfAttempt == link.loop \in {"none", "token", "waiting", "ended"} => link.sock = "none"

OneLogin ==
    ~odd.overlapped =>
        /\ \A p, q \in Logins : Busy(p) /\ Busy(q) => p = q
        /\ \A p \in Logins : Busy(p) => login.status # "authenticated"
        /\ \A p \in Logins : At(p, "persisting") => jar = p

LinkTypes ==
    /\ started \in BOOLEAN /\ link \in LinkRecord /\ closing \in Nat
    /\ jar \in Cookies /\ odd \in [overlapped : BOOLEAN, late : BOOLEAN]
LoginTypes ==
    /\ login \in LoginRecord /\ polls \in [Logins -> PollRecord]
    /\ saved \in Cookies /\ died \in Nat

LinkInv == LinkTypes /\ StartedRuns /\ OneAccount /\ ConnectedTells /\ SocketOfAttempt
LoginInv == LoginTypes /\ StatusTells /\ OneLogin
ServiceInv == LinkInv /\ LoginInv

-----------------------------------------------------------------------------
LEMMA CookieTypes ==
    ASSUME MaxLogins \in Nat
    PROVE  /\ NoCookie \in Cookies /\ Configured \in Cookies /\ Configured # NoCookie
           /\ \A p \in Logins : p \in Cookies /\ p # NoCookie
BY DEF NoCookie, Configured, Cookies, Logins

(* The link of an adapter that is not started, and of one that begins. *)
LEMMA IdleTypes ==
    ASSUME MaxLogins \in Nat
    PROVE  /\ Idle \in LinkRecord
           /\ Idle.loop = "none" /\ Idle.sock = "none" /\ Idle.connected = FALSE
BY CookieTypes DEF Idle, LinkRecord

LEMMA BegunTypes ==
    ASSUME MaxLogins \in Nat, NEW c \in Cookies
    PROVE  /\ Begun(c) \in LinkRecord /\ Begun(c).account = c
           /\ Begun(c).loop = "token" /\ Begun(c).sock = "none" /\ Begun(c).connected = FALSE
BY IdleTypes DEF Begun, Idle, LinkRecord

(* What the end of the loop leaves, whoever waits for it. *)
LEMMA LoopEnds ==
    ASSUME MaxLogins \in Nat, LinkTypes, LoginTypes, NEW l \in LinkRecord, NEW more \in SUBSET Logins,
           StopsReturn(l, more)
    PROVE  /\ started' = FALSE /\ link' = Idle
           /\ jar' \in Cookies
           /\ polls' \in [Logins -> PollRecord]
           /\ \A p \in Logins : polls'[p].at = IF At(p, "stopping") \/ p \in more THEN "persisting"
                                               ELSE polls[p].at
           /\ \/ jar' = jar /\ \A p \in Logins : ~At(p, "stopping") /\ p \notin more
              \/ jar' \in Logins /\ (At(jar', "stopping") \/ jar' \in more)
<1>1. started' = FALSE /\ link' = Idle
  BY DEF StopsReturn, LinkRecord, Idle
<1>2. polls' \in [Logins -> PollRecord]
  BY DEF StopsReturn, LoginTypes, PollRecord, Working
<1>3. \A p \in Logins : polls'[p].at = IF At(p, "stopping") \/ p \in more THEN "persisting"
                                       ELSE polls[p].at
  BY DEF StopsReturn, LoginTypes, PollRecord, At
<1>4. \/ jar' = jar /\ \A p \in Logins : ~At(p, "stopping") /\ p \notin more
      \/ jar' \in Logins /\ (At(jar', "stopping") \/ jar' \in more)
  BY DEF StopsReturn
<1>5. jar' \in Cookies
  BY <1>4, CookieTypes DEF LinkTypes
<1> QED BY <1>1, <1>2, <1>3, <1>4, <1>5

(* So the connection's part of the invariant holds after it. *)
LEMMA LoopEndsLink ==
    ASSUME MaxLogins \in Nat, started' = FALSE, link' = Idle, jar' \in Cookies, closing' \in Nat,
           odd' \in [overlapped : BOOLEAN, late : BOOLEAN]
    PROVE  LinkInv'
BY IdleTypes DEF LinkInv, LinkTypes, StartedRuns, OneAccount, ConnectedTells, SocketOfAttempt

(* And the part of the logins, when those that waited are the only ones    *)
(* that change, or one that had its cookie.                                *)
LEMMA LoopEndsLogin ==
    ASSUME MaxLogins \in Nat, LinkTypes, LoginInv, NEW more \in SUBSET Logins,
           \A p \in more : Busy(p),
           polls' \in [Logins -> PollRecord],
           \A p \in Logins : polls'[p].at = IF At(p, "stopping") \/ p \in more THEN "persisting"
                                            ELSE polls[p].at,
           \/ jar' = jar /\ \A p \in Logins : ~At(p, "stopping") /\ p \notin more
           \/ jar' \in Logins /\ (At(jar', "stopping") \/ jar' \in more),
           login' = login, UNCHANGED <<saved, died>>,
           odd'.overlapped = odd.overlapped
    PROVE  LoginInv'
<1>1. \A p \in Logins : Busy(p) <=> Busy(p)'
  BY DEF Busy, At, Working
<1>2. LoginTypes'
  BY DEF LoginInv, LoginTypes
<1>3. ASSUME ~odd.overlapped, NEW p \in Logins, (Busy(p))', jar' # jar
      PROVE  jar' = p
  <2>1. Busy(p) /\ jar' \in Logins /\ (At(jar', "stopping") \/ jar' \in more)
    BY <1>1, <1>3
  <2>2. Busy(jar')
    BY <2>1 DEF Busy, At, Working
  <2> QED BY <2>1, <2>2, <1>3 DEF LoginInv, OneLogin
<1>4. OneLogin'
  <2> SUFFICES ASSUME ~odd.overlapped PROVE OneLogin'
    BY DEF OneLogin
  <2>1. \A p, q \in Logins : (Busy(p))' /\ (Busy(q))' => p = q
    BY <1>1 DEF LoginInv, OneLogin
  <2>2. \A p \in Logins : (Busy(p))' => login'.status # "authenticated"
    BY <1>1 DEF LoginInv, OneLogin
  <2>3. ASSUME NEW p \in Logins, polls'[p].at = "persisting" PROVE jar' = p
    <3>1. (Busy(p))'
      BY <2>3 DEF Busy, Working
    <3>2. CASE jar' = jar
      <4>1. CASE \A r \in Logins : ~At(r, "stopping") /\ r \notin more
        BY <4>1, <3>2, <2>3 DEF LoginInv, OneLogin, At
      <4>2. CASE jar' \in Logins /\ (At(jar', "stopping") \/ jar' \in more)
        <5>1. Busy(jar')
          BY <4>2 DEF Busy, At, Working
        <5>2. Busy(p)
          BY <3>1, <1>1
        <5> QED BY <5>1, <5>2, <4>2 DEF LoginInv, OneLogin
      <4> QED BY <4>1, <4>2
    <3> QED BY <3>1, <3>2, <1>3
  <2> QED BY <2>1, <2>2, <2>3 DEF OneLogin, At, Busy
<1>5. StatusTells'
  <2>1. login.status \in Shown \/ login.running => \E p \in Logins : (Busy(p))'
    BY <1>1 DEF LoginInv, StatusTells
  <2>2. ASSUME login.status = "authenticated", ~odd.overlapped PROVE jar' = jar
    <3>1. \A p \in Logins : ~Busy(p)
      BY <2>2 DEF LoginInv, OneLogin
    <3> QED BY <3>1 DEF Busy, At, Working
  <2> QED BY <2>1, <2>2 DEF LoginInv, StatusTells, Busy
<1> QED BY <1>2, <1>4, <1>5 DEF LoginInv

(* A step that leaves the logins alone. *)
LEMMA LoginsStand ==
    ASSUME LoginInv, UNCHANGED <<login, polls, jar, saved, died>>, odd'.overlapped = odd.overlapped
    PROVE  LoginInv'
BY DEF LoginInv, LoginTypes, StatusTells, OneLogin, Busy, At

(* One login changes its place, and maybe the status. *)
LEMMA LoginMoves ==
    ASSUME LoginInv, NEW p \in Logins, Busy(p), NEW place \in PollRecord,
           polls' = [polls EXCEPT ![p] = place], login' \in LoginRecord,
           UNCHANGED <<jar, saved, died>>, odd'.overlapped = odd.overlapped,
           login'.status # "authenticated",
           place.at \in Working => place.at # "persisting",
           place.at \notin Working => login'.status \notin Shown /\ ~login'.running
    PROVE  LoginInv'
<1>1. LoginTypes'
  BY DEF LoginInv, LoginTypes
<1>2. /\ polls'[p].at = place.at
      /\ \A q \in Logins : q # p => polls'[q] = polls[q]
  BY DEF LoginInv, LoginTypes
<1>3. \A q \in Logins : (Busy(q))' => Busy(q)
  BY <1>2 DEF Busy
<1>4. StatusTells'
  BY <1>2 DEF StatusTells, Busy
<1>5. OneLogin'
  BY <1>2, <1>3 DEF LoginInv, OneLogin, At, Busy, Working
<1> QED BY <1>1, <1>4, <1>5 DEF LoginInv

(* start of the adapter with the cookie in memory. *)
LEMMA LinkBegins ==
    ASSUME MaxLogins \in Nat, LinkInv, StartAdapter(jar), UNCHANGED <<jar, closing, odd>>
    PROVE  LinkInv'
<1>1. CASE started
  BY <1>1 DEF StartAdapter, LinkInv, LinkTypes, StartedRuns, OneAccount, ConnectedTells,
     SocketOfAttempt
<1>2. CASE ~started
  <2>1. started' = TRUE /\ link' = Begun(jar)
    BY <1>2 DEF StartAdapter
  <2> QED BY <2>1, BegunTypes DEF LinkInv, LinkTypes, StartedRuns, OneAccount, ConnectedTells,
          SocketOfAttempt
<1> QED BY <1>1, <1>2

(* stop of the adapter, while the adapter is started. *)
LEMMA AdapterStops ==
    ASSUME MaxLogins \in Nat, ServiceInv, started, NEW callers \in SUBSET Logins,
           \A p \in callers : Busy(p), StopAdapter(callers),
           UNCHANGED <<closing, login, saved, odd, died>>
    PROVE  ServiceInv'
<1>1. CASE link.loop \in {"waiting", "ended"}
  <2>1. StopsReturn(link, callers)
    BY <1>1 DEF StopAdapter
  <2>2. LinkTypes /\ LoginTypes /\ LoginInv /\ link \in LinkRecord
    BY DEF ServiceInv, LinkInv, LoginInv, LinkTypes
  <2>3. LinkInv'
    BY <2>1, <2>2, LoopEnds, LoopEndsLink DEF LinkTypes
  <2>4. LoginInv'
    BY <2>1, <2>2, LoopEnds, LoopEndsLogin
  <2> QED BY <2>3, <2>4 DEF ServiceInv
<1>2. CASE link.loop \notin {"waiting", "ended"}
  <2>1. /\ link' = Stopped(link) /\ UNCHANGED <<started, jar>>
        /\ polls' = [p \in Logins |-> IF p \in callers THEN [polls[p] EXCEPT !.at = "stopping"]
                                      ELSE polls[p]]
    BY <1>2 DEF StopAdapter
  <2>2. /\ link' \in LinkRecord /\ link'.loop = link.loop /\ link'.connected = link.connected
        /\ link'.account = link.account
        /\ link'.sock = IF link.sock = "none" THEN "none" ELSE "closing"
    BY <2>1 DEF ServiceInv, LinkInv, LinkTypes, Stopped, LinkRecord
  <2>3. LinkInv'
    BY <2>1, <2>2 DEF ServiceInv, LinkInv, LinkTypes, StartedRuns, OneAccount, ConnectedTells,
       SocketOfAttempt, LinkRecord
  <2>4. polls' \in [Logins -> PollRecord]
    BY <2>1 DEF ServiceInv, LoginInv, LoginTypes, PollRecord, Working
  <2>5. \A p \in Logins : polls'[p].at = IF p \in callers THEN "stopping" ELSE polls[p].at
    BY <2>1 DEF ServiceInv, LoginInv, LoginTypes, PollRecord
  <2>6. \A p \in Logins : /\ (Busy(p))' <=> Busy(p)
                          /\ (At(p, "persisting"))' => At(p, "persisting")
    BY <2>5 DEF Busy, At, Working
  <2>7. LoginInv'
    BY <2>1, <2>4, <2>6 DEF ServiceInv, LoginInv, LoginTypes, StatusTells, OneLogin
  <2> QED BY <2>3, <2>7 DEF ServiceInv
<1> QED BY <1>1, <1>2

(* The loop after an attempt that failed. *)
LEMMA AttemptFails ==
    ASSUME MaxLogins \in Nat, ServiceInv, link.loop # "none", NEW l \in LinkRecord,
           l.account = link.account, Retry(l),
           closing' \in Nat, l.connected => closing' > 0,
           odd' \in [overlapped : BOOLEAN, late : BOOLEAN], odd'.overlapped = odd.overlapped,
           UNCHANGED <<login, saved, died>>
    PROVE  ServiceInv'
<1>0. LinkTypes /\ LoginTypes /\ LoginInv
  BY DEF ServiceInv, LinkInv, LoginInv
<1>1. CASE link.stopping
  <2> DEFINE more == {}
  <2>1. StopsReturn(l, more) /\ more \in SUBSET Logins /\ \A p \in more : Busy(p)
    BY <1>1 DEF Retry
  <2> HIDE DEF more
  <2>2. /\ started' = FALSE /\ link' = Idle /\ jar' \in Cookies
        /\ polls' \in [Logins -> PollRecord]
        /\ \A p \in Logins : polls'[p].at = IF At(p, "stopping") \/ p \in more THEN "persisting"
                                            ELSE polls[p].at
        /\ \/ jar' = jar /\ \A p \in Logins : ~At(p, "stopping") /\ p \notin more
           \/ jar' \in Logins /\ (At(jar', "stopping") \/ jar' \in more)
    BY <2>1, <1>0, LoopEnds
  <2>3. LinkInv'
    BY <2>2, LoopEndsLink
  <2>4. LoginInv'
    <3>1. login' = login /\ UNCHANGED <<saved, died>> /\ odd'.overlapped = odd.overlapped
      OBVIOUS
    <3> QED BY ONLY <1>0, <2>1, <2>2, <3>1, MaxLogins \in Nat, LoopEndsLogin
  <2> QED BY <2>3, <2>4 DEF ServiceInv
<1>2. CASE ~link.stopping
  <2>1. link' = [l EXCEPT !.loop = "waiting", !.sock = "none"] /\ UNCHANGED <<started, polls, jar>>
    BY <1>2 DEF Retry
  <2>2. /\ link' \in LinkRecord /\ link'.loop = "waiting" /\ link'.sock = "none"
        /\ link'.connected = l.connected /\ link'.account = l.account
    BY <2>1 DEF LinkRecord
  <2>3. started
    BY DEF ServiceInv, LinkInv, StartedRuns
  <2>4. LinkInv'
    BY <2>1, <2>2, <2>3, <1>0 DEF ServiceInv, LinkInv, LinkTypes, StartedRuns, OneAccount,
       ConnectedTells, SocketOfAttempt
  <2>5. LoginInv'
    BY <2>1, <1>0, LoginsStand
  <2> QED BY <2>4, <2>5 DEF ServiceInv
<1> QED BY <1>1, <1>2

-----------------------------------------------------------------------------
LEMMA InitHolds ==
    ASSUME MaxLogins \in Nat, ServiceInit
    PROVE  ServiceInv
<1>1. saved \in Cookies /\ jar \in Cookies /\ jar = saved /\ started = (jar # NoCookie)
  BY CookieTypes DEF ServiceInit
<1>2. LinkInv
  <2>1. CASE jar = NoCookie
    <3>1. link = Idle /\ started = FALSE
      BY <1>1, <2>1 DEF ServiceInit, LinkUp
    <3> QED BY <3>1, <1>1, IdleTypes DEF ServiceInit, LinkInv, LinkTypes, StartedRuns, OneAccount,
            ConnectedTells, SocketOfAttempt
  <2>2. CASE jar # NoCookie
    <3>1. link = Begun(jar) /\ started = TRUE
      BY <1>1, <2>2 DEF ServiceInit, LinkUp
    <3> QED BY <3>1, <1>1, BegunTypes DEF ServiceInit, LinkInv, LinkTypes, StartedRuns, OneAccount,
            ConnectedTells, SocketOfAttempt
  <2> QED BY <2>1, <2>2
<1>3. /\ polls \in [Logins -> PollRecord] /\ \A p \in Logins : polls[p].at = "none"
      /\ login = LoginUp(jar) /\ died \in Nat
  BY DEF ServiceInit, PollRecord, Working
<1>4. LoginInv
  BY <1>1, <1>3 DEF LoginInv, LoginTypes, LoginRecord, LoginUp, StatusTells, OneLogin, Busy, At,
     Working, Shown
<1> QED BY <1>2, <1>4 DEF ServiceInv

LEMMA RestartKeeps ==
    ASSUME MaxLogins \in Nat, ServiceInv, ServiceRestarts
    PROVE  ServiceInv'
<1>1. saved \in Cookies /\ jar' = saved /\ started' = (saved # NoCookie) /\ saved' = saved
  BY DEF ServiceInv, LoginInv, LoginTypes, ServiceRestarts
<1>2. LinkInv'
  <2>1. CASE saved = NoCookie
    <3>1. link' = Idle /\ started' = FALSE
      BY <1>1, <2>1 DEF ServiceRestarts, LinkUp
    <3> QED BY <3>1, <1>1, IdleTypes DEF ServiceRestarts, LinkInv, LinkTypes, StartedRuns,
            OneAccount, ConnectedTells, SocketOfAttempt
  <2>2. CASE saved # NoCookie
    <3>1. link' = Begun(saved) /\ started' = TRUE
      BY <1>1, <2>2 DEF ServiceRestarts, LinkUp
    <3> QED BY <3>1, <1>1, BegunTypes DEF ServiceRestarts, LinkInv, LinkTypes, StartedRuns,
            OneAccount, ConnectedTells, SocketOfAttempt
  <2> QED BY <2>1, <2>2
<1>3. /\ polls' \in [Logins -> PollRecord] /\ \A p \in Logins : polls'[p].at \in {"none", "done"}
      /\ login' = LoginUp(saved) /\ died' \in Nat
  BY DEF ServiceInv, LoginInv, LoginTypes, ServiceRestarts, PollRecord, Working, At
<1>4. LoginInv'
  BY <1>1, <1>3 DEF LoginInv, LoginTypes, LoginRecord, LoginUp, StatusTells, OneLogin, Busy, At,
     Working, Shown
<1> QED BY <1>2, <1>4 DEF ServiceInv

-----------------------------------------------------------------------------
(* The steps of the connection. *)
LEMMA ConnectionKeeps ==
    ASSUME MaxLogins \in Nat, ServiceInv,
           \/ RequestStart \/ RequestStop \/ TokenArrives \/ TokenFails \/ TokenRefused
           \/ Opens \/ Closes \/ GivesUp \/ OldSocketCloses \/ TriesAgain
    PROVE  ServiceInv'
<1>0. LinkTypes /\ LoginTypes /\ LoginInv /\ link \in LinkRecord
  BY DEF ServiceInv, LinkInv, LoginInv, LinkTypes
<1>1. CASE RequestStart
  BY <1>0, <1>1, LinkBegins, LoginsStand DEF RequestStart, loginState, ServiceInv
<1>2. CASE RequestStop
  BY <1>0, <1>2, AdapterStops DEF RequestStop
<1>3. CASE TokenArrives
  <2>1. /\ link' \in LinkRecord /\ link'.loop = "opening" /\ link'.sock = "connecting"
        /\ link'.account = link.account /\ link'.connected = link.connected /\ link.sock = "none"
        /\ started
    BY <1>3 DEF TokenArrives, ServiceInv, LinkInv, LinkTypes, LinkRecord, SocketOfAttempt,
       StartedRuns
  <2>2. UNCHANGED <<started, closing, login, polls, jar, saved, odd, died>>
    BY <1>3 DEF TokenArrives, loginState
  <2>3. LinkInv'
    BY <2>1, <2>2 DEF ServiceInv, LinkInv, LinkTypes, StartedRuns, OneAccount, ConnectedTells,
       SocketOfAttempt
  <2> QED BY <1>0, <2>2, <2>3, LoginsStand DEF ServiceInv
<1>4. CASE TokenFails
  <2>1. link.sock = "none" /\ (link.connected => closing > 0)
    BY <1>4 DEF TokenFails, ServiceInv, LinkInv, SocketOfAttempt, ConnectedTells
  <2> QED BY <1>0, <1>4, <2>1, AttemptFails DEF TokenFails, ServiceInv, LinkInv, LinkTypes
<1>5. CASE TokenRefused
  <2>1. /\ link.loop = "token" /\ link.sock = "none" /\ (link.connected => closing > 0) /\ started
        /\ UNCHANGED <<closing, saved, odd, died>>
    BY <1>5 DEF TokenRefused, ServiceInv, LinkInv, SocketOfAttempt, ConnectedTells, StartedRuns
  <2>2. CASE link.stopping
    <3>1. Retry(link) /\ UNCHANGED login
      BY <1>5, <2>2 DEF TokenRefused, Retry
    <3> QED BY <1>0, <2>1, <3>1, AttemptFails DEF LinkTypes
  <2>3. CASE ~link.stopping /\ jar = NoCookie
    <3>1. /\ link' = [link EXCEPT !.loop = "ended", !.authenticated = FALSE, !.enabled = FALSE]
          /\ UNCHANGED <<started, polls, jar, login>>
      BY <1>5, <2>3 DEF TokenRefused
    <3>2. /\ link' \in LinkRecord /\ link'.loop = "ended" /\ link'.sock = "none"
          /\ link'.account = link.account /\ link'.connected = link.connected
      BY <1>0, <2>1, <3>1 DEF LinkRecord
    <3>3. LinkInv'
      BY <2>1, <2>3, <3>1, <3>2 DEF ServiceInv, LinkInv, LinkTypes, StartedRuns, OneAccount,
         ConnectedTells, SocketOfAttempt
    <3> QED BY <1>0, <2>1, <3>1, <3>3, LoginsStand DEF ServiceInv
  <2>4. CASE ~link.stopping /\ jar # NoCookie
    <3> DEFINE more == {}
    <3>1. /\ StopsReturn(link, more) /\ more \in SUBSET Logins
          /\ login' = [status |-> "expired", running |-> FALSE]
      BY <1>5, <2>4 DEF TokenRefused
    <3>0. more = {}
      OBVIOUS
    <3> HIDE DEF more
    <3>2. /\ started' = FALSE /\ link' = Idle /\ jar' \in Cookies
          /\ polls' \in [Logins -> PollRecord]
          /\ \A p \in Logins : polls'[p].at = IF At(p, "stopping") \/ p \in more THEN "persisting"
                                              ELSE polls[p].at
          /\ \/ jar' = jar /\ \A p \in Logins : ~At(p, "stopping") /\ p \notin more
             \/ jar' \in Logins /\ (At(jar', "stopping") \/ jar' \in more)
      BY <3>1, <1>0, LoopEnds
    <3>3. LinkInv'
      BY <2>1, <3>2, <1>0, LoopEndsLink DEF LinkTypes
    <3>4. LoginTypes' /\ StatusTells'
      BY <1>0, <2>1, <3>1, <3>2 DEF LoginTypes, LoginRecord, StatusTells, Shown
    <3>5. \A p \in Logins : (Busy(p))' => Busy(p)
      BY <3>0, <3>2 DEF Busy, At, Working
    <3>6. OneLogin'
      <4> SUFFICES ASSUME ~odd.overlapped PROVE OneLogin'
        BY <2>1 DEF OneLogin
      <4>1. /\ \A p, q \in Logins : (Busy(p))' /\ (Busy(q))' => p = q
            /\ login'.status # "authenticated"
        BY <1>0, <3>1, <3>5 DEF LoginInv, OneLogin
      <4>2. ASSUME NEW p \in Logins, polls'[p].at = "persisting" PROVE jar' = p
        <5>1. Busy(p)
          BY <4>2, <3>5 DEF Busy, Working
        <5>2. CASE jar' = jar /\ \A q \in Logins : ~At(q, "stopping")
          BY <1>0, <3>0, <3>2, <4>2, <5>2 DEF LoginInv, OneLogin, At
        <5>3. CASE jar' \in Logins /\ At(jar', "stopping")
          <6>1. Busy(jar')
            BY <5>3 DEF Busy, At, Working
          <6> QED BY <1>0, <5>1, <5>3, <6>1 DEF LoginInv, OneLogin
        <5> QED BY <3>0, <3>2, <5>2, <5>3
      <4> QED BY <4>1, <4>2 DEF OneLogin, At, Busy
    <3> QED BY <3>3, <3>4, <3>6 DEF ServiceInv, LoginInv
  <2> QED BY <2>2, <2>3, <2>4
<1>6. CASE Opens
  <2>1. /\ link' \in LinkRecord /\ link'.loop = "open" /\ link'.sock = "open" /\ link'.connected
        /\ link'.account = link.account /\ started
    BY <1>6 DEF Opens, ServiceInv, LinkInv, LinkTypes, LinkRecord, StartedRuns, SocketOfAttempt
  <2>2. UNCHANGED <<started, closing, login, polls, jar, saved, odd, died>>
    BY <1>6 DEF Opens, loginState
  <2>3. LinkInv'
    BY <2>1, <2>2 DEF ServiceInv, LinkInv, LinkTypes, StartedRuns, OneAccount, ConnectedTells,
       SocketOfAttempt
  <2> QED BY <1>0, <2>2, <2>3, LoginsStand DEF ServiceInv
<1>7. CASE Closes
  <2> DEFINE l == [link EXCEPT !.connected = FALSE, !.authenticated = FALSE]
  <2>1. /\ l \in LinkRecord /\ ~l.connected /\ l.account = link.account /\ link.loop # "none"
        /\ Retry(l) /\ UNCHANGED <<closing, login, saved, died>>
        /\ odd' \in [overlapped : BOOLEAN, late : BOOLEAN] /\ odd'.overlapped = odd.overlapped
    BY <1>0, <1>7 DEF Closes, LinkTypes, LinkRecord, ServiceInv, LinkInv, SocketOfAttempt
  <2>2. closing' \in Nat
    BY <1>0, <2>1 DEF LinkTypes
  <2> HIDE DEF l
  <2> QED BY <2>1, <2>2, AttemptFails
<1>8. CASE GivesUp
  <2>1. link.loop # "none" /\ Retry(link) /\ UNCHANGED <<login, saved, died>>
    BY <1>8 DEF GivesUp, ServiceInv, LinkInv, SocketOfAttempt
  <2>2. odd' \in [overlapped : BOOLEAN, late : BOOLEAN] /\ odd'.overlapped = odd.overlapped
    BY <1>0, <1>8 DEF GivesUp, LinkTypes
  <2>3. closing' \in Nat /\ closing' > 0
    BY <1>0, <1>8 DEF GivesUp, LinkTypes
  <2> QED BY <1>0, <2>1, <2>2, <2>3, AttemptFails
<1>9. CASE OldSocketCloses
  <2>1. /\ link' \in LinkRecord /\ ~link'.connected /\ link'.loop = link.loop
        /\ link'.sock = link.sock /\ link'.account = link.account
        /\ UNCHANGED <<started, login, polls, jar, saved, died>>
    BY <1>0, <1>9 DEF OldSocketCloses, LinkRecord, loginState
  <2>2. PICK late \in BOOLEAN : odd' = [odd EXCEPT !.late = late] /\ (link.sock = "open" => late)
    <3>1. odd' = [odd EXCEPT !.late = odd.late \/ link.sock = "open"]
      BY <1>9 DEF OldSocketCloses
    <3>2. (odd.late \/ link.sock = "open") \in BOOLEAN
      OBVIOUS
    <3> QED BY <3>1, <3>2, Zenon
  <2>3. /\ odd' \in [overlapped : BOOLEAN, late : BOOLEAN] /\ odd'.overlapped = odd.overlapped
        /\ (link.sock = "open" => odd'.late)
    BY <1>0, <2>2 DEF LinkTypes
  <2>4. closing' \in Nat
    BY <1>0, <1>9 DEF OldSocketCloses, LinkTypes
  <2>5. ~started => link' = Idle
    <3>1. link' = [link EXCEPT !.connected = FALSE, !.authenticated = FALSE]
      BY <1>9 DEF OldSocketCloses
    <3>2. Idle.connected = FALSE /\ Idle.authenticated = FALSE /\ Idle \in LinkRecord
      BY IdleTypes DEF Idle
    <3>3. [Idle EXCEPT !.connected = FALSE, !.authenticated = FALSE] = Idle
      BY <3>2 DEF LinkRecord
    <3> QED BY <3>1, <3>3 DEF ServiceInv, LinkInv, StartedRuns
  <2>6. LinkInv'
    BY <2>1, <2>3, <2>4, <2>5 DEF ServiceInv, LinkInv, LinkTypes, StartedRuns, OneAccount, ConnectedTells,
       SocketOfAttempt
  <2> QED BY <1>0, <2>1, <2>3, <2>6, LoginsStand DEF ServiceInv
<1>10. CASE TriesAgain
  <2>1. /\ link' \in LinkRecord /\ link'.loop = "token" /\ link'.sock = link.sock
        /\ link.sock = "none" /\ link'.account = jar /\ link'.connected = link.connected
        /\ started
    BY <1>10 DEF TriesAgain, ServiceInv, LinkInv, LinkTypes, LinkRecord, SocketOfAttempt,
       StartedRuns
  <2>2. UNCHANGED <<started, closing, login, polls, jar, saved, odd, died>>
    BY <1>10 DEF TriesAgain, loginState
  <2>3. LinkInv'
    BY <2>1, <2>2 DEF ServiceInv, LinkInv, LinkTypes, StartedRuns, OneAccount, ConnectedTells,
       SocketOfAttempt
  <2> QED BY <1>0, <2>2, <2>3, LoginsStand DEF ServiceInv
<1> QED BY <1>1, <1>2, <1>3, <1>4, <1>5, <1>6, <1>7, <1>8, <1>9, <1>10

(* The steps of a login. *)
LEMMA LoginKeeps ==
    ASSUME MaxLogins \in Nat, ServiceInv, NEW p \in Logins,
           LoginStarts(p) \/ Prepared(p) \/ PollAnswered(p) \/ LoginFinishes(p) \/ Persist(p)
    PROVE  ServiceInv'
<1>0. LinkTypes /\ LoginTypes /\ LinkInv /\ LoginInv
  BY DEF ServiceInv, LinkInv, LoginInv
<1>1. ASSUME UNCHANGED <<started, link, closing, jar>>, odd'.late = odd.late,
             odd' \in [overlapped : BOOLEAN, late : BOOLEAN]
      PROVE  LinkInv'
  BY <1>0, <1>1 DEF LinkInv, LinkTypes, StartedRuns, OneAccount, ConnectedTells, SocketOfAttempt
<1>2. ASSUME NEW status \in {"expired", "failed"}, Ends(p, status), Busy(p),
             UNCHANGED <<jar, saved, died>>, odd'.overlapped = odd.overlapped
      PROVE  LoginInv'
  <2> DEFINE place == [at |-> "done", code |-> "none"]
  <2>1. /\ place \in PollRecord /\ place.at \notin Working
        /\ polls' = [polls EXCEPT ![p] = place]
        /\ login' \in LoginRecord /\ login'.status \notin Shown /\ ~login'.running
        /\ login'.status # "authenticated"
    BY <1>2 DEF PollRecord, LoginRecord, Working, Shown, Ends
  <2> HIDE DEF place
  <2> QED BY <1>0, <1>2, <2>1, LoginMoves
<1>3. ASSUME NEW place \in Working \ {"persisting"}, NEW code \in {"none", "new", "scanned", "confirmed"},
             Goes(p, place, code), Busy(p), login' \in LoginRecord, login'.status # "authenticated",
             UNCHANGED <<jar, saved, died>>, odd'.overlapped = odd.overlapped
      PROVE  LoginInv'
  <2> DEFINE rec == [at |-> place, code |-> code]
  <2>1. /\ rec \in PollRecord /\ rec.at \in Working /\ rec.at # "persisting"
        /\ polls' = [polls EXCEPT ![p] = rec]
    BY <1>3 DEF PollRecord, Goes
  <2> HIDE DEF rec
  <2> QED BY <1>0, <1>3, <2>1, LoginMoves
<1>4. CASE LoginStarts(p)
  <2>1. /\ ~Busy(p) /\ ~login.running /\ login.status # "authenticated"
        /\ login' = [login EXCEPT !.running = TRUE]
        /\ polls' = [polls EXCEPT ![p] = [at |-> "preparing", code |-> "none"]]
        /\ UNCHANGED <<started, link, closing, jar, saved, died>>
    BY <1>4 DEF LoginStarts, At, Busy, Working, Goes
  <2>2. PICK over \in BOOLEAN : /\ odd' = [odd EXCEPT !.overlapped = over]
                                /\ odd.overlapped => over
                                /\ (\E q \in Logins : Busy(q)) => over
    <3>1. odd' = [odd EXCEPT !.overlapped = odd.overlapped \/ \E q \in Logins : Busy(q)]
      BY <1>4 DEF LoginStarts
    <3>2. (odd.overlapped \/ \E q \in Logins : Busy(q)) \in BOOLEAN
      OBVIOUS
    <3> QED BY <3>1, <3>2, Zenon
  <2>3. /\ odd' \in [overlapped : BOOLEAN, late : BOOLEAN] /\ odd'.late = odd.late
        /\ odd'.overlapped = over
    BY <1>0, <2>2 DEF LinkTypes
  <2>4. LinkInv'
    BY <1>1, <2>1, <2>3
  <2>5. /\ polls' \in [Logins -> PollRecord] /\ polls'[p].at = "preparing"
        /\ \A q \in Logins : q # p => polls'[q] = polls[q]
    BY <1>0, <2>1 DEF LoginTypes, PollRecord, Working
  <2>6. login' \in LoginRecord /\ login'.status = login.status
    BY <1>0, <2>1 DEF LoginTypes, LoginRecord
  <2>7. LoginTypes' /\ StatusTells'
    BY <1>0, <2>1, <2>5, <2>6 DEF LoginTypes, StatusTells, Busy, Working
  <2>8. OneLogin'
    BY <2>1, <2>2, <2>3, <2>5, <2>6 DEF OneLogin, Busy, At, Working
  <2> QED BY <2>4, <2>7, <2>8 DEF ServiceInv, LoginInv
<1>5. CASE Prepared(p)
  <2>1. /\ Busy(p) /\ UNCHANGED <<started, link, closing, jar, saved, odd, died>>
        /\ odd' \in [overlapped : BOOLEAN, late : BOOLEAN]
    BY <1>0, <1>5 DEF Prepared, At, Busy, Working, LinkTypes
  <2>2. LinkInv'
    BY <1>1, <2>1
  <2>3. CASE login' = [login EXCEPT !.status = "waiting_scan"] /\ Goes(p, "polling", "none")
    <3>1. login' \in LoginRecord /\ login'.status # "authenticated"
      BY <1>0, <2>3 DEF LoginTypes, LoginRecord, Shown
    <3>2. LoginInv'
      BY <1>3, <2>1, <2>3, <3>1 DEF Working
    <3> QED BY <2>2, <3>2 DEF ServiceInv
  <2>4. CASE Ends(p, "expired") \/ Ends(p, "failed")
    BY <1>2, <2>1, <2>2, <2>4 DEF ServiceInv
  <2> QED BY <1>5, <2>3, <2>4 DEF Prepared
<1>6. CASE PollAnswered(p)
  <2>1. /\ Busy(p) /\ UNCHANGED <<started, link, closing, jar, saved, odd, died>>
        /\ odd' \in [overlapped : BOOLEAN, late : BOOLEAN]
    BY <1>0, <1>6 DEF PollAnswered, At, Busy, Working, LinkTypes
  <2>2. LinkInv'
    BY <1>1, <2>1
  <2>3. ASSUME NEW code \in {"new", "scanned"}, login.running, Goes(p, "polling", code),
               login' = IF code = polls[p].code THEN login
                        ELSE [login EXCEPT !.status = IF code = "scanned" THEN "scanned"
                                                      ELSE "waiting_scan"]
        PROVE  ServiceInv'
    <3>1. login' \in LoginRecord
      BY <1>0, <2>3 DEF LoginTypes, LoginRecord, Shown
    <3>2. CASE login'.status # "authenticated"
      <4>1. LoginInv'
        BY <1>3, <2>1, <2>3, <3>1, <3>2 DEF Working
      <4> QED BY <2>2, <4>1 DEF ServiceInv
    <3>3. CASE login'.status = "authenticated"
      <4>1. login' = login
        BY <1>0, <2>3, <3>3 DEF LoginTypes, LoginRecord
      <4>2. odd.overlapped
        BY <1>0, <2>1, <3>3, <4>1 DEF LoginInv, OneLogin
      <4>3. polls' \in [Logins -> PollRecord] /\ polls'[p].at = "polling"
            /\ \A q \in Logins : q # p => polls'[q] = polls[q]
        BY <1>0, <2>3 DEF LoginTypes, Goes, PollRecord, Working
      <4>4. LoginInv'
        BY <1>0, <2>1, <4>1, <4>2, <4>3 DEF LoginInv, LoginTypes, StatusTells, OneLogin, Busy, Working
      <4> QED BY <2>2, <4>4 DEF ServiceInv
    <3> QED BY <3>2, <3>3
  <2>4. CASE Ends(p, "expired") \/ Ends(p, "failed")
    BY <1>2, <2>1, <2>2, <2>4 DEF ServiceInv
  <2>5. CASE Goes(p, "finishing", "confirmed") /\ login' = [login EXCEPT !.status = "confirmed"]
    <3>1. login' \in LoginRecord /\ login'.status # "authenticated"
      BY <1>0, <2>5 DEF LoginTypes, LoginRecord, Shown
    <3>2. LoginInv'
      BY <1>3, <2>1, <2>5, <3>1 DEF Working
    <3> QED BY <2>2, <3>2 DEF ServiceInv
  <2> QED BY <1>6, <2>3, <2>4, <2>5 DEF PollAnswered
<1>7. CASE LoginFinishes(p)
  <2>1. Busy(p) /\ UNCHANGED <<closing, saved, odd, died>>
        /\ odd' \in [overlapped : BOOLEAN, late : BOOLEAN]
    BY <1>0, <1>7 DEF LoginFinishes, At, Busy, Working, LinkTypes
  <2>2. CASE started /\ StopAdapter({p}) /\ UNCHANGED login
    <3> DEFINE callers == {p}
    <3>1. callers \in SUBSET Logins /\ \A q \in callers : Busy(q)
      BY <2>1
    <3>2. StopAdapter(callers)
      BY <2>2
    <3> HIDE DEF callers
    <3> QED BY <2>1, <2>2, <3>1, <3>2, AdapterStops
  <2>3. CASE ~started /\ jar' = p /\ Goes(p, "persisting", "none") /\ UNCHANGED <<started, link, login>>
    <3>1. LinkInv'
      BY <1>0, <2>1, <2>3, CookieTypes, IdleTypes DEF LinkInv, LinkTypes, StartedRuns, OneAccount,
         ConnectedTells, SocketOfAttempt
    <3>2. /\ polls' \in [Logins -> PollRecord] /\ polls'[p].at = "persisting"
          /\ \A q \in Logins : q # p => polls'[q] = polls[q]
      BY <1>0, <2>3 DEF LoginTypes, Goes, PollRecord, Working
    <3>3. \A q \in Logins : (Busy(q))' <=> Busy(q)
      BY <2>1, <3>2 DEF Busy, Working
    <3>4. LoginTypes' /\ StatusTells'
      <4>1. login.status = "authenticated" => odd.overlapped
        BY <1>0, <2>1 DEF LoginInv, OneLogin
      <4> QED BY <1>0, <2>1, <2>3, <3>2, <3>3, <4>1 DEF LoginInv, LoginTypes, StatusTells
    <3>5. OneLogin'
      BY <1>0, <2>1, <2>3, <3>2, <3>3 DEF LoginInv, OneLogin, At, Busy, Working
    <3> QED BY <3>1, <3>4, <3>5 DEF ServiceInv, LoginInv
  <2>4. CASE Ends(p, "failed") /\ UNCHANGED <<started, link, jar>>
    <3>1. LinkInv' /\ LoginInv'
      BY <1>1, <1>2, <2>1, <2>4
    <3> QED BY <3>1 DEF ServiceInv
  <2> QED BY <1>7, <2>2, <2>3, <2>4 DEF LoginFinishes
<1>8. CASE Persist(p)
  <2>1. /\ At(p, "persisting") /\ Busy(p) /\ UNCHANGED <<closing, jar, odd, died>>
        /\ odd' \in [overlapped : BOOLEAN, late : BOOLEAN]
    BY <1>0, <1>8 DEF Persist, At, Busy, Working, LinkTypes
  <2>2. CASE /\ saved' \in {q \in Logins : At(q, "persisting")}
             /\ StartAdapter(jar)
             /\ Ends(p, "authenticated")
    <3>1. LinkInv'
      BY <1>0, <2>1, <2>2, LinkBegins
    <3>2. /\ polls' \in [Logins -> PollRecord] /\ polls'[p].at = "done"
          /\ \A q \in Logins : q # p => polls'[q] = polls[q]
      BY <1>0, <2>2 DEF LoginTypes, Ends, PollRecord
    <3>3. /\ login' \in LoginRecord /\ login'.status \notin Shown /\ ~login'.running
          /\ saved' \in Logins /\ At(saved', "persisting") /\ saved' \in Cookies /\ saved' # NoCookie
      BY <2>2, CookieTypes DEF Ends, LoginRecord, Shown
    <3>4. LoginTypes'
      BY <1>0, <2>1, <3>2, <3>3 DEF LoginTypes
    <3>5. ~odd.overlapped => jar = saved'
      BY <1>0, <3>3 DEF LoginInv, OneLogin
    <3>6. StatusTells'
      BY <2>1, <3>3, <3>5 DEF StatusTells
    <3>7. OneLogin'
      <4> SUFFICES ASSUME ~odd.overlapped PROVE OneLogin'
        BY <2>1 DEF OneLogin
      <4>1. \A q \in Logins : ~(Busy(q))'
        BY <1>0, <2>1, <3>2 DEF LoginInv, OneLogin, Busy, Working
      <4> QED BY <4>1 DEF OneLogin, At, Busy, Working
    <3> QED BY <3>1, <3>4, <3>6, <3>7 DEF ServiceInv, LoginInv
  <2>3. CASE Ends(p, "failed") /\ UNCHANGED <<started, link, saved>>
    <3>1. LinkInv' /\ LoginInv'
      BY <1>1, <1>2, <2>1, <2>3
    <3> QED BY <3>1 DEF ServiceInv
  <2> QED BY <1>8, <2>2, <2>3 DEF Persist
<1> QED BY <1>4, <1>5, <1>6, <1>7, <1>8

-----------------------------------------------------------------------------
LEMMA ServiceStep ==
    ASSUME MaxLogins \in Nat, ServiceInv, [ServiceNext]_serviceVars
    PROVE  ServiceInv'
<1>1. CASE ServiceNext
  BY <1>1, ConnectionKeeps, LoginKeeps, RestartKeeps DEF ServiceNext
<1>2. CASE UNCHANGED serviceVars
  BY <1>2 DEF serviceVars, ServiceInv, LinkInv, LoginInv, LinkTypes, LoginTypes, StartedRuns,
     OneAccount, ConnectedTells, SocketOfAttempt, StatusTells, OneLogin, Busy, At
<1> QED BY <1>1, <1>2

(* The invariant holds of every behaviour, whatever is lost, refused,      *)
(* stopped or restarted.                                                   *)
THEOREM ServiceInvariance ==
    ASSUME MaxLogins \in Nat
    PROVE  ServiceSpec => []ServiceInv
<1>1. ServiceInit => ServiceInv
  BY InitHolds
<1>2. ServiceInv /\ [ServiceNext]_serviceVars => ServiceInv'
  BY ServiceStep
<1> QED BY <1>1, <1>2, PTL DEF ServiceSpec

LEMMA ServicePromises ==
    ASSUME ServiceInv
    PROVE  ServiceOK /\ StartedRuns /\ OneAccount /\ ConnectedTells /\ StatusTells
BY DEF ServiceInv, LinkInv, LoginInv, LinkTypes, LoginTypes, ServiceOK, LinkRecord, LoginRecord,
   PollRecord

(* The adapter that is started has a loop, its connection is one of the    *)
(* account that is signed in, and connected() and the status of the login  *)
(* tell what is so, except where the code is known to differ (start, stop, *)
(* runLoop and connectOnce of transport.ts, onAuthExpired and              *)
(* onAuthenticated of main.ts, login.ts).                                  *)
THEOREM ServiceTells ==
    ASSUME MaxLogins \in Nat
    PROVE  ServiceSpec => [](StartedRuns /\ OneAccount /\ ConnectedTells /\ StatusTells)
BY ServicePromises, ServiceInvariance, PTL

-----------------------------------------------------------------------------
(* The calls to the platform. *)
Places == Steps \cup {"new", "page", "sending", "waiting", "done", "failed"}
AskRecord == [at : Places, first : Nat, cursor : Nat, got : Seq(Nat), retry : BOOLEAN]
WriterRecord ==
    [pending : BOOLEAN, at : {"idle", "directory", "writing"}, text : Nat, failed : BOOLEAN]
Kinds == {"history", "chat", "publish"}

(* What the code gives: pages that are not empty, and the kinds there are. *)
Given == /\ PageSize \in Nat \ {0} /\ MaxTalk \in Nat \ {0}
         /\ \A a \in Asked : KindOf[a] \in Kinds

CallTypes ==
    /\ talk \in 0..MaxTalk /\ connected \in BOOLEAN /\ pending \subseteq Asked
    /\ asks \in [Asked -> AskRecord] /\ listed \in [Asked -> Nat]
    /\ noted \in Nat /\ file \in Nat /\ writer \in WriterRecord

(* Without a connection nobody waits. *)
NobodyWaits == ~connected => pending = {}

(* The messages from "from" to "to", in their order. *)
Run(from, to) == [i \in 1..(to + 1 - from) |-> from + i - 1]

(* What a history has read: nothing yet, or from its cursor to the end. *)
ReadFrom ==
    \A a \in Asked :
        /\ asks[a].got = <<>> => asks[a].first = 0
        /\ asks[a].got # <<>> =>
              /\ asks[a].cursor \in 1..asks[a].first /\ asks[a].first <= talk
              /\ asks[a].got = Run(asks[a].cursor, asks[a].first)

NotListedYet ==
    \A a \in Asked :
        /\ listed[a] <= 1
        /\ asks[a].at \in Steps \cup {"new"} => listed[a] = 0
        /\ KindOf[a] # "publish" => asks[a].at \notin Steps

WritesLast ==
    /\ writer.at = "writing" => writer.text <= noted
    /\ writer.at = "writing" /\ ~writer.pending => writer.text = noted
    /\ file <= noted

CallsInv ==
    /\ CallTypes /\ noted <= MaxNoted /\ NobodyWaits /\ WaitsOnConnection
    /\ ReadFrom /\ HistoryWhole
    /\ NotListedYet
    /\ WritesLast /\ WriterRests

LEMMA RunTypes ==
    ASSUME NEW from \in Nat \ {0}, NEW to \in Nat, from <= to + 1
    PROVE  /\ Run(from, to) \in Seq(Nat) /\ Len(Run(from, to)) = to + 1 - from
           /\ Run(from, to) = <<>> <=> from = to + 1
<1>1. to + 1 - from \in Nat /\ \A i \in 1..(to + 1 - from) : from + i - 1 \in Nat
  OBVIOUS
<1>2. Run(from, to) \in [1..(to + 1 - from) -> Nat]
  BY <1>1 DEF Run
<1>3. Run(from, to) \in Seq(Nat) /\ Len(Run(from, to)) = to + 1 - from
  BY <1>1, <1>2
<1> QED BY <1>3, EmptySeq, LenProperties

(* A page before what was read. *)
LEMMA RunsJoin ==
    ASSUME NEW from \in Nat \ {0}, NEW cursor \in Nat \ {0}, NEW to \in Nat,
           from <= cursor, cursor <= to + 1
    PROVE  Run(from, cursor - 1) \o Run(cursor, to) = Run(from, to)
<1> DEFINE page == Run(from, cursor - 1)
           rest == Run(cursor, to)
<1>0. page \in Seq(Nat) /\ Len(page) = cursor - from
  <2>1. cursor - 1 \in Nat /\ from <= (cursor - 1) + 1 /\ (cursor - 1) + 1 - from = cursor - from
    OBVIOUS
  <2> QED BY <2>1, RunTypes
<1>1. /\ rest \in Seq(Nat) /\ Len(rest) = to + 1 - cursor
      /\ Run(from, to) \in Seq(Nat) /\ Len(Run(from, to)) = to + 1 - from
  <2>1. rest \in Seq(Nat) /\ Len(rest) = to + 1 - cursor
    BY RunTypes
  <2>2. from <= to + 1
    OBVIOUS
  <2>3. Run(from, to) \in Seq(Nat) /\ Len(Run(from, to)) = to + 1 - from
    BY <2>2, RunTypes
  <2> QED BY <2>1, <2>3
<1>2. /\ page \o rest \in Seq(Nat) /\ Len(page \o rest) = to + 1 - from
      /\ \A i \in 1..(to + 1 - from) :
            (page \o rest)[i] = IF i <= cursor - from THEN page[i] ELSE rest[i - (cursor - from)]
  <2> HIDE DEF page, rest
  <2>1. /\ page \o rest \in Seq(Nat) /\ Len(page \o rest) = Len(page) + Len(rest)
        /\ \A i \in 1..Len(page) + Len(rest) :
              (page \o rest)[i] = IF i <= Len(page) THEN page[i] ELSE rest[i - Len(page)]
    BY <1>0, <1>1, ConcatProperties
  <2>2. Len(page) + Len(rest) = to + 1 - from
    BY <1>0, <1>1
  <2> QED BY <1>0, <1>1, <2>1, <2>2
<1>3. \A i \in 1..(to + 1 - from) : (page \o rest)[i] = Run(from, to)[i]
  BY <1>2 DEF Run
<1> QED BY <1>1, <1>2, <1>3, SeqEqual

(* The page that answers a request of a history: it ends before the cursor.  Before     *)
(* anything was read the cursor is the message that is not written yet.                 *)
Cursor(a) == IF asks[a].got = <<>> THEN talk + 1 ELSE asks[a].cursor
LastRead(a) == IF asks[a].got = <<>> THEN talk ELSE asks[a].first

LEMMA PageIsRun ==
    ASSUME Given, CallsInv, NEW a \in Asked
    PROVE  /\ Cursor(a) \in Nat \ {0} /\ LastRead(a) \in Nat /\ LastRead(a) <= talk
           /\ Cursor(a) <= LastRead(a) + 1 /\ asks[a].got = Run(Cursor(a), LastRead(a))
           /\ PageFrom(a) \in Nat \ {0} /\ PageFrom(a) <= Cursor(a)
           /\ Page(a) = Run(PageFrom(a), Cursor(a) - 1)
           /\ Page(a) \o asks[a].got = Run(PageFrom(a), LastRead(a))
           /\ (asks[a].first = 0 => asks[a].got = <<>>)
<1>1. talk \in Nat /\ asks[a] \in AskRecord
  BY DEF Given, CallsInv, CallTypes
<1>2. /\ asks[a].got = <<>> => asks[a].first = 0
      /\ asks[a].got # <<>> => /\ asks[a].cursor \in 1..asks[a].first /\ asks[a].first <= talk
                               /\ asks[a].got = Run(asks[a].cursor, asks[a].first)
  BY DEF CallsInv, ReadFrom
<1>3. asks[a].first \in Nat /\ asks[a].cursor \in Nat /\ asks[a].got \in Seq(Nat)
  BY <1>1 DEF AskRecord
<1>4. /\ Cursor(a) \in Nat \ {0} /\ LastRead(a) \in Nat /\ LastRead(a) <= talk
      /\ Cursor(a) <= LastRead(a) + 1
  BY <1>1, <1>2, <1>3 DEF Cursor, LastRead
<1>5. asks[a].got = Run(Cursor(a), LastRead(a))
  <2>1. CASE asks[a].got = <<>>
    <3>1. talk + 1 \in Nat \ {0} /\ talk + 1 <= talk + 1
      BY <1>1
    <3>2. Run(talk + 1, talk) = <<>>
      BY <1>1, <3>1, RunTypes
    <3> QED BY <2>1, <3>2 DEF Cursor, LastRead
  <2>2. CASE asks[a].got # <<>>
    BY <1>2, <2>2 DEF Cursor, LastRead
  <2> QED BY <2>1, <2>2
<1>6. Below(a) = Cursor(a) - 1
  BY <1>1 DEF Below, Cursor
<1>7. PageFrom(a) \in Nat \ {0} /\ PageFrom(a) <= Cursor(a)
  BY <1>4, <1>6 DEF PageFrom, Given
<1>8. Page(a) = Run(PageFrom(a), Cursor(a) - 1)
  BY <1>6 DEF Page, Run
<1>9. Page(a) \o asks[a].got = Run(PageFrom(a), LastRead(a))
  BY <1>4, <1>5, <1>7, <1>8, RunsJoin
<1>10. asks[a].first = 0 => asks[a].got = <<>>
  BY <1>2, <1>3
<1> QED BY <1>4, <1>5, <1>7, <1>8, <1>9, <1>10

-----------------------------------------------------------------------------
LEMMA CallsBegin ==
    ASSUME Given, MaxNoted \in Nat, CallsInit
    PROVE  CallsInv
<1>1. \A a \in Asked : asks[a] = NewAsk /\ listed[a] = 0
  BY DEF CallsInit
<1>2. NewAsk \in AskRecord /\ NewAsk.at = "new" /\ NewAsk.got = <<>> /\ NewAsk.first = 0
  BY EmptySeq DEF NewAsk, AskRecord, Places
<1>3. CallTypes
  BY <1>2 DEF CallsInit, CallTypes, Given, Quiet, WriterRecord
<1>4. NobodyWaits /\ WaitsOnConnection /\ ReadFrom /\ HistoryWhole
  BY <1>1, <1>2 DEF CallsInit, NobodyWaits, WaitsOnConnection, ReadFrom, HistoryWhole
<1>5. NotListedYet
  BY <1>1, <1>2, <1>3 DEF NotListedYet, Steps
<1>6. noted <= MaxNoted /\ WritesLast /\ WriterRests
  BY DEF CallsInit, WritesLast, WriterRests, Quiet
<1> QED BY <1>3, <1>4, <1>5, <1>6 DEF CallsInv

(* A step that leaves the file and its writer alone, and one that leaves the requests   *)
(* alone.                                                                               *)
LEMMA DiskStands ==
    ASSUME CallsInv, UNCHANGED <<noted, file, writer>>
    PROVE  (noted <= MaxNoted)' /\ WritesLast' /\ WriterRests'
           /\ noted' \in Nat /\ file' \in Nat /\ writer' \in WriterRecord
BY DEF CallsInv, CallTypes, WritesLast, WriterRests

LEMMA RequestsStand ==
    ASSUME Given, CallsInv, UNCHANGED <<connected, pending, asks, listed>>, talk' \in talk..MaxTalk,
           (noted <= MaxNoted)', WritesLast', WriterRests',
           noted' \in Nat, file' \in Nat, writer' \in WriterRecord
    PROVE  CallsInv'
<1>1. CallTypes'
  BY DEF CallsInv, CallTypes, Given
<1>2. ReadFrom'
  <2>1. talk \in Nat /\ talk' \in Nat /\ talk <= talk'
    BY DEF CallsInv, CallTypes, Given
  <2>2. \A a \in Asked : asks[a].first \in Nat
    BY DEF CallsInv, CallTypes, AskRecord
  <2> QED BY <2>1, <2>2 DEF CallsInv, ReadFrom
<1>3. NobodyWaits' /\ WaitsOnConnection' /\ HistoryWhole' /\ NotListedYet'
  BY DEF CallsInv, NobodyWaits, WaitsOnConnection, HistoryWhole, NotListedYet
<1> QED BY <1>1, <1>2, <1>3 DEF CallsInv

(* A step of one request: what it has to keep of that request. *)
LEMMA AskMoves ==
    ASSUME CallsInv, NEW a \in Asked, NEW rec \in AskRecord,
           asks' = [asks EXCEPT ![a] = rec], UNCHANGED <<talk, connected, noted, file, writer>>,
           pending' \subseteq Asked, \A b \in Asked : b # a => (b \in pending' <=> b \in pending),
           listed' \in [Asked -> Nat], \A b \in Asked : b # a => listed'[b] = listed[b],
           rec.at \in {"sending", "waiting"} <=> (connected /\ a \in pending'),
           ~connected => a \notin pending',
           rec.got = <<>> => rec.first = 0,
           rec.got # <<>> => /\ rec.cursor \in 1..rec.first /\ rec.first <= talk
                             /\ rec.got = Run(rec.cursor, rec.first),
           KindOf[a] = "history" /\ rec.at = "done" => rec.got = [i \in 1..rec.first |-> i],
           listed'[a] <= 1, rec.at \in Steps \cup {"new"} => listed'[a] = 0,
           KindOf[a] # "publish" => rec.at \notin Steps
    PROVE  CallsInv'
<1>1. asks'[a] = rec /\ \A b \in Asked : b # a => asks'[b] = asks[b]
  BY DEF CallsInv, CallTypes
<1>2. CallTypes'
  BY DEF CallsInv, CallTypes
<1>3. NobodyWaits'
  <2> SUFFICES ASSUME ~connected PROVE pending' = {}
    BY DEF NobodyWaits
  <2> QED BY DEF CallsInv, NobodyWaits
<1>4. WaitsOnConnection'
  BY <1>1 DEF CallsInv, WaitsOnConnection
<1>5. ReadFrom'
  BY <1>1 DEF CallsInv, ReadFrom
<1>6. HistoryWhole'
  BY <1>1 DEF CallsInv, HistoryWhole
<1>7. NotListedYet'
  BY <1>1 DEF CallsInv, NotListedYet
<1> QED BY <1>2, <1>3, <1>4, <1>5, <1>6, <1>7, DiskStands DEF CallsInv

(* A request that changes its place and keeps what it has read. *)
LEMMA AskGoes ==
    ASSUME CallsInv, NEW a \in Asked, NEW place \in Places, NEW retry \in BOOLEAN,
           asks' = [asks EXCEPT ![a] = [asks[a] EXCEPT !.at = place, !.retry = retry]],
           UNCHANGED <<talk, connected, noted, file, writer>>,
           pending' \subseteq Asked, \A b \in Asked : b # a => (b \in pending' <=> b \in pending),
           listed' \in [Asked -> Nat], \A b \in Asked : b # a => listed'[b] = listed[b],
           place \in {"sending", "waiting"} <=> (connected /\ a \in pending'),
           ~connected => a \notin pending',
           KindOf[a] = "history" => place # "done",
           listed'[a] <= 1, place \in Steps \cup {"new"} => listed'[a] = 0,
           KindOf[a] # "publish" => place \notin Steps
    PROVE  CallsInv'
<1> DEFINE rec == [asks[a] EXCEPT !.at = place, !.retry = retry]
<1>1. /\ rec \in AskRecord /\ rec.at = place /\ rec.got = asks[a].got /\ rec.first = asks[a].first
      /\ rec.cursor = asks[a].cursor
  BY DEF CallsInv, CallTypes, AskRecord
<1>2. /\ rec.got = <<>> => rec.first = 0
      /\ rec.got # <<>> => /\ rec.cursor \in 1..rec.first /\ rec.first <= talk
                           /\ rec.got = Run(rec.cursor, rec.first)
  BY <1>1 DEF CallsInv, ReadFrom
<1> HIDE DEF rec
<1>3. asks' = [asks EXCEPT ![a] = rec]
  BY DEF rec
<1> QED BY <1>1, <1>2, <1>3, AskMoves

LEMMA HistoryAnswerKeeps ==
    ASSUME Given, CallsInv, NEW a \in Asked, HistoryAnswered(a)
    PROVE  CallsInv'
<1> DEFINE place == IF PageFrom(a) > 1 THEN "page" ELSE "done"
           rec == [asks[a] EXCEPT !.first = LastRead(a), !.got = Run(PageFrom(a), LastRead(a)),
                                  !.cursor = PageFrom(a), !.at = place]
<1>1. /\ asks[a] \in AskRecord /\ talk \in Nat /\ KindOf[a] = "history" /\ asks[a].at = "waiting"
      /\ a \in pending /\ connected
      /\ UNCHANGED <<talk, listed, connected, noted, file, writer>> /\ pending' = pending \ {a}
  BY DEF HistoryAnswered, CallsInv, CallTypes, WaitsOnConnection, platform, disk
<1>2. asks[a].first = 0 <=> asks[a].got = <<>>
  BY PageIsRun DEF CallsInv, ReadFrom
<1>3. (IF asks[a].first = 0 THEN talk ELSE asks[a].first) = LastRead(a)
  BY <1>2 DEF LastRead
<1>4. asks' = [asks EXCEPT ![a] = rec]
  <2>1. asks' = [asks EXCEPT ![a].first = IF asks[a].first = 0 THEN talk ELSE asks[a].first,
                             ![a].got = Page(a) \o asks[a].got,
                             ![a].cursor = PageFrom(a),
                             ![a].at = place]
    BY DEF HistoryAnswered
  <2>2. Page(a) \o asks[a].got = Run(PageFrom(a), LastRead(a))
    BY PageIsRun
  <2> HIDE DEF place
  <2>3. asks' = [asks EXCEPT ![a].first = LastRead(a), ![a].got = Run(PageFrom(a), LastRead(a)),
                             ![a].cursor = PageFrom(a), ![a].at = place]
    BY <1>3, <2>1, <2>2
  <2>4. asks \in [Asked -> AskRecord]
    BY DEF CallsInv, CallTypes
  <2> QED BY <2>3, <2>4 DEF AskRecord
<1>5. /\ PageFrom(a) \in Nat \ {0} /\ LastRead(a) \in Nat /\ LastRead(a) <= talk /\ PageFrom(a) <= LastRead(a) + 1
      /\ Cursor(a) \in Nat \ {0}
  <2>1. PageFrom(a) \in Nat \ {0} /\ LastRead(a) \in Nat /\ LastRead(a) <= talk /\ PageFrom(a) <= Cursor(a)
        /\ Cursor(a) <= LastRead(a) + 1 /\ Cursor(a) \in Nat \ {0}
    BY PageIsRun
  <2> QED BY <2>1
<1>6. /\ Run(PageFrom(a), LastRead(a)) \in Seq(Nat)
      /\ Run(PageFrom(a), LastRead(a)) = <<>> <=> PageFrom(a) = LastRead(a) + 1
  BY <1>5, RunTypes
<1>7. /\ rec \in AskRecord /\ rec.at = place /\ rec.first = LastRead(a) /\ rec.cursor = PageFrom(a)
      /\ rec.got = Run(PageFrom(a), LastRead(a))
  <2>1. place \in Places
    BY DEF Places
  <2> HIDE DEF place
  <2> QED BY <1>1, <1>5, <1>6, <2>1 DEF AskRecord
<1>8. rec.got = <<>> => rec.first = 0
  <2>1. ASSUME PageFrom(a) = LastRead(a) + 1 PROVE LastRead(a) = 0
    <3>1. Cursor(a) = LastRead(a) + 1 /\ PageFrom(a) = Cursor(a)
      <4>1. PageFrom(a) <= Cursor(a) /\ Cursor(a) <= LastRead(a) + 1
        BY PageIsRun
      <4> QED BY <2>1, <1>5, <4>1
    <3>2. asks[a].got = <<>>
      <4>1. asks[a].got = Run(Cursor(a), LastRead(a))
        BY PageIsRun
      <4> QED BY <4>1, <3>1, <1>5, RunTypes
    <3>3. LastRead(a) = talk /\ Below(a) = talk
      BY <3>2 DEF LastRead, Below
    <3> QED BY <1>1, <2>1, <3>3 DEF PageFrom, Given
  <2> QED BY <1>6, <1>7, <2>1
<1>9. rec.got # <<>> => /\ rec.cursor \in 1..rec.first /\ rec.first <= talk
                        /\ rec.got = Run(rec.cursor, rec.first)
  BY <1>5, <1>6, <1>7
<1>10. rec.at = "done" => rec.got = [i \in 1..rec.first |-> i]
  <2> SUFFICES ASSUME PageFrom(a) = 1 PROVE Run(1, LastRead(a)) = [i \in 1..LastRead(a) |-> i]
    BY <1>5, <1>7
  <2> QED BY <1>5 DEF Run
<1>11. rec.at \notin {"sending", "waiting"} /\ rec.at \notin Steps \cup {"new"}
  BY <1>7 DEF Steps
<1>12. listed[a] <= 1 /\ listed' \in [Asked -> Nat] /\ pending' \subseteq Asked
  BY <1>1 DEF CallsInv, CallTypes, NotListedYet
<1> HIDE DEF rec
<1> QED BY <1>1, <1>4, <1>7, <1>8, <1>9, <1>10, <1>11, <1>12, AskMoves

LEMMA Becoming ==
    ASSUME CallsInv, NEW a \in Asked, NEW place \in Places, Becomes(a, place)
    PROVE  /\ asks[a].retry \in BOOLEAN
           /\ asks' = [asks EXCEPT ![a] = [asks[a] EXCEPT !.at = place, !.retry = asks[a].retry]]
<1>1. asks \in [Asked -> AskRecord] /\ asks' = [asks EXCEPT ![a].at = place]
  BY DEF CallsInv, CallTypes, Becomes
<1> QED BY <1>1 DEF AskRecord

(* The steps of a request over the connection. *)
LEMMA ConnectionCallKeeps ==
    ASSUME Given, CallsInv, NEW a \in Asked,
           Ask(a) \/ FrameSent(a) \/ TimesOut(a) \/ ChatAnswered(a)
    PROVE  CallsInv'
<1>0. /\ UNCHANGED <<talk, connected, noted, file, writer, listed>>
      /\ listed \in [Asked -> Nat] /\ listed[a] <= 1 /\ pending \subseteq Asked
  BY DEF Ask, FrameSent, TimesOut, ChatAnswered, platform, disk, CallsInv, CallTypes, NotListedYet
<1>1. (~connected => a \notin pending) /\ (asks[a].at \in {"sending", "waiting"} <=> (connected /\ a \in pending))
  BY DEF CallsInv, NobodyWaits, WaitsOnConnection
<1>2. ASSUME NEW place \in {"done", "failed"}, Becomes(a, place), pending' = pending \ {a},
             KindOf[a] = "history" => place # "done"
      PROVE  CallsInv'
  <2>1. place \in Places /\ place \notin Steps \cup {"new", "sending", "waiting"}
    BY DEF Places, Steps
  <2>2. /\ asks[a].retry \in BOOLEAN
        /\ asks' = [asks EXCEPT ![a] = [asks[a] EXCEPT !.at = place, !.retry = asks[a].retry]]
    BY <1>2, <2>1, Becoming
  <2> QED BY <1>0, <1>2, <2>1, <2>2, AskGoes
<1>3. ASSUME Fails(a) PROVE CallsInv'
  BY <1>2, <1>3 DEF Fails
<1>4. ASSUME NEW place \in {"sending", "waiting"}, Becomes(a, place), pending' = pending \cup {a},
             connected
      PROVE  CallsInv'
  <2>1. place \in Places /\ place \notin Steps \cup {"new", "done"}
    BY DEF Places, Steps
  <2>2. /\ asks[a].retry \in BOOLEAN
        /\ asks' = [asks EXCEPT ![a] = [asks[a] EXCEPT !.at = place, !.retry = asks[a].retry]]
    BY <1>4, <2>1, Becoming
  <2> QED BY <1>0, <1>4, <2>1, <2>2, AskGoes
<1>5. CASE Ask(a)
  BY <1>3, <1>4, <1>5 DEF Ask
<1>6. CASE FrameSent(a)
  <2>1. connected /\ a \in pending
    BY <1>1, <1>6 DEF FrameSent
  <2>2. CASE Becomes(a, "waiting") /\ UNCHANGED pending
    <3>1. pending' = pending \cup {a}
      BY <2>1, <2>2
    <3> QED BY <1>4, <2>1, <2>2, <3>1
  <2> QED BY <1>3, <1>6, <2>2 DEF FrameSent
<1>7. CASE TimesOut(a)
  BY <1>3, <1>7 DEF TimesOut
<1>8. CASE ChatAnswered(a)
  BY <1>2, <1>8 DEF ChatAnswered
<1> QED BY <1>5, <1>6, <1>7, <1>8

(* The steps of an item that is published. *)
LEMMA PublishKeeps ==
    ASSUME Given, CallsInv, NEW a \in Asked,
           PublishStarts(a) \/ CallAnswered(a) \/ TokenExpires(a) \/ CallFails(a)
    PROVE  CallsInv'
<1>0. /\ UNCHANGED <<talk, connected, pending, noted, file, writer>> /\ KindOf[a] = "publish"
      /\ listed \in [Asked -> Nat] /\ asks \in [Asked -> AskRecord] /\ pending \subseteq Asked
      /\ asks[a].at \in Steps \cup {"new"} /\ listed[a] = 0
  BY DEF PublishStarts, CallAnswered, TokenExpires, CallFails, platform, disk, CallsInv, CallTypes,
     NotListedYet
<1>1. ~connected \/ a \notin pending
  BY <1>0 DEF CallsInv, WaitsOnConnection, Steps
<1>2. ~connected => a \notin pending
  BY DEF CallsInv, NobodyWaits
<1>3. ASSUME NEW place \in Steps \cup {"done", "failed"}, NEW retry \in BOOLEAN,
             asks' = [asks EXCEPT ![a] = [asks[a] EXCEPT !.at = place, !.retry = retry]],
             listed' = listed \/ (place \in {"done", "failed"} /\ listed' = [listed EXCEPT ![a] = @ + 1])
      PROVE  CallsInv'
  <2>1. place \in Places /\ place \notin {"new", "sending", "waiting"}
    BY DEF Places, Steps
  <2>2. /\ listed' \in [Asked -> Nat] /\ listed'[a] <= 1
        /\ (\A b \in Asked : b # a => listed'[b] = listed[b])
        /\ (place \in Steps \cup {"new"} => listed'[a] = 0)
    BY <1>0, <1>3 DEF Steps
  <2>3. place \in {"sending", "waiting"} <=> (connected /\ a \in pending')
    BY <1>0, <1>1, <2>1
  <2>4. KindOf[a] # "history"
    BY <1>0
  <2> QED BY <1>0, <1>2, <1>3, <2>1, <2>2, <2>3, <2>4, AskGoes
<1>4. ASSUME NEW place \in Steps \cup {"done", "failed"}, Becomes(a, place),
             listed' = listed \/ (place \in {"done", "failed"} /\ listed' = [listed EXCEPT ![a] = @ + 1])
      PROVE  CallsInv'
  <2>1. place \in Places
    BY DEF Places
  <2> QED BY <1>3, <1>4, <2>1, Becoming
<1>5. CASE PublishStarts(a)
  <2>1. listed' = listed
    BY <1>5 DEF PublishStarts, platform
  <2> QED BY <1>4, <1>5, <2>1 DEF PublishStarts, Steps
<1>6. CASE CallFails(a)
  <2>1. Becomes(a, "failed") /\ (listed' = listed \/ listed' = [listed EXCEPT ![a] = @ + 1])
    BY <1>6 DEF CallFails
  <2> QED BY <1>4, <2>1
<1>7. CASE TokenExpires(a)
  <2>1. asks' = [asks EXCEPT ![a] = [asks[a] EXCEPT !.at = asks[a].at, !.retry = FALSE]]
    BY <1>0, <1>7 DEF TokenExpires, AskRecord
  <2>2. listed' = listed /\ asks[a].at \in Steps
    BY <1>7 DEF TokenExpires, platform
  <2> QED BY <1>3, <2>1, <2>2
<1>8. CASE CallAnswered(a)
  <2>1. asks' = [asks EXCEPT ![a] = [asks[a] EXCEPT !.at = After[asks[a].at], !.retry = TRUE]]
    BY <1>0, <1>8 DEF CallAnswered, AskRecord
  <2>2. asks[a].at \in Steps
    BY <1>8 DEF CallAnswered
  <2>3. /\ After[asks[a].at] \in Steps \cup {"done"}
        /\ asks[a].at = "item" => After[asks[a].at] = "done"
    BY <2>2 DEF After, Steps
  <2>4. IF asks[a].at = "item" THEN listed' \in {listed, [listed EXCEPT ![a] = @ + 1]}
        ELSE listed' = listed
    BY <1>8 DEF CallAnswered
  <2> QED BY <1>3, <2>1, <2>3, <2>4
<1> QED BY <1>5, <1>6, <1>7, <1>8

(* The connection or the process is lost, and comes back. *)
LEMMA LossKeeps ==
    ASSUME Given, MaxNoted \in Nat, CallsInv, Disconnects \/ EndsAnyway \/ Reconnects
    PROVE  CallsInv'
<1>0. /\ asks \in [Asked -> AskRecord] /\ file \in Nat /\ noted \in Nat /\ file <= noted
      /\ noted <= MaxNoted /\ listed \in [Asked -> Nat]
  BY DEF CallsInv, CallTypes, WritesLast
<1>1. NewAsk \in AskRecord /\ NewAsk.at = "new" /\ NewAsk.got = <<>> /\ NewAsk.first = 0
  BY EmptySeq DEF NewAsk, AskRecord, Places
<1>2. ASSUME connected' = FALSE, pending' = {}, UNCHANGED <<talk, listed>>,
             asks' \in [Asked -> AskRecord],
             \A a \in Asked : \/ asks'[a] = NewAsk /\ asks[a].at = "new"
                              \/ asks'[a] = [asks[a] EXCEPT !.at = "failed"]
                              \/ asks'[a] = asks[a] /\ a \notin pending,
             \A a \in Asked : asks'[a].at \notin {"sending", "waiting"},
             (noted <= MaxNoted)', WritesLast', WriterRests',
             noted' \in Nat, file' \in Nat, writer' \in WriterRecord
      PROVE  CallsInv'
  <2>1. CallTypes' /\ NobodyWaits' /\ WaitsOnConnection'
    BY <1>2 DEF CallsInv, CallTypes, NobodyWaits, WaitsOnConnection
  <2>2. \A a \in Asked : \/ asks'[a] = NewAsk /\ asks[a].at = "new"
                         \/ /\ asks'[a].got = asks[a].got /\ asks'[a].first = asks[a].first
                            /\ asks'[a].cursor = asks[a].cursor
                            /\ asks'[a].at \in {"failed", asks[a].at}
    BY <1>0, <1>2 DEF AskRecord
  <2>3. ReadFrom'
    BY <1>1, <1>2, <2>2 DEF CallsInv, ReadFrom
  <2>4. HistoryWhole'
    BY <1>1, <2>2 DEF CallsInv, HistoryWhole
  <2>5. NotListedYet'
    BY <1>1, <1>2, <2>2 DEF CallsInv, NotListedYet, Steps
  <2> QED BY <1>2, <2>1, <2>3, <2>4, <2>5 DEF CallsInv
<1>3. /\ Gone \in [Asked -> AskRecord]
      /\ \A a \in Asked : /\ \/ Gone[a] = NewAsk /\ asks[a].at = "new"
                             \/ Gone[a] = [asks[a] EXCEPT !.at = "failed"]
                          /\ Gone[a].at \notin {"sending", "waiting"}
  BY <1>0, <1>1 DEF Gone, AskRecord, Places
<1>4. ASSUME asks' = Gone, writer' = Quiet, noted' = file, file' = file, connected' = FALSE,
             pending' = {}, UNCHANGED <<talk, listed>>
      PROVE  CallsInv'
  <2>1. (noted <= MaxNoted)' /\ WritesLast' /\ WriterRests' /\ noted' \in Nat /\ file' \in Nat
        /\ writer' \in WriterRecord
    BY <1>0, <1>4 DEF WritesLast, WriterRests, Quiet, WriterRecord
  <2> QED BY <1>2, <1>3, <1>4, <2>1
<1>5. CASE EndsAnyway
  BY <1>4, <1>5 DEF EndsAnyway, platform
<1>6. CASE Disconnects
  <2>1. connected' = FALSE /\ pending' = {} /\ UNCHANGED <<talk, listed>> /\ connected
    BY <1>6 DEF Disconnects, platform
  <2>2. CASE \E a \in pending : asks[a].at = "sending"
    BY <1>4, <1>6, <2>1, <2>2 DEF Disconnects
  <2>3. CASE ~ \E a \in pending : asks[a].at = "sending"
    <3>1. /\ UNCHANGED <<noted, file, writer>>
          /\ asks' = [a \in Asked |-> IF a \in pending THEN [asks[a] EXCEPT !.at = "failed"]
                                      ELSE asks[a]]
      BY <1>6, <2>3 DEF Disconnects, disk
    <3>2. asks' \in [Asked -> AskRecord]
      BY <1>0, <3>1 DEF AskRecord, Places
    <3>3. \A a \in Asked : asks'[a].at \notin {"sending", "waiting"}
      BY <1>0, <2>1, <3>1 DEF CallsInv, WaitsOnConnection, AskRecord
    <3> QED BY <1>2, <2>1, <3>1, <3>2, <3>3, DiskStands
  <2> QED BY <2>2, <2>3
<1>7. CASE Reconnects
  <2>1. /\ ~connected /\ connected' = TRUE /\ pending = {}
        /\ UNCHANGED <<pending, asks, talk, listed, noted, file, writer>>
    BY <1>7 DEF Reconnects, platform, disk, CallsInv, NobodyWaits
  <2> QED BY <2>1 DEF CallsInv, CallTypes, NobodyWaits, WaitsOnConnection, ReadFrom, HistoryWhole,
          NotListedYet, WritesLast, WriterRests
<1> QED BY <1>5, <1>6, <1>7

(* The file and its writer. *)
LEMMA WriterKeeps ==
    ASSUME Given, MaxNoted \in Nat, CallsInv, Notes \/ Serializes \/ Renames \/ WriteFails
    PROVE  CallsInv'
<1>1. UNCHANGED <<connected, pending, asks, listed, talk>> /\ talk' \in talk..MaxTalk
  BY DEF Notes, Serializes, Renames, WriteFails, platform, CallsInv, CallTypes, Given
<1>2. /\ noted \in Nat /\ file \in Nat /\ writer \in WriterRecord /\ noted <= MaxNoted
      /\ WritesLast /\ WriterRests
  BY DEF CallsInv, CallTypes
<1>3. ASSUME (noted <= MaxNoted)', noted' \in Nat, file' \in Nat, writer' \in WriterRecord,
             WritesLast', WriterRests'
      PROVE  CallsInv'
  BY <1>1, <1>3, RequestsStand
<1>4. CASE Notes
  <2>1. noted' = noted + 1 /\ noted' <= MaxNoted /\ noted' \in Nat /\ file' = file
    BY <1>2, <1>4 DEF Notes
  <2>2. /\ writer' \in WriterRecord /\ writer'.at # "idle" /\ writer'.text = writer.text
        /\ writer'.at = "writing" => writer.at = "writing" /\ writer'.pending
    BY <1>2, <1>4 DEF Notes, WriterRecord
  <2>3. WritesLast' /\ WriterRests'
    BY <1>2, <2>1, <2>2 DEF WritesLast, WriterRests, WriterRecord
  <2> QED BY <1>2, <1>3, <2>1, <2>2, <2>3
<1>5. CASE Serializes
  <2>1. /\ noted' = noted /\ file' = file /\ writer' \in WriterRecord /\ writer'.at = "writing"
        /\ writer'.text = noted
    BY <1>2, <1>5 DEF Serializes, WriterRecord
  <2> QED BY <1>2, <1>3, <2>1 DEF WritesLast, WriterRests
<1>6. CASE Renames
  <2>1. /\ noted' = noted /\ file' = writer.text /\ writer.at = "writing" /\ writer' \in WriterRecord
        /\ writer'.at \in {"directory", "idle"} /\ (writer'.at = "idle" => ~writer.pending)
    BY <1>2, <1>6 DEF Renames, WriterRecord, Quiet
  <2>2. file' \in Nat /\ file' <= noted /\ (writer'.at = "idle" => file' = noted)
    BY <1>2, <2>1 DEF WritesLast, WriterRecord
  <2>3. WritesLast' /\ WriterRests'
    BY <2>1, <2>2 DEF WritesLast, WriterRests
  <2> QED BY <1>2, <1>3, <2>1, <2>2, <2>3
<1>7. CASE WriteFails
  <2>1. /\ noted' = noted /\ file' = file /\ writer' \in WriterRecord /\ writer'.at = "idle"
        /\ writer'.failed
    BY <1>2, <1>7 DEF WriteFails, WriterRecord
  <2> QED BY <1>2, <1>3, <2>1 DEF WritesLast, WriterRests
<1> QED BY <1>4, <1>5, <1>6, <1>7

-----------------------------------------------------------------------------
LEMMA CallsStep ==
    ASSUME Given, MaxNoted \in Nat, CallsInv, [CallsNext]_callsVars
    PROVE  CallsInv'
<1>1. CASE Talks
  <2>1. /\ UNCHANGED <<connected, pending, asks, listed, noted, file, writer>>
        /\ talk' \in talk..MaxTalk
    BY <1>1 DEF Talks, disk, CallsInv, CallTypes, Given
  <2> QED BY <2>1, DiskStands, RequestsStand
<1>2. CASE UNCHANGED callsVars
  BY <1>2 DEF callsVars, CallsInv, CallTypes, NobodyWaits, WaitsOnConnection, ReadFrom,
     HistoryWhole, NotListedYet, WritesLast, WriterRests
<1> QED BY <1>1, <1>2, HistoryAnswerKeeps, ConnectionCallKeeps, PublishKeeps, LossKeeps, WriterKeeps
        DEF CallsNext

(* The invariant holds of every behaviour, whatever is lost, late, repeated or written  *)
(* while something is read.                                                             *)
THEOREM CallsInvariance ==
    ASSUME Given, MaxNoted \in Nat
    PROVE  CallsSpec => []CallsInv
<1>1. CallsInit => CallsInv
  BY CallsBegin
<1>2. CallsInv /\ [CallsNext]_callsVars => CallsInv'
  BY CallsStep
<1> QED BY <1>1, <1>2, PTL DEF CallsSpec

LEMMA CallsPromises ==
    ASSUME CallsInv
    PROVE  CallsOK /\ WaitsOnConnection /\ HistoryWhole /\ ListedOnce /\ WriterRests
<1>1. CallsOK
  BY DEF CallsInv, CallTypes, CallsOK, AskRecord, Places, WritesLast
<1>2. ListedOnce
  BY DEF CallsInv, NotListedYet, ListedOnce
<1> QED BY <1>1, <1>2 DEF CallsInv

(* A request waits only on the connection it was sent on, the history of a conversation *)
(* is all of it in its order, an item is listed at most once for a request, and a       *)
(* writer that rests has written the last state (request, getHistory, mtop,             *)
(* publishItem, createStateWriter).                                                     *)
THEOREM CallsKeepPromises ==
    ASSUME Given, MaxNoted \in Nat
    PROVE  CallsSpec => [](WaitsOnConnection /\ HistoryWhole /\ ListedOnce /\ WriterRests)
BY CallsPromises, CallsInvariance, PTL
=============================================================================
