---------------------------- MODULE MCServicesProofs ----------------------------
(***************************************************************************)
(* The run Services, as theorems: from what is proved of a component for   *)
(* every value of its constants (ChannelProofs, RequestsProofs,            *)
(* AccountsProofs) the property that the run checks of it beside the other *)
(* parts.                                                                  *)
(*                                                                         *)
(* A behaviour moves one part, so the invariant of a component is that of  *)
(* the behaviours that are about it.  The proofs of a component are        *)
(* instances of its module of proofs, whose definitions are those of the   *)
(* component that MCServices instantiates; the lemmas Same... say so.      *)
(***************************************************************************)
EXTENDS MCServices, TLAPS

ChannelFacts == INSTANCE ChannelProofs WITH drafts <- channelDrafts, file <- stateFile

SeveralFacts == INSTANCE ChannelProofs WITH
    drafts <- channelDrafts, file <- stateFile, Inbound <- Buyers, Local <- {}

RequestFacts == INSTANCE RequestsProofs WITH held <- heldBy

AccountFacts == INSTANCE AccountsProofs WITH
    Owners <- Users, OwnerOf <- Askers, work <- asked,
    requests <- changing, rows <- applications, MaxRequests <- ChangeRequests

ChannelSafe == part = "channel" => ChannelFacts!ChannelInv
SeveralSafe == part = "several" => SeveralFacts!ChannelInv
ReloadSafe == part = "reload" => RequestFacts!ReloadInv
PhoneSafe == part = "phone" => RequestFacts!RequestsInv
MarketSafe == part = "market" => ChannelFacts!ServiceInv
PlatformSafe == part = "platform" => ChannelFacts!CallsInv
LoginSafe == part = "login" => AccountFacts!CredentialsInv
SkillsSafe == part = "skills" => AccountFacts!SkillsInv
PermitSafe == part = "permits" => AccountFacts!PermitInv
ImproveSafe == part = "improve" => AccountFacts!OptInv

(******************* The instances have the same steps *********************)
LEMMA SameInit == Channel!ChannelInit = ChannelFacts!ChannelInit
  BY Zenon DEF Channel!ChannelInit, ChannelFacts!ChannelInit, Channel!Fresh,
      ChannelFacts!Fresh, Channel!ChannelMessages, ChannelFacts!ChannelMessages,
      Channel!None, ChannelFacts!None, Channel!NoReply, ChannelFacts!NoReply

LEMMA SameNext == Channel!ChannelNext => ChannelFacts!ChannelNext
  BY Zenon DEF Channel!ChannelNext, ChannelFacts!ChannelNext, Channel!Status,
      ChannelFacts!Status, Channel!None, ChannelFacts!None, Channel!NoReply,
      ChannelFacts!NoReply, Channel!ChannelMessages, ChannelFacts!ChannelMessages,
      Channel!core, ChannelFacts!core, Channel!LastReply, ChannelFacts!LastReply,
      Channel!Fresh, ChannelFacts!Fresh, Channel!Down, ChannelFacts!Down,
      Channel!Noticed, ChannelFacts!Noticed, Channel!Count, ChannelFacts!Count,
      Channel!IsNew, ChannelFacts!IsNew, Channel!SaveSeen, ChannelFacts!SaveSeen,
      Channel!ReplyCompletes, ChannelFacts!ReplyCompletes, Channel!SwitchAutoReply,
      ChannelFacts!SwitchAutoReply, Channel!PauseAdapter, ChannelFacts!PauseAdapter,
      Channel!ReadSession, ChannelFacts!ReadSession, Channel!AdapterDies,
      ChannelFacts!AdapterDies, Channel!AdapterStarts, ChannelFacts!AdapterStarts,
      Channel!Push, ChannelFacts!Push, Channel!PostInbound, ChannelFacts!PostInbound,
      Channel!WriteLocal, ChannelFacts!WriteLocal, Channel!ToSet, ChannelFacts!ToSet,
      Channel!RenderReply, ChannelFacts!RenderReply, Channel!Register,
      ChannelFacts!Register, Channel!SendReply, ChannelFacts!SendReply,
      Channel!Report, ChannelFacts!Report, Channel!ConfirmDraft,
      ChannelFacts!ConfirmDraft, Channel!SendDraft, ChannelFacts!SendDraft

LEMMA SameInitOfSeveral == Several!ChannelInit = SeveralFacts!ChannelInit
  BY Zenon DEF Several!ChannelInit, SeveralFacts!ChannelInit, Several!Fresh,
      SeveralFacts!Fresh, Several!ChannelMessages, SeveralFacts!ChannelMessages,
      Several!None, SeveralFacts!None, Several!NoReply, SeveralFacts!NoReply

LEMMA SameNextOfSeveral == Several!ChannelNext => SeveralFacts!ChannelNext
  BY Zenon DEF Several!ChannelNext, SeveralFacts!ChannelNext, Several!Status,
      SeveralFacts!Status, Several!None, SeveralFacts!None, Several!NoReply,
      SeveralFacts!NoReply, Several!ChannelMessages, SeveralFacts!ChannelMessages,
      Several!core, SeveralFacts!core, Several!LastReply, SeveralFacts!LastReply,
      Several!Fresh, SeveralFacts!Fresh, Several!Down, SeveralFacts!Down,
      Several!Noticed, SeveralFacts!Noticed, Several!Count, SeveralFacts!Count,
      Several!IsNew, SeveralFacts!IsNew, Several!SaveSeen, SeveralFacts!SaveSeen,
      Several!ReplyCompletes, SeveralFacts!ReplyCompletes, Several!SwitchAutoReply,
      SeveralFacts!SwitchAutoReply, Several!PauseAdapter, SeveralFacts!PauseAdapter,
      Several!ReadSession, SeveralFacts!ReadSession, Several!AdapterDies,
      SeveralFacts!AdapterDies, Several!AdapterStarts, SeveralFacts!AdapterStarts,
      Several!Push, SeveralFacts!Push, Several!PostInbound, SeveralFacts!PostInbound,
      Several!WriteLocal, SeveralFacts!WriteLocal, Several!ToSet, SeveralFacts!ToSet,
      Several!RenderReply, SeveralFacts!RenderReply, Several!Register,
      SeveralFacts!Register, Several!SendReply, SeveralFacts!SendReply,
      Several!Report, SeveralFacts!Report, Several!ConfirmDraft,
      SeveralFacts!ConfirmDraft, Several!SendDraft, SeveralFacts!SendDraft

LEMMA SameConfig ==
    /\ Configure!ReloadInit = RequestFacts!ReloadInit
    /\ Configure!ReloadNext = RequestFacts!ReloadNext
  BY Zenon DEF Configure!ReloadInit, RequestFacts!ReloadInit, Configure!ReloadNext,
      RequestFacts!ReloadNext, Configure!Parts, RequestFacts!Parts, Configure!Original,
      RequestFacts!Original, Configure!NoReload, RequestFacts!NoReload, Configure!NoRun,
      RequestFacts!NoRun, Configure!UnderWay, RequestFacts!UnderWay, Configure!Busy,
      RequestFacts!Busy, Configure!Changed, RequestFacts!Changed, Configure!Conclude,
      RequestFacts!Conclude, Configure!Skills, RequestFacts!Skills, Configure!Apply,
      RequestFacts!Apply, Configure!EditFile, RequestFacts!EditFile, Configure!Load,
      RequestFacts!Load, Configure!BeginReload, RequestFacts!BeginReload,
      Configure!Connects, RequestFacts!Connects, Configure!ConnectFails,
      RequestFacts!ConnectFails, Configure!Closed, RequestFacts!Closed,
      Configure!Scanned, RequestFacts!Scanned, Configure!ScanFails,
      RequestFacts!ScanFails, Configure!SendRun, RequestFacts!SendRun,
      Configure!WorkRun, RequestFacts!WorkRun, Configure!EndRun, RequestFacts!EndRun,
      Configure!PauseRun, RequestFacts!PauseRun, Configure!ConfirmRun,
      RequestFacts!ConfirmRun, Configure!DisownRun, RequestFacts!DisownRun,
      Configure!ReturnRun, RequestFacts!ReturnRun, Configure!Becomes,
      RequestFacts!Becomes, Configure!Connecting, RequestFacts!Connecting

(************************* Composition *************************************)
LEMMA SamePromises ==
    /\ ChannelFacts!ChannelOK => Channel!ChannelOK
    /\ ChannelFacts!OneRunPerMessage => Channel!OneRunPerMessage
    /\ ChannelFacts!ReplySentOnce => Channel!ReplySentOnce
    /\ RequestFacts!ConfigTrue => Configure!ConfigTrue
    /\ RequestFacts!ToolsStayOpen => Configure!ToolsStayOpen
  BY Zenon DEF ChannelFacts!ChannelOK, Channel!ChannelOK,
      ChannelFacts!OneRunPerMessage, Channel!OneRunPerMessage,
      ChannelFacts!ReplySentOnce, Channel!ReplySentOnce, RequestFacts!ConfigTrue,
      Configure!ConfigTrue, RequestFacts!ToolsStayOpen, Configure!ToolsStayOpen,
      ChannelFacts!Status, Channel!Status, ChannelFacts!ChannelMessages,
      Channel!ChannelMessages, ChannelFacts!None, Channel!None, ChannelFacts!ToSet,
      Channel!ToSet, ChannelFacts!IsInjective, Channel!IsInjective,
      RequestFacts!UnderWay, Configure!UnderWay

LEMMA SamePromisesOfSeveral ==
    /\ SeveralFacts!ChannelOK => Several!ChannelOK
    /\ SeveralFacts!OneRunPerMessage => Several!OneRunPerMessage
    /\ SeveralFacts!ReplySentOnce => Several!ReplySentOnce
  BY Zenon DEF SeveralFacts!ChannelOK, Several!ChannelOK,
      SeveralFacts!OneRunPerMessage, Several!OneRunPerMessage,
      SeveralFacts!ReplySentOnce, Several!ReplySentOnce,
      SeveralFacts!Status, Several!Status, SeveralFacts!ChannelMessages,
      Several!ChannelMessages, SeveralFacts!None, Several!None, SeveralFacts!ToSet,
      Several!ToSet, SeveralFacts!IsInjective, Several!IsInjective

LEMMA SameMarket ==
    /\ Market!ServiceInit = ChannelFacts!ServiceInit
    /\ Market!ServiceNext = ChannelFacts!ServiceNext
  BY Zenon DEF Market!ServiceInit, ChannelFacts!ServiceInit, Market!ServiceNext,
      ChannelFacts!ServiceNext, Market!Logins, ChannelFacts!Logins, Market!NoCookie,
      ChannelFacts!NoCookie, Market!Configured, ChannelFacts!Configured,
      Market!Cookies, ChannelFacts!Cookies, Market!Idle, ChannelFacts!Idle,
      Market!Shown, ChannelFacts!Shown, Market!Working, ChannelFacts!Working,
      Market!loginState, ChannelFacts!loginState, Market!At, ChannelFacts!At,
      Market!Busy, ChannelFacts!Busy, Market!Begun, ChannelFacts!Begun, Market!LinkUp,
      ChannelFacts!LinkUp, Market!LoginUp, ChannelFacts!LoginUp, Market!StartAdapter,
      ChannelFacts!StartAdapter, Market!StopsReturn, ChannelFacts!StopsReturn,
      Market!Stopped, ChannelFacts!Stopped, Market!StopAdapter,
      ChannelFacts!StopAdapter, Market!RequestStart, ChannelFacts!RequestStart,
      Market!RequestStop, ChannelFacts!RequestStop, Market!Retry, ChannelFacts!Retry,
      Market!TokenArrives, ChannelFacts!TokenArrives, Market!TokenFails,
      ChannelFacts!TokenFails, Market!TokenRefused, ChannelFacts!TokenRefused,
      Market!Opens, ChannelFacts!Opens, Market!Closes, ChannelFacts!Closes,
      Market!GivesUp, ChannelFacts!GivesUp, Market!OldSocketCloses,
      ChannelFacts!OldSocketCloses, Market!TriesAgain, ChannelFacts!TriesAgain,
      Market!Ends, ChannelFacts!Ends, Market!Goes, ChannelFacts!Goes,
      Market!LoginStarts, ChannelFacts!LoginStarts, Market!Prepared,
      ChannelFacts!Prepared, Market!PollAnswered, ChannelFacts!PollAnswered,
      Market!LoginFinishes, ChannelFacts!LoginFinishes, Market!Persist,
      ChannelFacts!Persist, Market!ServiceRestarts, ChannelFacts!ServiceRestarts

LEMMA SamePlatform ==
    /\ Market!CallsInit = ChannelFacts!CallsInit
    /\ Market!CallsNext = ChannelFacts!CallsNext
  BY Zenon DEF Market!CallsInit, ChannelFacts!CallsInit, Market!CallsNext,
      ChannelFacts!CallsNext, Market!NewAsk, ChannelFacts!NewAsk, Market!Quiet,
      ChannelFacts!Quiet, Market!platform, ChannelFacts!platform, Market!disk,
      ChannelFacts!disk, Market!Steps, ChannelFacts!Steps, Market!After,
      ChannelFacts!After, Market!Becomes, ChannelFacts!Becomes, Market!Fails,
      ChannelFacts!Fails, Market!Talks, ChannelFacts!Talks, Market!Ask,
      ChannelFacts!Ask, Market!FrameSent, ChannelFacts!FrameSent, Market!TimesOut,
      ChannelFacts!TimesOut, Market!Below, ChannelFacts!Below, Market!PageFrom,
      ChannelFacts!PageFrom, Market!Page, ChannelFacts!Page,
      Market!HistoryAnswered, ChannelFacts!HistoryAnswered, Market!ChatAnswered,
      ChannelFacts!ChatAnswered, Market!Gone, ChannelFacts!Gone,
      Market!Disconnects, ChannelFacts!Disconnects, Market!Reconnects,
      ChannelFacts!Reconnects, Market!EndsAnyway, ChannelFacts!EndsAnyway,
      Market!PublishStarts, ChannelFacts!PublishStarts, Market!CallAnswered,
      ChannelFacts!CallAnswered, Market!TokenExpires, ChannelFacts!TokenExpires,
      Market!CallFails, ChannelFacts!CallFails, Market!Notes, ChannelFacts!Notes,
      Market!Serializes, ChannelFacts!Serializes, Market!Renames,
      ChannelFacts!Renames, Market!WriteFails, ChannelFacts!WriteFails

LEMMA SamePromisesOfXianyu ==
    /\ ChannelFacts!ServiceOK => Market!ServiceOK
    /\ ChannelFacts!StartedRuns => Market!StartedRuns
    /\ ChannelFacts!OneAccount => Market!OneAccount
    /\ ChannelFacts!ConnectedTells => Market!ConnectedTells
    /\ ChannelFacts!StatusTells => Market!StatusTells
    /\ ChannelFacts!CallsOK => Market!CallsOK
    /\ ChannelFacts!WaitsOnConnection => Market!WaitsOnConnection
    /\ ChannelFacts!HistoryWhole => Market!HistoryWhole
    /\ ChannelFacts!ListedOnce => Market!ListedOnce
    /\ ChannelFacts!WriterRests => Market!WriterRests
  BY Zenon DEF ChannelFacts!ServiceOK, Market!ServiceOK, ChannelFacts!StartedRuns,
      Market!StartedRuns, ChannelFacts!OneAccount, Market!OneAccount,
      ChannelFacts!ConnectedTells, Market!ConnectedTells, ChannelFacts!StatusTells,
      Market!StatusTells, ChannelFacts!CallsOK, Market!CallsOK,
      ChannelFacts!WaitsOnConnection, Market!WaitsOnConnection,
      ChannelFacts!HistoryWhole, Market!HistoryWhole, ChannelFacts!ListedOnce,
      Market!ListedOnce, ChannelFacts!WriterRests, Market!WriterRests,
      Market!Logins, ChannelFacts!Logins, Market!Cookies, ChannelFacts!Cookies,
      Market!Shown, ChannelFacts!Shown, Market!Working, ChannelFacts!Working,
      Market!Idle, ChannelFacts!Idle, Market!NoCookie, ChannelFacts!NoCookie,
      Market!Busy, ChannelFacts!Busy, Market!Steps, ChannelFacts!Steps

LEMMA GivenByRun == MaxLogins \in Nat /\ ChannelFacts!Given /\ MaxNoted \in Nat
  BY DEF MaxLogins, MaxNoted, ChannelFacts!Given, ChannelFacts!Kinds, PageSize, MaxTalk, KindOf, Asked

LEMMA ApartMessages == ChannelFacts!Disjoint /\ SeveralFacts!Disjoint
  BY DEF ChannelFacts!Disjoint, SeveralFacts!Disjoint, Inbound, Local

(* One run for a message of a buyer and one reply, whatever is repeated, lost or dies   *)
(* (the adapter, xianyu-routes.ts and the deliveries of the database); the adapter says *)
(* what is so of its connection and its login (transport.ts, login.ts, main.ts), reads  *)
(* whole histories and lists an item once (transport.ts, client.ts), in the run.        *)
THEOREM ChannelComposed == Spec => []ChannelOnce
<1>1. Init => ChannelSafe
  BY SameInit, ApartMessages, ChannelFacts!InitInv DEF Init, ChannelSafe
<1>2. ChannelSafe /\ [Next]_servicesVars => ChannelSafe'
  <2> SUFFICES ASSUME ChannelSafe, [Next]_servicesVars, part' = "channel" PROVE
         ChannelFacts!ChannelInv'
    BY DEF ChannelSafe
  <2>1. ChannelFacts!ChannelInv /\ [ChannelFacts!ChannelNext]_(ChannelFacts!channelVars)
    <3>1. CASE Next
      BY <3>1, SameNext DEF Next, Moves, ChannelSafe
    <3>2. CASE UNCHANGED servicesVars
      BY <3>2 DEF servicesVars, channelState, ChannelSafe, ChannelFacts!channelVars
    <3> QED BY <3>1, <3>2
  <2> QED BY <2>1, ApartMessages, ChannelFacts!NextInv
<1>3. Init => MarketSafe
  BY SameMarket, GivenByRun, ChannelFacts!InitHolds DEF Init, MarketSafe
<1>4. MarketSafe /\ [Next]_servicesVars => MarketSafe'
  <2> SUFFICES ASSUME MarketSafe, [Next]_servicesVars, part' = "market" PROVE
         ChannelFacts!ServiceInv'
    BY DEF MarketSafe
  <2>1. ChannelFacts!ServiceInv /\ [ChannelFacts!ServiceNext]_(ChannelFacts!serviceVars)
    <3>1. CASE Next
      BY <3>1, SameMarket DEF Next, Moves, MarketSafe
    <3>2. CASE UNCHANGED servicesVars
      BY <3>2 DEF servicesVars, marketState, MarketSafe, ChannelFacts!serviceVars
    <3> QED BY <3>1, <3>2
  <2> QED BY <2>1, GivenByRun, ChannelFacts!ServiceStep
<1>5. Init => PlatformSafe
  BY SamePlatform, GivenByRun, ChannelFacts!CallsBegin DEF Init, PlatformSafe
<1>6. PlatformSafe /\ [Next]_servicesVars => PlatformSafe'
  <2> SUFFICES ASSUME PlatformSafe, [Next]_servicesVars, part' = "platform" PROVE
         ChannelFacts!CallsInv'
    BY DEF PlatformSafe
  <2>1. ChannelFacts!CallsInv /\ [ChannelFacts!CallsNext]_(ChannelFacts!callsVars)
    <3>1. CASE Next
      BY <3>1, SamePlatform DEF Next, Moves, PlatformSafe
    <3>2. CASE UNCHANGED servicesVars
      BY <3>2 DEF servicesVars, platformState, PlatformSafe, ChannelFacts!callsVars
    <3> QED BY <3>1, <3>2
  <2> QED BY <2>1, GivenByRun, ChannelFacts!CallsStep
<1>7. Init => SeveralSafe
  BY SameInitOfSeveral, ApartMessages, SeveralFacts!InitInv DEF Init, SeveralSafe
<1>8. SeveralSafe /\ [Next]_servicesVars => SeveralSafe'
  <2> SUFFICES ASSUME SeveralSafe, [Next]_servicesVars, part' = "several" PROVE
         SeveralFacts!ChannelInv'
    BY DEF SeveralSafe
  <2>1. SeveralFacts!ChannelInv /\ [SeveralFacts!ChannelNext]_(SeveralFacts!channelVars)
    <3>1. CASE Next
      BY <3>1, SameNextOfSeveral DEF Next, SeveralSafe
    <3>2. CASE UNCHANGED servicesVars
      BY <3>2 DEF servicesVars, channelState, SeveralSafe, SeveralFacts!channelVars
    <3> QED BY <3>1, <3>2
  <2> QED BY <2>1, ApartMessages, SeveralFacts!NextInv
<1>9. ChannelSafe /\ SeveralSafe /\ MarketSafe /\ PlatformSafe => ChannelOnce
  <2>1. ChannelSafe => (part = "channel" => /\ Channel!ChannelOK /\ Channel!OneRunPerMessage
                                            /\ Channel!ReplySentOnce)
    BY SamePromises, ChannelFacts!InvPromises DEF ChannelSafe
  <2>2. MarketSafe => (part = "market" => /\ Market!ServiceOK /\ Market!StartedRuns
                                          /\ Market!OneAccount /\ Market!ConnectedTells
                                          /\ Market!StatusTells)
    BY SamePromisesOfXianyu, ChannelFacts!ServicePromises DEF MarketSafe
  <2>3. PlatformSafe => (part = "platform" => /\ Market!CallsOK /\ Market!WaitsOnConnection
                                              /\ Market!HistoryWhole /\ Market!ListedOnce
                                              /\ Market!WriterRests)
    BY SamePromisesOfXianyu, ChannelFacts!CallsPromises DEF PlatformSafe
  <2>4. SeveralSafe => (part = "several" => /\ Several!ChannelOK /\ Several!OneRunPerMessage
                                            /\ Several!ReplySentOnce)
    BY SamePromisesOfSeveral, SeveralFacts!InvPromises DEF SeveralSafe
  <2> QED BY <2>1, <2>2, <2>3, <2>4 DEF ChannelOnce
<1> QED BY <1>1, <1>2, <1>3, <1>4, <1>5, <1>6, <1>7, <1>8, <1>9, PTL DEF Spec

(* What runs are given is what the runtime says, and a run keeps its tools              *)
(* (reloadConfig, hasQueued), in the run.                                               *)
THEOREM ReloadComposed == Spec => []ReloadTrue
<1>1. Init => ReloadSafe
  BY SameConfig, RequestFacts!ReloadInitInv DEF Init, ReloadSafe
<1>2. ReloadSafe /\ [Next]_servicesVars => ReloadSafe'
  <2> SUFFICES ASSUME ReloadSafe, [Next]_servicesVars, part' = "reload" PROVE
         RequestFacts!ReloadInv'
    BY DEF ReloadSafe
  <2>1. RequestFacts!ReloadInv /\ [RequestFacts!ReloadNext]_(RequestFacts!reloadVars)
    <3>1. CASE Next
      BY <3>1, SameConfig DEF Next, Moves, ReloadSafe
    <3>2. CASE UNCHANGED servicesVars
      BY <3>2 DEF servicesVars, reloadState, ReloadSafe, RequestFacts!reloadVars
    <3> QED BY <3>1, <3>2
  <2> QED BY <2>1, RequestFacts!ReloadNextInv
<1>3. ReloadSafe => ReloadTrue
  BY SamePromises, RequestFacts!ReloadInvPromises DEF ReloadSafe, ReloadTrue
<1> QED BY <1>1, <1>2, <1>3, PTL DEF Spec

LEMMA SamePhone ==
    /\ Phone!RequestsInit = RequestFacts!RequestsInit
    /\ Phone!RequestsNext = RequestFacts!RequestsNext
  BY Zenon DEF Phone!RequestsInit, RequestFacts!RequestsInit, Phone!RequestsNext,
      RequestFacts!RequestsNext, Phone!NoQueue, RequestFacts!NoQueue, Phone!Blank,
      RequestFacts!Blank, Phone!Free, RequestFacts!Free, Phone!Chosen, RequestFacts!Chosen,
      Phone!Request, RequestFacts!Request, Phone!Selecting, RequestFacts!Selecting,
      Phone!Current, RequestFacts!Current, Phone!SameClient, RequestFacts!SameClient,
      Phone!OfUser, RequestFacts!OfUser, Phone!First, RequestFacts!First, Phone!Left,
      RequestFacts!Left, Phone!Shown, RequestFacts!Shown, Phone!Answered,
      RequestFacts!Answered, Phone!Chooses, RequestFacts!Chooses, Phone!Allowed,
      RequestFacts!Allowed, Phone!QueueWrite, RequestFacts!QueueWrite, Phone!QueueRead,
      RequestFacts!QueueRead, Phone!PlanWrite, RequestFacts!PlanWrite, Phone!MessageWrite,
      RequestFacts!MessageWrite, Phone!ApprovalWrite, RequestFacts!ApprovalWrite,
      Phone!ModelWrite, RequestFacts!ModelWrite, Phone!SessionWrite,
      RequestFacts!SessionWrite, Phone!SessionCreation, RequestFacts!SessionCreation,
      Phone!SessionDeletion, RequestFacts!SessionDeletion, Phone!TaskRequest,
      RequestFacts!TaskRequest, Phone!ScheduleRequest, RequestFacts!ScheduleRequest,
      Phone!FileRequest, RequestFacts!FileRequest, Phone!ServiceRequest,
      RequestFacts!ServiceRequest, Phone!ChannelRequest, RequestFacts!ChannelRequest,
      Phone!TaskCreation, RequestFacts!TaskCreation, Phone!ScheduleCreation,
      RequestFacts!ScheduleCreation, Phone!DraftRequest, RequestFacts!DraftRequest,
      Phone!AgentWorkspace, RequestFacts!AgentWorkspace, Phone!ModelList,
      RequestFacts!ModelList, Phone!ExecutionSettings, RequestFacts!ExecutionSettings,
      Phone!Management, RequestFacts!Management, Phone!ChannelWorkspace,
      RequestFacts!ChannelWorkspace, Phone!Start, RequestFacts!Start, Phone!QueueAnswer,
      RequestFacts!QueueAnswer, Phone!LookAnswer, RequestFacts!LookAnswer,
      Phone!MessageAnswer, RequestFacts!MessageAnswer, Phone!TaskAnswer,
      RequestFacts!TaskAnswer, Phone!NewTaskAnswer, RequestFacts!NewTaskAnswer,
      Phone!CreateAnswer, RequestFacts!CreateAnswer, Phone!DeleteAnswer,
      RequestFacts!DeleteAnswer, Phone!DraftAnswer, RequestFacts!DraftAnswer,
      Phone!AgentAnswer, RequestFacts!AgentAnswer, Phone!SettingsAnswer,
      RequestFacts!SettingsAnswer, Phone!SelectAnswer, RequestFacts!SelectAnswer,
      Phone!ListAnswer, RequestFacts!ListAnswer, Phone!Answer, RequestFacts!Answer,
      Phone!Login, RequestFacts!Login, Phone!LoginConnects, RequestFacts!LoginConnects,
      Phone!LoggedIn, RequestFacts!LoggedIn, Phone!LoginFails, RequestFacts!LoginFails,
      Phone!Logout, RequestFacts!Logout, Phone!Revoke, RequestFacts!Revoke, Phone!Cleared,
      RequestFacts!Cleared

LEMMA SamePromisesOfPhone ==
    /\ RequestFacts!RequestsOK => Phone!RequestsOK
    /\ RequestFacts!QueueOfSelection => Phone!QueueOfSelection
    /\ RequestFacts!AccountAlone => Phone!AccountAlone
    /\ RequestFacts!FlagReleased => Phone!FlagReleased
  BY Zenon DEF RequestFacts!RequestsOK, Phone!RequestsOK, RequestFacts!QueueOfSelection,
      Phone!QueueOfSelection, RequestFacts!AccountAlone, Phone!AccountAlone,
      RequestFacts!FlagReleased, Phone!FlagReleased, Phone!Cardinality,
      RequestFacts!Cardinality, Phone!NoQueue, RequestFacts!NoQueue, Phone!Releases,
      RequestFacts!Releases, Phone!Current, RequestFacts!Current, Phone!SameClient,
      RequestFacts!SameClient

LEMMA NumberedPhone == RequestFacts!Numbered
  BY DEF RequestFacts!Numbered, Users, Conversations, UserOf, MaxActs

(* An answer that arrives late shows nothing of another session or account, and the     *)
(* flag is released by someone (the coroutines of MainActivity.kt), in the run.         *)
THEOREM PhoneComposed == Spec => []AnswersFitTheScreen
<1>1. Init => PhoneSafe
  BY SamePhone, NumberedPhone, RequestFacts!RequestsInitInv DEF Init, PhoneSafe
<1>2. PhoneSafe /\ [Next]_servicesVars => PhoneSafe'
  <2> SUFFICES ASSUME PhoneSafe, [Next]_servicesVars, part' = "phone" PROVE RequestFacts!RequestsInv'
    BY DEF PhoneSafe
  <2>1. RequestFacts!RequestsInv /\ [RequestFacts!RequestsNext]_(RequestFacts!requestVars)
    <3>1. CASE Next
      BY <3>1, SamePhone DEF Next, Moves, PhoneSafe
    <3>2. CASE UNCHANGED servicesVars
      BY <3>2 DEF servicesVars, phoneState, PhoneSafe, RequestFacts!requestVars
    <3> QED BY <3>1, <3>2
  <2> QED BY <2>1, NumberedPhone, RequestFacts!RequestsNextInv
<1>3. PhoneSafe => AnswersFitTheScreen
  BY SamePromisesOfPhone, NumberedPhone, RequestFacts!RequestsInvPromises DEF PhoneSafe, AnswersFitTheScreen
<1> QED BY <1>1, <1>2, <1>3, PTL DEF Spec

(* No step but the end of a deletion takes a session away that a deletion   *)
(* waits for.                                                               *)
LEMMA OnlyDeletionErases ==
  ASSUME Sessions!LifeNext, NEW s \in Homes, deletions[s] # {}, s \in alive, s \notin alive'
  PROVE  Sessions!Stopped(s)
<1>1. ASSUME NEW t \in Homes, Sessions!DeleteSession(t) PROVE t # s /\ alive \ {t} \subseteq alive'
  <2>1. deletions[t] = {}
    BY <1>1, ZenonT(30) DEF Sessions!DeleteSession
  <2>2. CASE Sessions!Active(t) # {}
    <3>1. alive' = alive
      BY <1>1, <2>2, ZenonT(30) DEF Sessions!DeleteSession
    <3> QED BY <2>1, <3>1
  <2>3. CASE Sessions!Active(t) = {}
    <3>1. alive' = alive \ {t}
      BY <1>1, <2>3, ZenonT(30) DEF Sessions!DeleteSession, Sessions!Erased
    <3> QED BY <2>1, <3>1
  <2> QED BY <2>2, <2>3
<1>2. ASSUME NEW t \in Homes, Sessions!DeletionEnds(t)
      PROVE  Sessions!Stopped(t) /\ alive' = alive \ {t}
  BY <1>2 DEF Sessions!DeletionEnds, Sessions!Erased
<1>3. ASSUME NEW t \in Homes,
             \/ Sessions!CreateSession(t) \/ Sessions!DeletionTimesOut(t)
             \/ Sessions!CreateTask(t) \/ Sessions!CancelTask(t)
             \/ \E p \in BOOLEAN : Sessions!PostTo(t, p) \/ Sessions!ExecuteTask(t, p)
      PROVE  alive \subseteq alive'
  <2>1. CASE Sessions!CreateSession(t)
    BY <2>1 DEF Sessions!CreateSession
  <2>2. ASSUME NEW p \in BOOLEAN, Sessions!PostTo(t, p) PROVE alive \subseteq alive'
    BY <2>2 DEF Sessions!PostTo
  <2>3. CASE Sessions!DeletionTimesOut(t)
    BY <2>3 DEF Sessions!DeletionTimesOut
  <2>4. CASE Sessions!CreateTask(t)
    BY <2>4 DEF Sessions!CreateTask
  <2>5. ASSUME NEW p \in BOOLEAN, Sessions!ExecuteTask(t, p) PROVE alive \subseteq alive'
    BY <2>5 DEF Sessions!ExecuteTask
  <2>6. CASE Sessions!CancelTask(t)
    BY <2>6 DEF Sessions!CancelTask
  <2> QED BY <1>3, <2>1, <2>2, <2>3, <2>4, <2>5, <2>6
<1>4. ASSUME NEW r \in DOMAIN lifeJobs,
             \/ Sessions!JobStarts(r) \/ Sessions!CancelJob(r)
             \/ Sessions!RejectAction(r) \/ Sessions!ResumeJob(r)
             \/ \E o \in Sessions!Over : Sessions!JobEnds(r, o)
      PROVE  alive \subseteq alive'
  <2>1. CASE Sessions!JobStarts(r)
    BY <2>1 DEF Sessions!JobStarts
  <2>2. CASE Sessions!CancelJob(r)
    <3>1. alive' = alive
      BY <2>2, ZenonT(30) DEF Sessions!CancelJob
    <3> QED BY <3>1
  <2>3. ASSUME NEW o \in Sessions!Over, Sessions!JobEnds(r, o) PROVE alive \subseteq alive'
    <3>1. alive' = alive
      BY <2>3, ZenonT(30) DEF Sessions!JobEnds
    <3> QED BY <3>1
  <2>4. CASE Sessions!RejectAction(r)
    BY <2>4, ZenonT(30) DEF Sessions!RejectAction
  <2>5. CASE Sessions!ResumeJob(r)
    BY <2>5, ZenonT(30) DEF Sessions!ResumeJob
  <2> QED BY <1>4, <2>1, <2>2, <2>3, <2>4, <2>5
<1>5. ASSUME NEW u \in DOMAIN uploads,
             Sessions!WriteEnds(u) \/ \E t \in Homes : Sessions!StartUpload(u, t)
      PROVE  alive \subseteq alive'
  <2>1. CASE Sessions!WriteEnds(u)
    BY <2>1 DEF Sessions!WriteEnds
  <2>2. ASSUME NEW t \in Homes, Sessions!StartUpload(u, t) PROVE alive \subseteq alive'
    BY <2>2 DEF Sessions!StartUpload
  <2> QED BY <1>5, <2>1, <2>2
<1>6. CASE \E t \in Homes : Sessions!DeletionEnds(t)
  BY <1>2, <1>6
<1> QED BY <1>1, <1>3, <1>4, <1>5, <1>6 DEF Sessions!LifeNext

(* A session does not disappear under a run that was executing when its     *)
(* deletion was asked for, whatever else its tasks and users do             *)
(* (deleteSession), in the run.                                             *)
THEOREM DeletionWaits == Spec => DeletedWhenIdle
<1>1. ASSUME [Next]_servicesVars, part = "sessions", NEW s \in Homes,
             deletions[s] # {}, s \in alive, s \notin alive'
      PROVE  \A r \in deletions[s] : ~lifeJobs[r].works
  <2>1. Sessions!LifeNext
    <3>1. CASE UNCHANGED servicesVars
      BY <1>1, <3>1 DEF servicesVars, sessionState
    <3> QED BY <1>1, <3>1 DEF Next, Moves
  <2> QED BY <1>1, <2>1, OnlyDeletionErases DEF Sessions!Stopped
<1> DEFINE Kept == part = "sessions" => \A s \in Homes :
           deletions[s] # {} /\ s \in alive /\ s \notin alive' =>
               \A r \in deletions[s] : ~lifeJobs[r].works
<1>2. [Next]_servicesVars => [Kept]_servicesVars
  BY <1>1
<1> QED BY <1>2, PTL DEF Spec, DeletedWhenIdle

(*************** What accounts are given and may do ************************)
LEMMA SameLogin ==
    /\ Auth!CredentialsInit = AccountFacts!CredentialsInit
    /\ Auth!CredentialsNext = AccountFacts!CredentialsNext
    /\ Auth!CredentialsOK = AccountFacts!CredentialsOK
    /\ Auth!OneTokenPerCode = AccountFacts!OneTokenPerCode
    /\ Auth!AttemptsLimited = AccountFacts!AttemptsLimited
  BY Zenon DEF Auth!CredentialsInit, AccountFacts!CredentialsInit,
      Auth!CredentialsNext, AccountFacts!CredentialsNext, Auth!CredentialsOK,
      AccountFacts!CredentialsOK, Auth!OneTokenPerCode, AccountFacts!OneTokenPerCode,
      Auth!AttemptsLimited, AccountFacts!AttemptsLimited, Auth!NoWindow,
      AccountFacts!NoWindow, Auth!TokenUser, AccountFacts!TokenUser, Auth!CookieUser,
      AccountFacts!CookieUser, Auth!Principals, AccountFacts!Principals,
      Auth!IssueToken, AccountFacts!IssueToken, Auth!PutWebSession,
      AccountFacts!PutWebSession, Auth!CreateWebSession,
      AccountFacts!CreateWebSession, Auth!Allowed, AccountFacts!Allowed,
      Auth!Recorded, AccountFacts!Recorded, Auth!Register, AccountFacts!Register,
      Auth!LoginFails, AccountFacts!LoginFails, Auth!Login, AccountFacts!Login,
      Auth!DeleteWebSession, AccountFacts!DeleteWebSession, Auth!Logout,
      AccountFacts!Logout, Auth!AddToken, AccountFacts!AddToken, Auth!RevokeToken,
      AccountFacts!RevokeToken, Auth!PutCode, AccountFacts!PutCode, Auth!Authorize,
      AccountFacts!Authorize, Auth!ConsumeCode, AccountFacts!ConsumeCode,
      Auth!Exchange, AccountFacts!Exchange, Auth!ClearExpired,
      AccountFacts!ClearExpired, Auth!Passes, AccountFacts!Passes, Auth!InWindow,
      AccountFacts!InWindow, Auth!Cardinality, AccountFacts!Cardinality

LEMMA SameSkills ==
    /\ Skills!SkillsInit = AccountFacts!SkillsInit
    /\ Skills!SkillsNext = AccountFacts!SkillsNext
    /\ Skills!SkillsOK = AccountFacts!SkillsOK
    /\ Skills!ServedApproved = AccountFacts!ServedApproved
    /\ Skills!RowTellsRoot = AccountFacts!RowTellsRoot
    /\ Skills!RegistryCurrent = AccountFacts!RegistryCurrent
  BY Zenon DEF Skills!SkillsInit, AccountFacts!SkillsInit, Skills!SkillsNext,
      AccountFacts!SkillsNext, Skills!SkillsOK, AccountFacts!SkillsOK,
      Skills!ServedApproved, AccountFacts!ServedApproved, Skills!RowTellsRoot,
      AccountFacts!RowTellsRoot, Skills!RegistryCurrent, AccountFacts!RegistryCurrent,
      Skills!NoPackage, AccountFacts!NoPackage, Skills!Found, AccountFacts!Found,
      Skills!ExtremeRisk, AccountFacts!ExtremeRisk, Skills!Given, AccountFacts!Given,
      Skills!RequestBegins, AccountFacts!RequestBegins, Skills!RequestGoes,
      AccountFacts!RequestGoes, Skills!Ends, AccountFacts!Ends, Skills!Watched,
      AccountFacts!Watched, Skills!Install, AccountFacts!Install, Skills!Staged,
      AccountFacts!Staged, Skills!WriteFails, AccountFacts!WriteFails,
      Skills!OldRemoved, AccountFacts!OldRemoved, Skills!RemovalFails,
      AccountFacts!RemovalFails, Skills!Enable, AccountFacts!Enable, Skills!Copied,
      AccountFacts!Copied, Skills!CopyFails, AccountFacts!CopyFails, Skills!Cleared,
      AccountFacts!Cleared, Skills!Named, AccountFacts!Named, Skills!NameTaken,
      AccountFacts!NameTaken, Skills!Withdraw, AccountFacts!Withdraw,
      Skills!Discarded, AccountFacts!Discarded, Skills!StatusRecorded,
      AccountFacts!StatusRecorded, Skills!Scanned, AccountFacts!Scanned,
      Skills!Served, AccountFacts!Served, Skills!WatchScans, AccountFacts!WatchScans,
      Skills!WatchServes, AccountFacts!WatchServes, Skills!WatchFails,
      AccountFacts!WatchFails, Skills!Restart, AccountFacts!Restart,
      Skills!Cardinality, AccountFacts!Cardinality

LEMMA SamePermits ==
    /\ Permit!ApprovalsInit = AccountFacts!ApprovalsInit
    /\ Permit!ApprovalsNext = AccountFacts!ApprovalsNext
    /\ Permit!ApprovalsOK = AccountFacts!ApprovalsOK
    /\ Permit!AnswerFitsRow = AccountFacts!AnswerFitsRow
    /\ Permit!PolicyAnswers = AccountFacts!PolicyAnswers
  BY Zenon DEF Permit!ApprovalsInit, AccountFacts!ApprovalsInit, Permit!ApprovalsNext,
      AccountFacts!ApprovalsNext, Permit!ApprovalsOK, AccountFacts!ApprovalsOK,
      Permit!AnswerFitsRow, AccountFacts!AnswerFitsRow, Permit!PolicyAnswers,
      AccountFacts!PolicyAnswers, Permit!PendingCalls, AccountFacts!PendingCalls,
      Permit!AwaitingPlans, AccountFacts!AwaitingPlans, Permit!Settled,
      AccountFacts!Settled, Permit!Answered, AccountFacts!Answered, Permit!Told,
      AccountFacts!Told, Permit!CreateApproval, AccountFacts!CreateApproval,
      Permit!Request, AccountFacts!Request, Permit!Resolve, AccountFacts!Resolve,
      Permit!Expire, AccountFacts!Expire, Permit!Abort, AccountFacts!Abort,
      Permit!AskPlan, AccountFacts!AskPlan, Permit!ConfirmPlan,
      AccountFacts!ConfirmPlan, Permit!SetExecutionSettings,
      AccountFacts!SetExecutionSettings, Permit!Switch, AccountFacts!Switch,
      Permit!SwitchCut, AccountFacts!SwitchCut, Permit!Stop, AccountFacts!Stop,
      Permit!Dies, AccountFacts!Dies, Permit!Start, AccountFacts!Start

LEMMA SameImprovements ==
    /\ Improve!OptimizationInit = AccountFacts!OptimizationInit
    /\ Improve!OptimizationNext = AccountFacts!OptimizationNext
    /\ Improve!OptimizationOK = AccountFacts!OptimizationOK
    /\ Improve!Undone = AccountFacts!Undone
    /\ Improve!OriginalsKept = AccountFacts!OriginalsKept
  BY Zenon DEF Improve!OptimizationInit, AccountFacts!OptimizationInit,
      Improve!OptimizationNext, AccountFacts!OptimizationNext, Improve!OptimizationOK,
      AccountFacts!OptimizationOK, Improve!Undone, AccountFacts!Undone,
      Improve!OriginalsKept, AccountFacts!OriginalsKept, Improve!Original,
      AccountFacts!Original, Improve!UnderWay, AccountFacts!UnderWay, Improve!Trouble,
      AccountFacts!Trouble, Improve!AddOptimizationProposal,
      AccountFacts!AddOptimizationProposal, Improve!UpdateOptimizationProposal,
      AccountFacts!UpdateOptimizationProposal, Improve!Generate,
      AccountFacts!Generate, Improve!Decide, AccountFacts!Decide, Improve!Writable,
      AccountFacts!Writable, Improve!Begins, AccountFacts!Begins, Improve!Apply,
      AccountFacts!Apply, Improve!Path, AccountFacts!Path, Improve!Goes,
      AccountFacts!Goes, Improve!CopyOne, AccountFacts!CopyOne, Improve!WriteOne,
      AccountFacts!WriteOne, Improve!AddApplication, AccountFacts!AddApplication,
      Improve!Validate, AccountFacts!Validate, Improve!UndoOrder,
      AccountFacts!UndoOrder, Improve!Reverse, AccountFacts!Reverse,
      Improve!ApplyFails, AccountFacts!ApplyFails, Improve!UndoOne,
      AccountFacts!UndoOne, Improve!UndoEnds, AccountFacts!UndoEnds,
      Improve!UpdateOptimizationApplication,
      AccountFacts!UpdateOptimizationApplication, Improve!Alone, AccountFacts!Alone,
      Improve!Rollback, AccountFacts!Rollback, Improve!RestoreOne,
      AccountFacts!RestoreOne, Improve!RestoreFails, AccountFacts!RestoreFails,
      Improve!RollbackEnds, AccountFacts!RollbackEnds, Improve!Crash,
      AccountFacts!Crash, Improve!Decision, AccountFacts!Decision,
      Improve!Application, AccountFacts!Application

(* What the proofs ask of the constants holds of the run's.                *)
LEMMA GivenAccounts == AccountFacts!CredentialLimits /\ AccountFacts!SkillLimits /\ AccountFacts!PathsGiven
<1>1. AccountFacts!CredentialLimits
  BY DEF AccountFacts!CredentialLimits, FailureLimit, RegistrationLimit, FailureWindow,
         RegistrationWindow, SessionHours, CodeLife, MaxTokens, LastInstant
<1>2. AccountFacts!SkillLimits
  BY DEF AccountFacts!SkillLimits, MaxContents
<1>3. AccountFacts!PathsGiven
  BY DEF AccountFacts!PathsGiven, Paths, Present, ChangeLists
<1> QED BY <1>1, <1>2, <1>3

(* What accounts are given and may do stays within what was decided, in the *)
(* run: AuthService, SkillPackageService, RunApprovals and the execution of *)
(* optimizations.                                                           *)
THEOREM AccountsComposed == Spec => []AccountsAndPermissions
<1>1. Init => LoginSafe /\ SkillsSafe /\ PermitSafe /\ ImproveSafe
  <2>1. Init => Auth!CredentialsInit /\ Skills!SkillsInit /\ Permit!ApprovalsInit /\ Improve!OptimizationInit
    BY DEF Init
  <2>2. Init => /\ AccountFacts!CredentialsInit /\ AccountFacts!SkillsInit
                /\ AccountFacts!ApprovalsInit /\ AccountFacts!OptimizationInit
    BY <2>1, SameLogin, SameSkills, SamePermits, SameImprovements
  <2> QED BY <2>2, GivenAccounts, AccountFacts!InitCredentials, AccountFacts!InitSkills,
             AccountFacts!InitPermit, AccountFacts!InitOptimization
          DEF LoginSafe, SkillsSafe, PermitSafe, ImproveSafe
<1>2. LoginSafe /\ [Next]_servicesVars => LoginSafe'
  <2> SUFFICES ASSUME LoginSafe, [Next]_servicesVars, part' = "login" PROVE AccountFacts!CredentialsInv'
    BY DEF LoginSafe
  <2>1. AccountFacts!CredentialsInv /\ [AccountFacts!CredentialsNext]_(AccountFacts!credentialVars)
    <3>1. CASE Next
      BY <3>1, SameLogin DEF Next, Moves, LoginSafe
    <3>2. CASE UNCHANGED servicesVars
      BY <3>2 DEF servicesVars, loginState, LoginSafe, AccountFacts!credentialVars
    <3> QED BY <3>1, <3>2
  <2> QED BY <2>1, GivenAccounts, AccountFacts!NextCredentials
<1>3. SkillsSafe /\ [Next]_servicesVars => SkillsSafe'
  <2> SUFFICES ASSUME SkillsSafe, [Next]_servicesVars, part' = "skills" PROVE AccountFacts!SkillsInv'
    BY DEF SkillsSafe
  <2>1. AccountFacts!SkillsInv /\ [AccountFacts!SkillsNext]_(AccountFacts!skillVars)
    <3>1. CASE Next
      BY <3>1, SameSkills DEF Next, Moves, SkillsSafe
    <3>2. CASE UNCHANGED servicesVars
      BY <3>2 DEF servicesVars, skillsState, SkillsSafe, AccountFacts!skillVars
    <3> QED BY <3>1, <3>2
  <2> QED BY <2>1, GivenAccounts, AccountFacts!NextSkills
<1>4. PermitSafe /\ [Next]_servicesVars => PermitSafe'
  <2> SUFFICES ASSUME PermitSafe, [Next]_servicesVars, part' = "permits" PROVE AccountFacts!PermitInv'
    BY DEF PermitSafe
  <2>1. AccountFacts!PermitInv /\ [AccountFacts!ApprovalsNext]_(AccountFacts!approvalVars)
    <3>1. CASE Next
      BY <3>1, SamePermits DEF Next, Moves, PermitSafe
    <3>2. CASE UNCHANGED servicesVars
      BY <3>2 DEF servicesVars, permitState, PermitSafe, AccountFacts!approvalVars
    <3> QED BY <3>1, <3>2
  <2> QED BY <2>1, AccountFacts!NextPermit
<1>5. ImproveSafe /\ [Next]_servicesVars => ImproveSafe'
  <2> SUFFICES ASSUME ImproveSafe, [Next]_servicesVars, part' = "improve" PROVE AccountFacts!OptInv'
    BY DEF ImproveSafe
  <2>1. AccountFacts!OptInv /\ [AccountFacts!OptimizationNext]_(AccountFacts!optimizationVars)
    <3>1. CASE Next
      BY <3>1, SameImprovements DEF Next, Moves, ImproveSafe
    <3>2. CASE UNCHANGED servicesVars
      BY <3>2 DEF servicesVars, improveState, ImproveSafe, AccountFacts!optimizationVars
    <3> QED BY <3>1, <3>2
  <2> QED BY <2>1, GivenAccounts, AccountFacts!NextOptimization
<1>6. LoginSafe /\ SkillsSafe /\ PermitSafe /\ ImproveSafe => AccountsAndPermissions
  <2>1. AccountFacts!CredentialsInv =>
            AccountFacts!CredentialsOK /\ AccountFacts!OneTokenPerCode /\ AccountFacts!AttemptsLimited
    BY GivenAccounts, AccountFacts!CredentialsPromise
  <2>2. AccountFacts!SkillsInv => /\ AccountFacts!SkillsOK /\ AccountFacts!ServedApproved
                                  /\ AccountFacts!RowTellsRoot /\ AccountFacts!RegistryCurrent
    BY GivenAccounts, AccountFacts!SkillsPromise
  <2>3. AccountFacts!PermitInv =>
            AccountFacts!ApprovalsOK /\ AccountFacts!AnswerFitsRow /\ AccountFacts!PolicyAnswers
    BY DEF AccountFacts!PermitInv
  <2>4. AccountFacts!OptInv =>
            AccountFacts!OptimizationOK /\ AccountFacts!Undone /\ AccountFacts!OriginalsKept
    BY GivenAccounts, AccountFacts!OptimizationPromise
  <2> QED BY <2>1, <2>2, <2>3, <2>4, SameLogin, SameSkills, SamePermits, SameImprovements
          DEF LoginSafe, SkillsSafe, PermitSafe, ImproveSafe, AccountsAndPermissions
<1> QED BY <1>1, <1>2, <1>3, <1>4, <1>5, <1>6, PTL DEF Spec
=============================================================================
