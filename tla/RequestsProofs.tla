---------------------------- MODULE RequestsProofs ----------------------------
(***************************************************************************)
(* What AndroidRequests promises, for any accounts, sessions and bounds,   *)
(* when both are numbers and every session has an owner (Numbered).        *)
(*                                                                         *)
(* The argument for the account.  Until a token is found to be revoked     *)
(* every request in the air, but a login, is one of the account on the     *)
(* screen, since logout cancels the coroutines (OneAccount).               *)
(*                                                                         *)
(* The argument for the queue.  The queue shown may be that of another     *)
(* session only while a selection that will be accepted, or a login that   *)
(* is connected and will select, is in the air (QueueKnown).  A login that *)
(* finds no session selects none: so the session selected has been deleted *)
(* then.                                                                   *)
(*                                                                         *)
(* With 25 actions the steps are classified once (KindOfStep): a session   *)
(* is selected anew, an answer leaves the selection (QuietAnswer), a       *)
(* request or a login starts, a login connects, enters or fails, and the   *)
(* account goes.  Each part of the invariant survives the kinds.           *)
(***************************************************************************)
EXTENDS AndroidRequests, ConfigReload, TLAPS, FiniteSetTheorems, NaturalsInduction, WellFoundedInduction

Numbered ==
    /\ Conversations \subseteq Nat \ {0} /\ Users \subseteq Nat \ {0}
    /\ UserOf \in [Conversations -> Users] /\ MaxActs \in Nat

Kinds == {"queue", "look", "message", "list", "create", "delete", "tasks", "newtask", "draft",
          "agent", "settings", "select", "login"}
QueueRecord == [of : Conversations \cup {0}, client : Nat]
ScreenRecord ==
    [user : Users \cup {0}, client : Nat, list : SUBSET Conversations,
     selected : Conversations \cup {0}, loading : BOOLEAN, offline : BOOLEAN,
     queue : QueueRecord, tasks : Users \cup {0}, settings : Users \cup {0}]
RequestRecord ==
    [kind : Kinds, client : Nat, user : Users \cup {0}, of : Conversations \cup {0}]
AccountRecord == [clearing : BOOLEAN, logins : Nat, starts : Nat, revoked : BOOLEAN]

RequestTypes ==
    /\ screen \in ScreenRecord /\ air \subseteq RequestRecord /\ present \subseteq Conversations
    /\ account \in AccountRecord /\ strayed \in BOOLEAN

Counted ==
    /\ screen.client <= account.logins /\ account.starts + account.logins <= MaxActs
    /\ \A r \in air : r.client <= account.logins
    /\ account.clearing => account.revoked

(* There is one selection under way and one login. *)
OneOfAKind ==
    /\ \A q, r \in air : q.kind = r.kind /\ q.kind \in {"select", "login"} => q = r
    /\ \A r \in air : (r.kind = "login" => r.user \in Users) /\ (r.kind = "message" => r.of # 0)

Belongs(c, a) == c # 0 => UserOf[c] = a

OneAccount ==
    ~account.revoked =>
        /\ {screen.tasks, screen.settings} \subseteq {0, screen.user}
        /\ \A c \in screen.list : UserOf[c] = screen.user
        /\ Belongs(screen.queue.of, screen.user) /\ Belongs(screen.selected, screen.user)
        /\ \A r \in air :
               IF r.kind = "login" THEN screen.user \in {0, r.user}
               ELSE r.user = screen.user /\ screen.user # 0 /\ Belongs(r.of, screen.user)

QueueKnown ==
    \/ \E r \in air : r.kind = "select" /\ Current(r)
    \/ \E r \in air : r.kind = "login" /\ SameClient(r)
    \/ strayed \/ account.revoked
    \/ screen.selected = 0 \/ screen.selected \notin present \/ screen.queue = NoQueue
    \/ screen.queue.of = screen.selected

RequestsInv ==
    /\ RequestTypes /\ Counted /\ OneOfAKind /\ OneAccount /\ FlagReleased /\ QueueKnown

-----------------------------------------------------------------------------
(* The least of some numbers is one of them. *)
LEMMA FirstIsListed ==
    ASSUME Numbered, NEW list, list \subseteq Conversations, list # {}
    PROVE  First(list) \in list
<1>1. \E c \in list : \A d \in list : ~(<<d, c>> \in OpToRel(<, Nat))
  BY NatLessThanWellFounded, WFMin, Zenon DEF Numbered
<1>2. ASSUME NEW c \in list, NEW d \in list, ~(<<d, c>> \in OpToRel(<, Nat))
      PROVE  c <= d
  <2>1. c \in Nat /\ d \in Nat
    BY DEF Numbered
  <2>2. ~(d < c)
    BY <1>2, <2>1 DEF OpToRel
  <2> QED BY <2>1, <2>2
<1>3. \E c \in list : \A d \in list : c <= d
  BY <1>1, <1>2
<1> QED BY <1>3 DEF First

LEMMA RequestOf ==
    ASSUME NEW kind \in Kinds, NEW s \in ScreenRecord, NEW c \in Conversations \cup {0}
    PROVE  /\ Request(kind, s, c) \in RequestRecord
           /\ Request(kind, s, c).kind = kind /\ Request(kind, s, c).client = s.client
           /\ Request(kind, s, c).user = s.user /\ Request(kind, s, c).of = c
  BY DEF Request, RequestRecord, ScreenRecord

(* A new selection: what it does to the screen, and that it takes the place of the old. *)
LEMMA Selects ==
    ASSUME NEW s \in ScreenRecord, NEW flying, flying \subseteq RequestRecord,
           NEW c \in Conversations, Selecting(s, flying, c)
    PROVE  /\ screen' \in ScreenRecord /\ air' \subseteq RequestRecord
           /\ screen'.user = s.user /\ screen'.client = s.client /\ screen'.list = s.list
           /\ screen'.selected = c /\ screen'.tasks = s.tasks /\ screen'.settings = s.settings
           /\ screen'.queue \in {s.queue, NoQueue}
           /\ \E q \in air' :
                  /\ q.kind = "select" /\ q.client = s.client /\ q.user = s.user /\ q.of = c
                  /\ air' = {r \in flying : r.kind # "select"} \cup {q}
<1>1. Request("select", s, c) \in RequestRecord
  BY RequestOf DEF Kinds
<1>2. Request("select", s, c).kind = "select" /\ Request("select", s, c).client = s.client
      /\ Request("select", s, c).user = s.user /\ Request("select", s, c).of = c
  BY RequestOf DEF Kinds
<1>3. screen' = [s EXCEPT !.selected = c, !.loading = TRUE,
                          !.queue = IF s.selected = c THEN @ ELSE NoQueue]
  BY DEF Selecting
<1>4. air' = {r \in flying : r.kind # "select"} \cup {Request("select", s, c)}
  BY DEF Selecting
<1>5. /\ screen' \in ScreenRecord
      /\ screen'.user = s.user /\ screen'.client = s.client /\ screen'.list = s.list
      /\ screen'.selected = c /\ screen'.tasks = s.tasks /\ screen'.settings = s.settings
      /\ screen'.queue \in {s.queue, NoQueue}
  BY <1>3 DEF ScreenRecord, QueueRecord, NoQueue
<1> QED BY <1>1, <1>2, <1>4, <1>5

-----------------------------------------------------------------------------
(* What an answer does that leaves the session selected, or leaves none: it writes what  *)
(* is its own, releases the flag if it has to, and adds at most a look at the settings.  *)
Quiet(r) ==
    /\ screen' \in ScreenRecord
    /\ screen'.user = screen.user /\ screen'.client = screen.client
    /\ screen'.list \subseteq screen.list \/ screen'.list = OfUser(r.user)
    /\ screen'.queue \in {screen.queue, Shown(r), NoQueue}
    /\ screen'.tasks \in {screen.tasks, r.user} /\ screen'.settings \in {screen.settings, r.user}
    /\ \/ screen'.selected = screen.selected /\ (screen'.loading => screen.loading /\ ~Releases(r))
       \/ screen'.selected = 0 /\ ~screen'.loading

Follows(r) ==
    /\ \A q \in air' \ air : q = Request("settings", screen, screen.selected)
    /\ \A q \in air : q # r /\ q \notin air' =>
           q.kind = "select" /\ screen'.selected = 0 /\ ~screen'.loading
    /\ r.kind = "select" => r \notin air'

Minds(r) ==
    \/ strayed' \/ screen'.selected = 0 \/ screen'.queue.of = screen'.selected
    \/ screen'.queue = screen.queue /\ ~strayed /\ ~(r.kind = "select" /\ Current(r))

Unmoved == present' \subseteq present /\ account' = account /\ strayed' \in BOOLEAN

QuietAnswer(r) == r.kind # "login" /\ Quiet(r) /\ Follows(r) /\ Minds(r) /\ Unmoved

(* A session is selected anew. *)
Reselects(flying) ==
    /\ screen' \in ScreenRecord /\ screen'.selected # 0
    /\ \E q \in RequestRecord :
          /\ q.kind = "select" /\ q.client = screen'.client /\ q.user = screen'.user
          /\ q.of = screen'.selected
          /\ air' = {r \in flying : r.kind # "select"} \cup {q}

Reselection ==
    /\ \E flying \in SUBSET air : Reselects(flying)
    /\ screen'.user = screen.user /\ screen'.client = screen.client
    /\ screen'.tasks = screen.tasks /\ screen'.settings = screen.settings
    /\ screen'.queue \in {screen.queue, NoQueue}
    /\ present' \subseteq Conversations /\ account' = account /\ strayed' \in BOOLEAN
    /\ \/ screen'.selected \in screen'.list
       \/ \E r \in air : r.kind # "login" /\ screen'.selected = r.of
    /\ \A c \in screen'.list :
           c \in screen.list \/ \E r \in air : r.kind # "login" /\ UserOf[c] = r.user

LEMMA Answers ==
    ASSUME RequestTypes, NEW r \in air, NEW ok \in BOOLEAN,
           \/ QueueAnswer(r, ok) \/ LookAnswer(r, ok) \/ ListAnswer(r) \/ TaskAnswer(r, ok)
           \/ NewTaskAnswer(r, ok) \/ SettingsAnswer(r, ok) \/ SelectAnswer(r, ok)
    PROVE  QuietAnswer(r)
<1> USE DEF RequestTypes, ScreenRecord, RequestRecord, QueueRecord, QuietAnswer, Quiet, Follows,
            Minds, Unmoved, Answered, Left, Shown, Releases, Current, SameClient
<1>1. CASE QueueAnswer(r, ok)
  BY <1>1 DEF QueueAnswer
<1>2. CASE LookAnswer(r, ok)
  BY <1>2 DEF LookAnswer
<1>3. CASE ListAnswer(r)
  BY <1>3 DEF ListAnswer
<1>4. CASE TaskAnswer(r, ok)
  BY <1>4 DEF TaskAnswer
<1>5. CASE NewTaskAnswer(r, ok)
  BY <1>5 DEF NewTaskAnswer, OfUser
<1>6. CASE SettingsAnswer(r, ok)
  BY <1>6 DEF SettingsAnswer
<1>7. CASE SelectAnswer(r, ok)
  BY <1>7 DEF SelectAnswer
<1> QED BY <1>1, <1>2, <1>3, <1>4, <1>5, <1>6, <1>7

LEMMA Reselected ==
    ASSUME Numbered, RequestTypes,
           NEW s \in ScreenRecord, NEW flying \in SUBSET air, NEW c \in Conversations,
           Selecting(s, flying, c),
           s.user = screen.user, s.client = screen.client, s.tasks = screen.tasks,
           s.settings = screen.settings, s.queue \in {screen.queue, NoQueue},
           present' \subseteq Conversations, account' = account,
           c \in s.list \/ \E r \in air : r.kind # "login" /\ c = r.of,
           \A x \in s.list :
              x \in screen.list \/ \E r \in air : r.kind # "login" /\ UserOf[x] = r.user
    PROVE  Reselection
<1>1. flying \subseteq RequestRecord /\ c # 0
  BY DEF RequestTypes, Numbered
<1>2. strayed' \in BOOLEAN
  BY DEF Selecting
<1>3. /\ screen' \in ScreenRecord /\ air' \subseteq RequestRecord
      /\ screen'.user = s.user /\ screen'.client = s.client /\ screen'.list = s.list
      /\ screen'.selected = c /\ screen'.tasks = s.tasks /\ screen'.settings = s.settings
      /\ screen'.queue \in {s.queue, NoQueue}
      /\ \E q \in air' :
            /\ q.kind = "select" /\ q.client = s.client /\ q.user = s.user /\ q.of = c
            /\ air' = {r \in flying : r.kind # "select"} \cup {q}
  BY <1>1, Selects
<1>4. Reselects(flying)
  BY <1>1, <1>3 DEF Reselects
<1> QED BY <1>1, <1>2, <1>3, <1>4 DEF Reselection

LEMMA DraftAndDeletion ==
    ASSUME RequestTypes, NEW r \in air, NEW ok \in BOOLEAN,
           DraftAnswer(r, ok) \/ DeleteAnswer(r, ok)
    PROVE  QuietAnswer(r)
<1> USE DEF RequestTypes, ScreenRecord, RequestRecord, QueueRecord, QuietAnswer, Quiet, Follows,
            Minds, Unmoved, Left, Shown, Releases, Current, SameClient
<1>1. CASE DraftAnswer(r, ok)
  BY <1>1 DEF DraftAnswer
<1>2. CASE DeleteAnswer(r, ok)
  <2>1. CASE ok /\ Current(r)
    <3>1. /\ screen' = [[screen EXCEPT !.list = @ \ {r.of}] EXCEPT
                           !.selected = 0, !.queue = NoQueue, !.loading = FALSE]
          /\ air' = {x \in air \ {r} : x.kind # "select"} /\ strayed' = FALSE
          /\ r.kind = "delete" /\ present' \subseteq present /\ account' = account
      BY <1>2, <2>1 DEF DeleteAnswer
    <3>2. Quiet(r)
      BY <3>1 DEF NoQueue
    <3> QED BY <3>1, <3>2
  <2>2. CASE ok /\ ~Current(r)
    BY <1>2, <2>2 DEF DeleteAnswer
  <2>3. CASE ~ok
    BY <1>2, <2>3 DEF DeleteAnswer
  <2> QED BY <2>1, <2>2, <2>3
<1> QED BY <1>1, <1>2

LEMMA MessageAnswers ==
    ASSUME Numbered, RequestTypes, OneOfAKind, NEW r \in air, NEW ok \in BOOLEAN,
           MessageAnswer(r, ok)
    PROVE  QuietAnswer(r) \/ Reselection
<1>1. CASE ok /\ Current(r)
  <2>1. r.of \in Conversations /\ Left(r) \subseteq air /\ Left(r) \subseteq RequestRecord
       /\ screen \in ScreenRecord
    BY DEF RequestTypes, RequestRecord, OneOfAKind, MessageAnswer, Left
  <2>2. Selecting(screen, Left(r), r.of) /\ r.kind = "message" /\ UNCHANGED <<present, account>>
    BY <1>1 DEF MessageAnswer
  <2>3. strayed' \in BOOLEAN
    BY <2>2 DEF Selecting
  <2> QED BY <2>1, <2>2, <2>3, Reselected DEF RequestTypes
<1>2. CASE ~(ok /\ Current(r))
  BY <1>2 DEF MessageAnswer, RequestTypes, ScreenRecord, RequestRecord, QueueRecord,
              QuietAnswer, Quiet,
        Follows, Minds, Unmoved, Left, Shown, Releases, Current, SameClient
<1> QED BY <1>1, <1>2

LEMMA CreateAnswers ==
    ASSUME Numbered, RequestTypes, NEW r \in air, NEW ok \in BOOLEAN, CreateAnswer(r, ok)
    PROVE  QuietAnswer(r) \/ Reselection
<1>1. CASE ok
  <2>1. PICK c \in Conversations :
           /\ UserOf[c] = r.user /\ present' = present \cup {c}
           /\ r.kind = "create" /\ account' = account
           /\ Selecting([screen EXCEPT !.list = @ \cup {c}, !.queue = NoQueue], Left(r), c)
    BY <1>1 DEF CreateAnswer
  <2> DEFINE s == [screen EXCEPT !.list = @ \cup {c}, !.queue = NoQueue]
  <2>2. /\ s \in ScreenRecord /\ s.user = screen.user /\ s.client = screen.client
        /\ s.list = screen.list \cup {c} /\ s.tasks = screen.tasks /\ s.settings = screen.settings
        /\ s.queue = NoQueue
    BY DEF RequestTypes, ScreenRecord, QueueRecord, NoQueue
  <2>3. Left(r) \subseteq air /\ Left(r) \subseteq RequestRecord
    BY DEF RequestTypes, Left
  <2>4. Selecting(s, Left(r), c) /\ strayed' \in BOOLEAN
    BY <2>1 DEF Selecting
  <2> HIDE DEF s
  <2> QED BY <2>1, <2>2, <2>3, <2>4, Reselected DEF RequestTypes
<1>2. CASE ~ok
  BY <1>2 DEF CreateAnswer, RequestTypes, ScreenRecord, RequestRecord, QueueRecord,
              QuietAnswer, Quiet,
        Follows, Minds, Unmoved, Left, Shown, Releases, Current, SameClient
<1> QED BY <1>1, <1>2

LEMMA AgentAnswers ==
    ASSUME Numbered, RequestTypes, NEW r \in air, NEW ok \in BOOLEAN, AgentAnswer(r, ok)
    PROVE  QuietAnswer(r) \/ Reselection
<1> DEFINE list == OfUser(r.user)
           loaded == [screen EXCEPT !.list = list, !.loading = FALSE, !.offline = FALSE]
<1>1. CASE ok /\ list # {}
  <2> DEFINE c == First(list)
             s == [loaded EXCEPT !.selected = c]
  <2>1. list \subseteq Conversations /\ \A x \in list : UserOf[x] = r.user
    BY DEF OfUser, RequestTypes
  <2>2. c \in list
    BY <1>1, <2>1, FirstIsListed
  <2>3. /\ s \in ScreenRecord /\ s.user = screen.user /\ s.client = screen.client /\ s.list = list
        /\ s.tasks = screen.tasks /\ s.settings = screen.settings /\ s.queue = screen.queue
    BY <2>1, <2>2 DEF RequestTypes, ScreenRecord
  <2>4. Left(r) \subseteq air /\ Left(r) \subseteq RequestRecord
    BY DEF RequestTypes, Left
  <2>5. Selecting(s, Left(r), c) /\ r.kind = "agent" /\ UNCHANGED <<present, account>>
    BY <1>1 DEF AgentAnswer
  <2>6. strayed' \in BOOLEAN
    BY <2>5 DEF Selecting
  <2> HIDE DEF s, c, list, loaded
  <2> QED BY <2>1, <2>2, <2>3, <2>4, <2>5, <2>6, Reselected DEF RequestTypes
<1>2. CASE ok /\ list = {}
  <2>1. /\ screen' = [loaded EXCEPT !.selected = 0] /\ air' = Left(r)
        /\ UNCHANGED <<strayed, present, account>> /\ r.kind = "agent"
    BY <1>2 DEF AgentAnswer
  <2>2. Quiet(r)
    BY <1>2, <2>1 DEF Quiet, RequestTypes, ScreenRecord
  <2> QED BY <2>1, <2>2 DEF RequestTypes, QuietAnswer, Follows, Minds, Unmoved, Left
<1>3. CASE ~ok
  BY <1>3 DEF AgentAnswer, RequestTypes, ScreenRecord, RequestRecord, QueueRecord,
              QuietAnswer, Quiet,
        Follows, Minds, Unmoved, Left, Shown, Releases, Current, SameClient
<1> QED BY <1>1, <1>2, <1>3

Asked(r) == (air \ {r}) \cup {[kind |-> "settings", client |-> r.client, user |-> r.user, of |-> 0]}

Enters(r) ==
    /\ r.kind = "login" /\ screen.client = r.client /\ UNCHANGED <<present, account>>
    /\ strayed' \in BOOLEAN /\ screen' \in ScreenRecord
    /\ screen'.user = r.user /\ screen'.client = r.client /\ screen'.list = OfUser(r.user)
    /\ screen'.tasks = screen.tasks /\ screen'.settings = screen.settings
    /\ screen'.queue \in {screen.queue, NoQueue}
    /\ \/ /\ screen'.list = {} /\ screen'.selected = screen.selected /\ ~screen'.loading
          /\ air' = Asked(r)
       \/ screen'.selected \in screen'.list /\ Reselects(Asked(r))

LEMMA LoginEnters ==
    ASSUME Numbered, RequestTypes, NEW r \in air, LoggedIn(r)
    PROVE  Enters(r)
<1> DEFINE list == OfUser(r.user)
           entered == [screen EXCEPT !.user = r.user, !.list = list, !.offline = FALSE,
                                     !.loading = FALSE]
           c == IF screen.selected \in list THEN screen.selected ELSE First(list)
<1>1. /\ r.kind = "login" /\ screen.client = r.client /\ UNCHANGED <<present, account>>
      /\ IF list = {} THEN screen' = entered /\ air' = Asked(r) /\ UNCHANGED strayed
         ELSE Selecting(entered, Asked(r), c)
  BY DEF LoggedIn, Asked, Left
<1>2. /\ entered \in ScreenRecord /\ entered.user = r.user /\ entered.client = screen.client
      /\ entered.list = list /\ entered.tasks = screen.tasks /\ entered.settings = screen.settings
      /\ entered.queue = screen.queue /\ entered.selected = screen.selected /\ ~entered.loading
  BY DEF RequestTypes, ScreenRecord, RequestRecord, OfUser
<1>3. Asked(r) \subseteq RequestRecord /\ list \subseteq Conversations
  BY DEF RequestTypes, RequestRecord, Kinds, Asked, OfUser
<1>4. CASE list = {}
  BY <1>1, <1>2, <1>4 DEF Enters, RequestTypes
<1>5. CASE list # {}
  <2>1. c \in list
    BY <1>3, <1>5, FirstIsListed
  <2>2. Selecting(entered, Asked(r), c) /\ c \in Conversations /\ c # 0
    BY <1>1, <1>3, <1>5, <2>1 DEF Numbered
  <2>3. strayed' \in BOOLEAN
    BY <2>2 DEF Selecting
  <2> HIDE DEF entered, c
  <2>4. /\ screen' \in ScreenRecord /\ air' \subseteq RequestRecord
        /\ screen'.user = entered.user /\ screen'.client = entered.client /\ screen'.list = entered.list
        /\ screen'.selected = c /\ screen'.tasks = entered.tasks /\ screen'.settings = entered.settings
        /\ screen'.queue \in {entered.queue, NoQueue}
        /\ \E q \in air' :
              /\ q.kind = "select" /\ q.client = entered.client /\ q.user = entered.user /\ q.of = c
              /\ air' = {x \in Asked(r) : x.kind # "select"} \cup {q}
    BY <1>2, <1>3, <2>2, Selects
  <2>5. Reselects(Asked(r))
    BY <1>2, <2>2, <2>4 DEF Reselects
  <2> QED BY <1>1, <1>2, <2>1, <2>3, <2>4, <2>5 DEF Enters
<1> QED BY <1>4, <1>5

LEMMA Choices ==
    ASSUME Numbered, RequestTypes, NEW c \in Conversations, Chooses(c)
    PROVE  Reselection
<1>1. Selecting(screen, air, c) /\ c \in screen.list /\ UNCHANGED <<present, account>>
  BY DEF Chooses
<1> QED BY <1>1, Reselected DEF RequestTypes

(* A request starts, and a login. *)
Joins(kind, client, user, c) ==
    \E q \in RequestRecord :
       /\ q.kind = kind /\ q.client = client /\ q.user = user /\ q.of = c
       /\ air' = air \cup {q}

Begins(kind) ==
    /\ kind \in Kinds \ {"select", "login"} /\ (kind = "message" => screen.selected # 0)
    /\ screen.user # 0 /\ account.starts + account.logins < MaxActs
    /\ Joins(kind, screen.client, screen.user, screen.selected)
    /\ \E b \in BOOLEAN : screen' = [screen EXCEPT !.loading = b]
    /\ screen'.loading => screen.loading \/ kind \notin {"look", "settings"}
    /\ account' \in AccountRecord /\ account'.starts = account.starts + 1
    /\ account'.logins = account.logins /\ account'.clearing = account.clearing
    /\ account'.revoked = account.revoked
    /\ UNCHANGED <<present, strayed>>

LEMMA Starts ==
    ASSUME RequestTypes, NEW kind \in DOMAIN Allowed, Start(kind)
    PROVE  Begins(kind)
<1>1. kind \in Kinds \ {"select", "login"} /\ (kind = "message" => screen.selected # 0)
  <2>1. kind \in Kinds \ {"select", "login"}
    BY DEF Allowed, Kinds
  <2>2. Allowed["message"] => screen.selected # 0
    BY DEF Allowed, PlanWrite, MessageWrite, ApprovalWrite, Chosen
  <2> QED BY <2>1, <2>2 DEF Start
<1>2. screen \in ScreenRecord /\ screen.selected \in Conversations \cup {0}
  BY DEF RequestTypes, ScreenRecord
<1>3. Joins(kind, screen.client, screen.user, screen.selected)
  BY <1>1, <1>2, RequestOf DEF Start, Joins
<1>4. \E b \in BOOLEAN : b = (screen.loading \/ kind \notin {"look", "settings"})
  BY Zenon
<1>5. PICK b \in BOOLEAN : b = (screen.loading \/ kind \notin {"look", "settings"})
  BY <1>4
<1>6. screen' = [screen EXCEPT !.loading = b]
  BY <1>5 DEF Start
<1>7. screen'.loading = b
  BY <1>2, <1>6 DEF ScreenRecord
<1>8. PICK n \in Nat : n = account.starts + 1 /\ account' = [account EXCEPT !.starts = n]
  BY DEF RequestTypes, AccountRecord, Start
<1>9. /\ account' \in AccountRecord /\ account'.starts = n
      /\ account'.logins = account.logins /\ account'.clearing = account.clearing
      /\ account'.revoked = account.revoked
  BY <1>8 DEF RequestTypes, AccountRecord
<1> QED BY <1>1, <1>3, <1>5, <1>6, <1>7, <1>8, <1>9 DEF Begins, Start

LogsIn(a) ==
    /\ account.starts + account.logins < MaxActs /\ ~account.clearing
    /\ screen.user \in {0, a} /\ \A r \in air : r.kind # "login"
    /\ screen' = [screen EXCEPT !.loading = TRUE]
    /\ account' \in AccountRecord /\ account'.logins = account.logins + 1
    /\ account'.starts = account.starts /\ account'.clearing = account.clearing
    /\ account'.revoked = account.revoked
    /\ Joins("login", account'.logins, a, 0)
    /\ UNCHANGED <<present, strayed>>

LEMMA Logins ==
    ASSUME RequestTypes, NEW a \in Users, Login(a)
    PROVE  LogsIn(a)
<1>1. PICK n \in Nat : n = account.logins + 1
  BY DEF RequestTypes, AccountRecord
<1>2. /\ account' = [account EXCEPT !.logins = n] /\ account'.logins = n
      /\ account' \in AccountRecord
      /\ account'.starts = account.starts /\ account'.clearing = account.clearing
      /\ account'.revoked = account.revoked
  BY <1>1 DEF RequestTypes, AccountRecord, Login
<1> DEFINE q == [kind |-> "login", client |-> n, user |-> a, of |-> 0]
<1>3. q \in RequestRecord /\ q.kind = "login" /\ q.client = n /\ q.user = a /\ q.of = 0
  BY DEF RequestRecord, Kinds
<1>4. air' = air \cup {q}
  BY <1>2 DEF Login
<1>5. Joins("login", n, a, 0)
  BY <1>3, <1>4 DEF Joins
<1> QED BY <1>1, <1>2, <1>5 DEF Login, LogsIn

(* Every step, by its kind. *)
StepKinds ==
    \/ Reselection
    \/ \E r \in air : QuietAnswer(r)
    \/ \E kind \in Kinds : Begins(kind)
    \/ \E a \in Users : LogsIn(a)
    \/ \E r \in air : LoginConnects(r) \/ Enters(r) \/ LoginFails(r)
    \/ Logout \/ Revoke \/ Cleared
    \/ UNCHANGED requestVars

LEMMA KindOfStep ==
    ASSUME Numbered, RequestTypes, OneOfAKind, [RequestsNext]_requestVars
    PROVE  StepKinds
<1>1. ASSUME NEW r \in air, NEW ok \in BOOLEAN, Answer(r, ok)
      PROVE  QuietAnswer(r) \/ Reselection
  BY <1>1, Answers, DraftAndDeletion, MessageAnswers, CreateAnswers, AgentAnswers DEF Answer
<1>2. ASSUME NEW kind \in DOMAIN Allowed, Start(kind)
      PROVE  \E k \in Kinds : Begins(k)
  BY <1>2, Starts DEF Begins
<1> QED BY <1>1, <1>2, Choices, LoginEnters, Logins DEF RequestsNext, StepKinds
-----------------------------------------------------------------------------

LEMMA TypesStep ==
    ASSUME Numbered, RequestsInv, StepKinds
    PROVE  RequestTypes'
<1> USE DEF RequestsInv, RequestTypes, ScreenRecord, RequestRecord, AccountRecord,
            QueueRecord, Kinds, Shown, OfUser
<1>1. CASE Reselection
  BY <1>1 DEF Reselection, Reselects
<1>2. CASE \E r \in air : QuietAnswer(r)
  BY <1>2 DEF QuietAnswer, Quiet, Follows, Minds, Unmoved, Request
<1>3. CASE \E kind \in Kinds : Begins(kind)
  BY <1>3 DEF Begins, Joins
<1>4. CASE \E a \in Users : LogsIn(a)
  BY <1>4 DEF LogsIn, Joins
<1>5. CASE \E r \in air : LoginConnects(r)
  BY <1>5 DEF LoginConnects
<1>6. CASE \E r \in air : Enters(r)
  BY <1>6 DEF Enters, Reselects, Asked, OfUser
<1>7. CASE \E r \in air : LoginFails(r)
  BY <1>7 DEF LoginFails, Left
<1>8. CASE Logout
  BY <1>8 DEF Logout, Blank, NoQueue
<1>9. CASE Revoke
  BY <1>9 DEF Revoke
<1>10. CASE Cleared
  BY <1>10 DEF Cleared, Blank, NoQueue
<1>11. CASE UNCHANGED requestVars
  BY <1>11 DEF requestVars
<1> QED BY <1>1, <1>2, <1>3, <1>4, <1>5, <1>6, <1>7, <1>8, <1>9, <1>10, <1>11 DEF StepKinds

LEMMA CountedStep ==
    ASSUME Numbered, RequestsInv, StepKinds
    PROVE  Counted'
<1> USE DEF RequestsInv, RequestTypes, ScreenRecord, RequestRecord, AccountRecord,
            QueueRecord, Counted, Numbered
<1>1. CASE Reselection
  BY <1>1 DEF Reselection, Reselects
<1>2. CASE \E r \in air : QuietAnswer(r)
  BY <1>2 DEF QuietAnswer, Quiet, Follows, Minds, Unmoved, Request
<1>3. CASE \E kind \in Kinds : Begins(kind)
  BY <1>3 DEF Begins, Joins
<1>4. CASE \E a \in Users : LogsIn(a)
  BY <1>4 DEF LogsIn, Joins
<1>5. CASE \E r \in air : LoginConnects(r)
  BY <1>5 DEF LoginConnects
<1>6. CASE \E r \in air : Enters(r)
  BY <1>6 DEF Enters, Reselects, Asked, OfUser
<1>7. CASE \E r \in air : LoginFails(r)
  BY <1>7 DEF LoginFails, Left
<1>8. CASE Logout
  BY <1>8 DEF Logout, Blank, NoQueue
<1>9. CASE Revoke
  BY <1>9 DEF Revoke
<1>10. CASE Cleared
  BY <1>10 DEF Cleared, Blank, NoQueue
<1>11. CASE UNCHANGED requestVars
  BY <1>11 DEF requestVars
<1> QED BY <1>1, <1>2, <1>3, <1>4, <1>5, <1>6, <1>7, <1>8, <1>9, <1>10, <1>11 DEF StepKinds

LEMMA OneStep ==
    ASSUME Numbered, RequestsInv, StepKinds
    PROVE  OneOfAKind'
<1> USE DEF RequestsInv, RequestTypes, OneOfAKind, RequestRecord
<1>1. CASE Reselection
  BY <1>1 DEF Reselection, Reselects
<1>2. CASE \E r \in air : QuietAnswer(r)
  BY <1>2 DEF QuietAnswer, Quiet, Follows, Minds, Unmoved, Request
<1>3. CASE \E kind \in Kinds : Begins(kind)
  BY <1>3 DEF Begins, Joins
<1>4. CASE \E a \in Users : LogsIn(a)
  BY <1>4 DEF LogsIn, Joins
<1>5. CASE \E r \in air : LoginConnects(r)
  BY <1>5 DEF LoginConnects
<1>6. CASE \E r \in air : Enters(r)
  BY <1>6 DEF Enters, Reselects, Asked, OfUser
<1>7. CASE \E r \in air : LoginFails(r)
  BY <1>7 DEF LoginFails, Left
<1>8. CASE Logout
  BY <1>8 DEF Logout, Blank, NoQueue
<1>9. CASE Revoke
  BY <1>9 DEF Revoke
<1>10. CASE Cleared
  BY <1>10 DEF Cleared, Blank, NoQueue
<1>11. CASE UNCHANGED requestVars
  BY <1>11 DEF requestVars
<1> QED BY <1>1, <1>2, <1>3, <1>4, <1>5, <1>6, <1>7, <1>8, <1>9, <1>10, <1>11 DEF StepKinds

LEMMA AccountStep ==
    ASSUME Numbered, RequestsInv, StepKinds
    PROVE  OneAccount'
<1> USE DEF RequestsInv, RequestTypes, ScreenRecord, RequestRecord, AccountRecord,
            QueueRecord, OneOfAKind, OneAccount, Belongs, Shown, OfUser, Numbered, Counted,
            NoQueue
<1>1. CASE Reselection
  <2> SUFFICES ASSUME ~account.revoked PROVE OneAccount'
    BY <1>1 DEF Reselection
  <2>1. \A r \in air : r.kind # "login" =>
           r.user = screen.user /\ screen.user # 0 /\ Belongs(r.of, screen.user)
    OBVIOUS
  <2>2. \A c \in screen'.list : UserOf[c] = screen.user
    BY <1>1, <2>1 DEF Reselection
  <2>3. Belongs(screen'.selected, screen.user) /\ screen'.selected # 0
    <3> HIDE DEF Belongs
    <3>1. screen'.selected # 0
      BY <1>1 DEF Reselection, Reselects
    <3>2. \/ screen'.selected \in screen'.list
          \/ \E r \in air : r.kind # "login" /\ screen'.selected = r.of
      BY <1>1 DEF Reselection
    <3>3. CASE screen'.selected \in screen'.list
      <4>1. UserOf[screen'.selected] = screen.user
        BY <2>2, <3>3, Zenon
      <4> QED BY <3>1, <4>1 DEF Belongs
    <3>4. ASSUME NEW r \in air, r.kind # "login", screen'.selected = r.of
          PROVE  Belongs(screen'.selected, screen.user)
      <4>1. Belongs(r.of, screen.user)
        BY <2>1, <3>4
      <4> QED BY <3>4, <4>1
    <3> QED BY <3>1, <3>2, <3>3, <3>4
  <2>4. screen.user # 0
    BY <1>1, <2>3 DEF Reselection, Reselects
  <2> HIDE DEF Belongs
  <2>5. \A r \in air' :
           IF r.kind = "login" THEN screen'.user \in {0, r.user}
           ELSE r.user = screen'.user /\ screen'.user # 0 /\ Belongs(r.of, screen'.user)
    BY <1>1, <2>3, <2>4 DEF Reselection, Reselects
  <2>6. screen'.queue.of # 0 => UserOf[screen'.queue.of] = screen'.user
    BY <1>1 DEF Reselection, Belongs
  <2> QED BY <1>1, <2>2, <2>3, <2>5, <2>6 DEF Reselection, Belongs
<1>2. CASE \E r \in air : QuietAnswer(r)
  BY <1>2 DEF QuietAnswer, Quiet, Follows, Minds, Unmoved, Request
<1>3. CASE \E kind \in Kinds : Begins(kind)
  BY <1>3 DEF Begins, Joins
<1>4. CASE \E a \in Users : LogsIn(a)
  BY <1>4 DEF LogsIn, Joins
<1>5. CASE \E r \in air : LoginConnects(r)
  BY <1>5 DEF LoginConnects
<1>6. CASE \E r \in air : Enters(r)
  <2>1. PICK r \in air : Enters(r)
    BY <1>6
  <2> SUFFICES ASSUME ~account.revoked PROVE OneAccount'
    BY <2>1 DEF Enters
  <2>2. r.user \in Users /\ r.user # 0 /\ screen.user \in {0, r.user}
    BY <2>1 DEF Enters
  <2>3. \A c \in screen'.list : UserOf[c] = r.user
    BY <2>1 DEF Enters
  <2>4. /\ screen.selected # 0 => screen.user = r.user
        /\ screen.queue.of # 0 => screen.user = r.user
    BY <2>2
  <2>5. \A x \in air : x # r => x.kind # "login" /\ x.user = r.user /\ Belongs(x.of, r.user)
    BY <2>1, <2>2 DEF Enters
  <2>6. Belongs(screen'.selected, r.user) /\ Belongs(screen'.queue.of, r.user)
    BY <2>1, <2>3, <2>4 DEF Enters
  <2> HIDE DEF Belongs
  <2>7. \A x \in Asked(r) : x.kind # "login" /\ x.user = r.user /\ Belongs(x.of, r.user)
    BY <2>5 DEF Asked, Belongs
  <2>8. \A x \in air' : x.kind # "login" /\ x.user = r.user /\ Belongs(x.of, r.user)
    BY <2>1, <2>6, <2>7 DEF Enters, Reselects
  <2> QED BY <2>1, <2>2, <2>3, <2>6, <2>8 DEF Enters
<1>7. CASE \E r \in air : LoginFails(r)
  BY <1>7 DEF LoginFails, Left
<1>8. CASE Logout
  BY <1>8 DEF Logout, Blank, NoQueue
<1>9. CASE Revoke
  BY <1>9 DEF Revoke
<1>10. CASE Cleared
  BY <1>10 DEF Cleared, Blank, NoQueue
<1>11. CASE UNCHANGED requestVars
  BY <1>11 DEF requestVars
<1> QED BY <1>1, <1>2, <1>3, <1>4, <1>5, <1>6, <1>7, <1>8, <1>9, <1>10, <1>11 DEF StepKinds

LEMMA FlagStep ==
    ASSUME Numbered, RequestsInv, StepKinds
    PROVE  FlagReleased'
<1> USE DEF RequestsInv, RequestTypes, ScreenRecord, RequestRecord, AccountRecord,
            QueueRecord, OneOfAKind, FlagReleased, Releases, Current, SameClient
<1>1. CASE Reselection
  BY <1>1 DEF Reselection, Reselects
<1>2. CASE \E r \in air : QuietAnswer(r)
  <2> SUFFICES ASSUME screen'.loading, ~account.clearing PROVE \E x \in air' : Releases(x)'
    BY <1>2 DEF QuietAnswer, Unmoved
  <2>1. PICK r \in air : QuietAnswer(r)
    BY <1>2
  <2>2. /\ screen'.selected = screen.selected /\ screen'.client = screen.client
        /\ screen.loading /\ ~Releases(r)
    BY <2>1 DEF QuietAnswer, Quiet
  <2>3. PICK x \in air : Releases(x)
    BY <2>2
  <2>4. x # r /\ Releases(x)'
    BY <2>2, <2>3
  <2>5. x \in air'
    BY <2>1, <2>4 DEF QuietAnswer, Follows
  <2> QED BY <2>4, <2>5
<1>3. CASE \E kind \in Kinds : Begins(kind)
  <2>1. PICK kind \in Kinds : Begins(kind)
    BY <1>3
  <2> SUFFICES ASSUME screen'.loading, ~account.clearing PROVE \E x \in air' : Releases(x)'
    BY <2>1 DEF Begins
  <2>2. screen'.selected = screen.selected /\ screen'.client = screen.client
    BY <2>1 DEF Begins
  <2>3. CASE screen.loading
    BY <2>1, <2>2, <2>3 DEF Begins, Joins
  <2>4. CASE ~screen.loading
    <3>1. kind \in Kinds \ {"select", "login", "look", "settings"}
      BY <2>1, <2>4 DEF Begins
    <3>2. PICK q \in air' : q.kind = kind /\ q.client = screen.client /\ q.of = screen.selected
      BY <2>1 DEF Begins, Joins
    <3>3. Releases(q)'
      BY <2>2, <3>1, <3>2 DEF Kinds
    <3> QED BY <3>3
  <2> QED BY <2>3, <2>4
<1>4. CASE \E a \in Users : LogsIn(a)
  BY <1>4 DEF LogsIn, Joins
<1>5. CASE \E r \in air : LoginConnects(r)
  BY <1>5 DEF LoginConnects
<1>6. CASE \E r \in air : Enters(r)
  BY <1>6 DEF Enters, Reselects, Asked, OfUser
<1>7. CASE \E r \in air : LoginFails(r)
  BY <1>7 DEF LoginFails, Left
<1>8. CASE Logout
  BY <1>8 DEF Logout, Blank, NoQueue
<1>9. CASE Revoke
  BY <1>9 DEF Revoke
<1>10. CASE Cleared
  BY <1>10 DEF Cleared, Blank, NoQueue
<1>11. CASE UNCHANGED requestVars
  BY <1>11 DEF requestVars
<1> QED BY <1>1, <1>2, <1>3, <1>4, <1>5, <1>6, <1>7, <1>8, <1>9, <1>10, <1>11 DEF StepKinds

LEMMA QueueStep ==
    ASSUME Numbered, RequestsInv, StepKinds
    PROVE  QueueKnown'
<1> USE DEF RequestsInv, RequestTypes, ScreenRecord, RequestRecord, AccountRecord,
            QueueRecord, OneOfAKind, OneAccount, QueueKnown, Current, SameClient, Belongs,
            OfUser, Counted, NoQueue, Numbered
<1>1. CASE Reselection
  BY <1>1 DEF Reselection, Reselects
<1>2. CASE \E r \in air : QuietAnswer(r)
  <2>1. PICK r \in air : QuietAnswer(r)
    BY <1>2
  <2> SUFFICES ASSUME ~strayed', ~account'.revoked, screen'.selected # 0,
                      screen'.selected \in present', screen'.queue # NoQueue,
                      screen'.queue.of # screen'.selected
               PROVE  \E q \in air' : \/ q.kind = "select" /\ Current(q)'
                                      \/ q.kind = "login" /\ SameClient(q)'
    OBVIOUS
  <2>2. /\ r.kind # "login" /\ screen'.client = screen.client
        /\ screen'.selected = screen.selected /\ present' \subseteq present
        /\ account' = account
    BY <2>1 DEF QuietAnswer, Quiet, Unmoved
  <2>3. screen'.queue = screen.queue /\ ~strayed /\ ~(r.kind = "select" /\ Current(r))
    BY <2>1 DEF QuietAnswer, Minds
  <2>4. PICK q \in air : \/ q.kind = "select" /\ Current(q)
                         \/ q.kind = "login" /\ SameClient(q)
    BY <2>2, <2>3
  <2>5. q # r
    BY <2>2, <2>3, <2>4
  <2>6. q \in air'
    BY <2>1, <2>4, <2>5 DEF QuietAnswer, Follows
  <2> QED BY <2>2, <2>4, <2>6
<1>3. CASE \E kind \in Kinds : Begins(kind)
  BY <1>3 DEF Begins, Joins
<1>4. CASE \E a \in Users : LogsIn(a)
  BY <1>4 DEF LogsIn, Joins
<1>5. CASE \E r \in air : LoginConnects(r)
  BY <1>5 DEF LoginConnects
<1>6. CASE \E r \in air : Enters(r)
  <2>1. PICK r \in air : Enters(r)
    BY <1>6
  <2>2. CASE Reselects(Asked(r))
    <3>1. PICK q \in air' : q.kind = "select" /\ q.client = screen'.client
                            /\ q.of = screen'.selected
      BY <2>2 DEF Reselects
    <3> QED BY <3>1
  <2>3. CASE screen'.list = {} /\ screen'.selected = screen.selected
    <3> SUFFICES ASSUME ~account.revoked, screen.selected # 0, screen.selected \in present
                 PROVE  FALSE
      BY <2>1, <2>3 DEF Enters
    <3>1. screen.selected \in Conversations /\ UserOf[screen.selected] = screen.user
      OBVIOUS
    <3>2. r.kind = "login" /\ screen'.list = OfUser(r.user)
      BY <2>1 DEF Enters
    <3>3. screen.user = r.user
      BY <3>1, <3>2
    <3> QED BY <2>3, <3>1, <3>2, <3>3
  <2> QED BY <2>1, <2>2, <2>3 DEF Enters
<1>7. CASE \E r \in air : LoginFails(r)
  BY <1>7 DEF LoginFails, Left
<1>8. CASE Logout
  BY <1>8 DEF Logout, Blank, NoQueue
<1>9. CASE Revoke
  BY <1>9 DEF Revoke
<1>10. CASE Cleared
  BY <1>10 DEF Cleared, Blank, NoQueue
<1>11. CASE UNCHANGED requestVars
  BY <1>11 DEF requestVars
<1> QED BY <1>1, <1>2, <1>3, <1>4, <1>5, <1>6, <1>7, <1>8, <1>9, <1>10, <1>11 DEF StepKinds

-----------------------------------------------------------------------------
LEMMA RequestsInitInv == Numbered /\ RequestsInit => RequestsInv
<1> SUFFICES ASSUME Numbered, RequestsInit PROVE RequestsInv
  OBVIOUS
<1>1. /\ screen = Blank /\ air = {} /\ present \subseteq Conversations /\ strayed \in BOOLEAN
      /\ account = [clearing |-> FALSE, logins |-> 0, starts |-> 0, revoked |-> FALSE]
  BY DEF RequestsInit
<1>2. RequestTypes
  BY <1>1 DEF RequestTypes, Blank, NoQueue, ScreenRecord, QueueRecord, AccountRecord
<1>3. Counted /\ OneOfAKind
  BY <1>1 DEF Counted, OneOfAKind, Blank, Numbered
<1>4. OneAccount /\ FlagReleased /\ QueueKnown
  BY <1>1 DEF OneAccount, FlagReleased, QueueKnown, Belongs, Blank, NoQueue
<1> QED BY <1>2, <1>3, <1>4 DEF RequestsInv

LEMMA RequestsNextInv ==
    ASSUME Numbered
    PROVE  RequestsInv /\ [RequestsNext]_requestVars => RequestsInv'
<1> SUFFICES ASSUME RequestsInv, [RequestsNext]_requestVars PROVE RequestsInv'
  OBVIOUS
<1>1. StepKinds
  BY KindOfStep DEF RequestsInv
<1> QED
  BY <1>1, TypesStep, CountedStep, OneStep, AccountStep, FlagStep, QueueStep DEF RequestsInv

LEMMA RequestsInvPromises ==
    ASSUME Numbered
    PROVE  RequestsInv => RequestsOK /\ QueueOfSelection /\ FlagReleased /\ AccountAlone
<1> SUFFICES ASSUME RequestsInv PROVE RequestsOK /\ QueueOfSelection /\ FlagReleased /\ AccountAlone
  OBVIOUS
<1> USE DEF RequestsInv
<1>1. Cardinality({r \in air : r.kind = "select"}) <= 1
  <2> DEFINE selects == {r \in air : r.kind = "select"}
  <2>1. CASE selects = {}
    BY <2>1, FS_EmptySet
  <2>2. ASSUME NEW q \in selects
        PROVE  Cardinality(selects) = 1
    <3>1. selects = {q}
      BY <2>2 DEF OneOfAKind
    <3> QED BY <3>1, FS_Singleton
  <2> QED BY <2>1, <2>2
<1>2. RequestsOK
  BY <1>1 DEF RequestsOK, RequestTypes, ScreenRecord, AccountRecord, Counted
<1>3. QueueOfSelection
  BY DEF QueueKnown, QueueOfSelection
<1>4. AccountAlone
  BY DEF OneAccount, AccountAlone, Belongs
<1> QED BY <1>2, <1>3, <1>4

(* The inductive invariant holds throughout. *)
THEOREM RequestsInvariance ==
    ASSUME Numbered
    PROVE  RequestsSpec => []RequestsInv
<1>1. RequestsInv /\ [RequestsNext]_requestVars => RequestsInv'
  BY RequestsNextInv
<1>2. RequestsInit => RequestsInv
  BY RequestsInitInv
<1> QED BY <1>1, <1>2, PTL DEF RequestsSpec

(* Whatever is in the air when a session is chosen, deleted or created and whoever logs  *)
(* in, the queue that is shown is that of the session selected (loadQueue and the        *)
(* operations of the queue).                                                             *)
THEOREM QueueIsOfSelection ==
    ASSUME Numbered
    PROVE  RequestsSpec => []QueueOfSelection
<1>1. RequestsInv => QueueOfSelection
  BY RequestsInvPromises
<1> QED BY <1>1, RequestsInvariance, PTL

(* The flag that keeps operations from starting always has a request that will release   *)
(* it (the coroutines of MainActivity.kt).                                               *)
THEOREM FlagIsReleased ==
    ASSUME Numbered
    PROVE  RequestsSpec => []FlagReleased
<1>1. RequestsInv => FlagReleased
  BY RequestsInvPromises
<1> QED BY <1>1, RequestsInvariance, PTL

(* Unless a token was revoked, nothing of another account is shown                       *)
(* (clearLocalAuthentication cancels the coroutines).                                    *)
THEOREM AccountIsAlone ==
    ASSUME Numbered
    PROVE  RequestsSpec => []AccountAlone
<1>1. RequestsInv => AccountAlone
  BY RequestsInvPromises
<1> QED BY <1>1, RequestsInvariance, PTL
----------------------------------------------------------------------------
(***************************************************************************)
(* What ConfigReload promises, for every set of reloads and runs.          *)
(*                                                                         *)
(* The argument for the tools of a run.  The manager that is current is    *)
(* open, however many reloads overlap: each of them connects a manager of  *)
(* its own and closes the one that it replaced (ManagersApart).  While a   *)
(* run counts as queued or at work, a reload that begins changes the       *)
(* skills only; so a run that was put into the queue while no reload was   *)
(* connecting, and counts since, works with the manager that is still      *)
(* current (RunsUndisturbed).                                              *)
(*                                                                         *)
(* The argument for the configuration.  Until two reloads overlap or one   *)
(* fails after its first change there is one reload under way, and its     *)
(* stage tells which parts already have the new version (StageTells).      *)
(***************************************************************************)
Manager == [version : Nat, state : {"connecting", "open", "closed"}]
Stages == {"idle", "loaded", "connecting", "closing", "scanning", "over"}
ReloadRecord == [stage : Stages, next : [Parts -> Nat], changed : SUBSET Parts, manager : Nat]
RunRecord ==
    [stage : {"none", "queued", "working", "paused", "disowned", "over"}, manager : Nat,
     reckoned : BOOLEAN]

ReloadTypes ==
    /\ file \in [Parts -> Nat] /\ config \in [Parts -> Nat]
    /\ held \in [runs : Nat, commands : Nat, listings : Nat]
    /\ managers \in Seq(Manager) /\ current \in 1..Len(managers)
    /\ roots \in [version : Nat, watched : BOOLEAN]
    /\ reload \in [Reloads -> ReloadRecord]
    /\ run \in [Runs -> RunRecord]
    /\ mishap \in BOOLEAN

(* Each reload has a manager of its own to connect, and none to close that is current. *)
ManagersApart ==
    /\ managers[current].state = "open"
    /\ \A r \in Reloads : reload[r].stage \in {"connecting", "closing"} =>
           reload[r].manager \in 1..Len(managers) /\ reload[r].manager # current
    /\ \A r \in Reloads : reload[r].stage = "connecting" => "mcp" \in reload[r].changed
    /\ \A r, s \in Reloads :
           r # s /\ reload[r].stage = "connecting" /\ reload[s].stage \in {"connecting", "closing"} =>
               reload[r].manager # reload[s].manager

(* A run that the reloads have reckoned with is queued or works with the current manager, *)
(* and no reload is connecting one to replace it.                                         *)
RunsUndisturbed ==
    \A x \in Runs : run[x].reckoned =>
        /\ run[x].stage \in {"queued", "working"}
        /\ \A r \in Reloads : reload[r].stage # "connecting"
        /\ run[x].stage = "working" => run[x].manager = current

(* What a run gets. *)
Serves(models, mcp, skills, watched) ==
    /\ held.runs = models
    /\ managers[current] = [version |-> mcp, state |-> "open"]
    /\ roots = [version |-> skills, watched |-> watched]

(* The version a part has once its reload has changed it. *)
Given(rec, p) == IF p \in rec.changed THEN rec.next[p] ELSE config[p]

StageTells ==
    ~mishap =>
        /\ \A r, s \in UnderWay : r = s
        /\ UnderWay = {} => Serves(config["models"], config["mcp"], config["skills"], TRUE)
        /\ \A r \in Reloads :
             /\ reload[r].stage = "connecting" =>
                  /\ Serves(config["models"], config["mcp"], config["skills"], TRUE)
                  /\ managers[reload[r].manager].version = reload[r].next["mcp"]
             /\ reload[r].stage = "closing" =>
                  Serves(Given(reload[r], "models"), Given(reload[r], "mcp"), config["skills"], TRUE)
             /\ reload[r].stage = "scanning" =>
                  Serves(Given(reload[r], "models"), Given(reload[r], "mcp"),
                         Given(reload[r], "skills"), FALSE)

ReloadInv == ReloadTypes /\ ManagersApart /\ RunsUndisturbed /\ StageTells

-----------------------------------------------------------------------------
(* A manager that changes its state, and a manager that is added. *)
LEMMA ManagerMoves ==
    ASSUME managers \in Seq(Manager), NEW i \in 1..Len(managers),
           NEW state \in {"connecting", "open", "closed"},
           managers' = [managers EXCEPT ![i].state = state]
    PROVE  /\ managers' \in Seq(Manager) /\ Len(managers') = Len(managers)
           /\ managers'[i] = [version |-> managers[i].version, state |-> state]
           /\ \A j \in 1..Len(managers) : j # i => managers'[j] = managers[j]
<1>1. managers[i] \in Manager
  OBVIOUS
<1>2. [managers[i] EXCEPT !.state = state] = [version |-> managers[i].version, state |-> state]
      /\ [managers[i] EXCEPT !.state = state] \in Manager
  BY <1>1 DEF Manager
<1>3. managers' = [managers EXCEPT ![i] = [managers[i] EXCEPT !.state = state]]
  OBVIOUS
<1> QED BY <1>2, <1>3

LEMMA ManagerAdded ==
    ASSUME managers \in Seq(Manager), NEW m \in Manager, managers' = Append(managers, m)
    PROVE  /\ managers' \in Seq(Manager) /\ Len(managers') = Len(managers) + 1
           /\ Len(managers) \in Nat
           /\ managers'[Len(managers) + 1] = m
           /\ \A j \in 1..Len(managers) : managers'[j] = managers[j] /\ j # Len(managers) + 1
                                         /\ j \in 1..Len(managers')
  OBVIOUS

LEMMA ReloadTypesOf ==
    ASSUME ReloadTypes, NEW r \in Reloads
    PROVE  /\ reload[r] \in ReloadRecord /\ reload[r].next \in [Parts -> Nat]
           /\ reload[r].changed \in SUBSET Parts /\ reload[r].manager \in Nat
           /\ reload[r].stage \in Stages
  BY DEF ReloadTypes, ReloadRecord

(* The rest of a reload leaves the other reloads alone. *)
LEMMA SkillsDoes ==
    ASSUME ReloadTypes, NEW r \in Reloads, NEW rec \in ReloadRecord, Skills(r, rec)
    PROVE  /\ config' \in [Parts -> Nat] /\ roots' \in [version : Nat, watched : BOOLEAN]
           /\ reload' \in [Reloads -> ReloadRecord]
           /\ \A s \in Reloads : s # r => reload'[s] = reload[s]
           /\ \/ /\ "skills" \in rec.changed /\ config' = config
                 /\ reload'[r].stage = "scanning" /\ reload'[r].changed = rec.changed
                 /\ reload'[r].next = rec.next
                 /\ roots' = [version |-> rec.next["skills"], watched |-> FALSE]
              \/ /\ "skills" \notin rec.changed /\ roots' = roots
                 /\ reload'[r].stage = "over"
                 /\ \A p \in Parts : config'[p] = Given(rec, p)
<1>t. /\ config \in [Parts -> Nat] /\ roots \in [version : Nat, watched : BOOLEAN]
      /\ reload \in [Reloads -> ReloadRecord] /\ rec.next \in [Parts -> Nat] /\ "skills" \in Parts
      /\ rec.changed \subseteq Parts
  BY DEF ReloadTypes, ReloadRecord, Parts
<1>1. CASE "skills" \in rec.changed
  <2>1. /\ roots' = [version |-> rec.next["skills"], watched |-> FALSE]
        /\ reload' = [reload EXCEPT ![r] = [rec EXCEPT !.stage = "scanning"]] /\ config' = config
    BY <1>1 DEF Skills
  <2>2. /\ [rec EXCEPT !.stage = "scanning"] \in ReloadRecord
        /\ [rec EXCEPT !.stage = "scanning"].stage = "scanning"
        /\ [rec EXCEPT !.stage = "scanning"].changed = rec.changed
        /\ [rec EXCEPT !.stage = "scanning"].next = rec.next
    BY DEF ReloadRecord, Stages
  <2>3. rec.next["skills"] \in Nat
    BY <1>t
  <2> QED BY <1>1, <1>t, <2>1, <2>2, <2>3
<1>2. CASE "skills" \notin rec.changed
  <2>1. /\ config' = [p \in Parts |-> IF p \in rec.changed THEN rec.next[p] ELSE config[p]]
        /\ reload' = [reload EXCEPT ![r].stage = "over"] /\ roots' = roots
    BY <1>2 DEF Skills, Conclude
  <2>2. config' \in [Parts -> Nat] /\ \A p \in Parts : config'[p] = Given(rec, p)
    BY <1>t, <2>1 DEF Given
  <2>3. [reload[r] EXCEPT !.stage = "over"] \in ReloadRecord
        /\ [reload[r] EXCEPT !.stage = "over"].stage = "over"
    BY <1>t DEF ReloadRecord, Stages
  <2>4. reload' = [reload EXCEPT ![r] = [reload[r] EXCEPT !.stage = "over"]]
    BY <2>1
  <2> QED BY <1>2, <1>t, <2>1, <2>2, <2>3, <2>4
<1> QED BY <1>1, <1>2

(* What follows the connection of the new servers: with new servers the reload goes on to *)
(* close the previous ones.                                                               *)
LEMMA ApplyDoes ==
    ASSUME ReloadTypes, NEW r \in Reloads, NEW rec \in ReloadRecord, Apply(r, rec)
    PROVE  /\ held' \in [runs : Nat, commands : Nat, listings : Nat]
           /\ held'.runs = (IF "models" \in rec.changed THEN rec.next["models"] ELSE held.runs)
           /\ reload' \in [Reloads -> ReloadRecord]
           /\ \A s \in Reloads : s # r => reload'[s] = reload[s]
           /\ config' \in [Parts -> Nat] /\ roots' \in [version : Nat, watched : BOOLEAN]
           /\ \/ /\ "mcp" \in rec.changed /\ current' = rec.manager
                 /\ reload'[r].stage = "closing" /\ reload'[r].manager = current
                 /\ reload'[r].changed = rec.changed /\ reload'[r].next = rec.next
                 /\ config' = config /\ roots' = roots
              \/ "mcp" \notin rec.changed /\ current' = current /\ Skills(r, rec)
<1>t. /\ config \in [Parts -> Nat] /\ roots \in [version : Nat, watched : BOOLEAN]
      /\ held \in [runs : Nat, commands : Nat, listings : Nat]
      /\ reload \in [Reloads -> ReloadRecord] /\ rec.next \in [Parts -> Nat] /\ "models" \in Parts
      /\ current \in Nat /\ managers \in Seq(Manager)
  BY DEF ReloadTypes, ReloadRecord, Parts
<1>0. rec.next["models"] \in Nat
  BY <1>t
<1>h. /\ held' \in [runs : Nat, commands : Nat, listings : Nat]
      /\ held'.runs = (IF "models" \in rec.changed THEN rec.next["models"] ELSE held.runs)
  BY <1>t, <1>0 DEF Apply
<1>1. CASE "mcp" \in rec.changed
  <2>1. /\ current' = rec.manager /\ config' = config /\ roots' = roots
        /\ reload' = [reload EXCEPT ![r] = [rec EXCEPT !.stage = "closing", !.manager = current]]
    BY <1>1 DEF Apply
  <2> DEFINE new == [rec EXCEPT !.stage = "closing", !.manager = current]
  <2>2. /\ new \in ReloadRecord /\ new.stage = "closing" /\ new.manager = current
        /\ new.changed = rec.changed /\ new.next = rec.next
    BY <1>t DEF ReloadRecord, Stages
  <2>3. reload' = [reload EXCEPT ![r] = new]
    BY <2>1
  <2> HIDE DEF new
  <2> QED BY <1>1, <1>h, <1>t, <2>1, <2>2, <2>3
<1>2. CASE "mcp" \notin rec.changed
  <2>1. current' = current /\ Skills(r, rec)
    BY <1>2 DEF Apply
  <2> QED BY <1>2, <1>h, <2>1, SkillsDoes
<1> QED BY <1>1, <1>2

-----------------------------------------------------------------------------
(* A step that changes neither what runs get nor what is under way. *)
LEMMA Idle ==
    ASSUME ReloadInv, UNCHANGED <<config, held, managers, current, roots, mishap>>,
           reload' \in [Reloads -> ReloadRecord],
           \A r \in Reloads : reload'[r] = reload[r]
              \/ (reload[r].stage \notin {"connecting", "closing", "scanning"}
                    /\ reload'[r].stage \notin {"connecting", "closing", "scanning"})
    PROVE  ManagersApart' /\ StageTells'
<1>1. UnderWay' = UnderWay
  BY DEF UnderWay
<1>2. ManagersApart'
  BY DEF ReloadInv, ManagersApart
<1>3. StageTells'
  BY <1>1 DEF ReloadInv, StageTells, Serves, Given, UnderWay
<1> QED BY <1>2, <1>3

LEMMA ReloadInitInv == ReloadInit => ReloadInv
<1> SUFFICES ASSUME ReloadInit PROVE ReloadInv
  OBVIOUS
<1>1. /\ managers = <<[version |-> 0, state |-> "open"]>> /\ current = 1 /\ mishap = FALSE
      /\ config = Original /\ held.runs = 0 /\ roots = [version |-> 0, watched |-> TRUE]
      /\ \A r \in Reloads : reload[r] = NoReload
      /\ \A x \in Runs : run[x] = NoRun
  BY DEF ReloadInit
<1>2. /\ managers \in Seq(Manager) /\ Len(managers) = 1
      /\ managers[1] = [version |-> 0, state |-> "open"]
  <2>1. [version |-> 0, state |-> "open"] \in Manager
    BY DEF Manager
  <2> QED BY <1>1, <2>1
<1>3. Original \in [Parts -> Nat] /\ NoReload \in ReloadRecord /\ NoRun \in RunRecord
      /\ NoReload.stage = "idle" /\ NoRun.stage = "none" /\ NoRun.reckoned = FALSE
      /\ Original["models"] = 0 /\ Original["mcp"] = 0 /\ Original["skills"] = 0
  BY DEF Original, NoReload, NoRun, ReloadRecord, RunRecord, Stages, Parts
<1>4. ReloadTypes
  <2>1. /\ file \in [Parts -> Nat] /\ config \in [Parts -> Nat]
        /\ reload \in [Reloads -> ReloadRecord] /\ run \in [Runs -> RunRecord]
    BY <1>3 DEF ReloadInit
  <2>2. held \in [runs : Nat, commands : Nat, listings : Nat]
        /\ roots \in [version : Nat, watched : BOOLEAN]
    BY DEF ReloadInit
  <2>3. managers \in Seq(Manager) /\ current \in 1..Len(managers)
    BY <1>1, <1>2
  <2>4. mishap \in BOOLEAN
    BY <1>1
  <2> QED BY <2>1, <2>2, <2>3, <2>4 DEF ReloadTypes
<1>5. ManagersApart /\ RunsUndisturbed
  BY <1>1, <1>2, <1>3 DEF ManagersApart, RunsUndisturbed
<1>6. StageTells
  BY <1>1, <1>2, <1>3 DEF StageTells, Serves, UnderWay
<1> QED BY <1>4, <1>5, <1>6 DEF ReloadInv

-----------------------------------------------------------------------------
(* The steps of the runs. *)
LEMMA RunsStep ==
    ASSUME ReloadInv, NEW x \in Runs,
           \/ SendRun(x) \/ WorkRun(x) \/ PauseRun(x) \/ ConfirmRun(x)
           \/ DisownRun(x) \/ ReturnRun(x) \/ EndRun(x)
    PROVE  ReloadInv'
<1>t. ReloadTypes /\ run \in [Runs -> RunRecord] /\ current \in Nat
  BY DEF ReloadInv, ReloadTypes
<1>u. UNCHANGED <<file, config, held, managers, current, roots, reload, mishap>>
  BY DEF SendRun, WorkRun, PauseRun, ConfirmRun, DisownRun, ReturnRun, EndRun, Becomes
<1>1. ManagersApart' /\ StageTells'
  BY <1>t, <1>u, Idle DEF ReloadTypes
<1>2. ASSUME NEW new \in RunRecord, run' = [run EXCEPT ![x] = new],
             new.reckoned =>
                 /\ new.stage \in {"queued", "working"}
                 /\ \A r \in Reloads : reload[r].stage # "connecting"
                 /\ new.stage = "working" => new.manager = current
      PROVE  ReloadInv'
  <2>1. ReloadTypes'
    BY <1>t, <1>u, <1>2 DEF ReloadTypes
  <2>2. RunsUndisturbed'
    BY <1>t, <1>u, <1>2 DEF ReloadInv, RunsUndisturbed
  <2> QED BY <1>1, <2>1, <2>2 DEF ReloadInv
<1>3. run[x] \in RunRecord
  BY <1>t
<1>4. ASSUME NEW stage \in {"queued", "working", "paused", "disowned", "over"},
             NEW reckoned \in BOOLEAN, Becomes(x, stage, reckoned),
             reckoned => stage = "queued" /\ Connecting = {}
      PROVE  ReloadInv'
  <2> DEFINE new == [run[x] EXCEPT !.stage = stage, !.reckoned = reckoned]
  <2>1. new \in RunRecord /\ new.stage = stage /\ new.reckoned = reckoned
    BY <1>3 DEF RunRecord
  <2>2. run' = [run EXCEPT ![x] = new]
    BY <1>3, <1>4, <1>t DEF Becomes, RunRecord
  <2> HIDE DEF new
  <2>3. Connecting = {} => \A r \in Reloads : reload[r].stage # "connecting"
    BY DEF Connecting
  <2> QED BY <1>2, <1>4, <2>1, <2>2, <2>3
<1>5. CASE WorkRun(x)
  <2> DEFINE new == [run[x] EXCEPT !.stage = "working", !.manager = current]
  <2>1. run[x].stage \in {"queued", "working"}
    BY <1>5 DEF WorkRun
  <2>2. new \in RunRecord /\ new.stage = "working" /\ new.reckoned = run[x].reckoned /\ new.manager = current
    BY <1>t, <1>3 DEF RunRecord
  <2>3. run' = [run EXCEPT ![x] = new]
    BY <1>5, <1>t, <1>3 DEF WorkRun, RunRecord
  <2> HIDE DEF new
  <2> QED BY <1>2, <2>2, <2>3 DEF ReloadInv, RunsUndisturbed
<1>6. (Connecting = {}) \in BOOLEAN
  OBVIOUS
<1> QED BY <1>4, <1>5, <1>6 DEF SendRun, PauseRun, ConfirmRun, DisownRun, ReturnRun, EndRun

(* Steps of a reload that change nothing that runs get. *)
LEMMA QuietStep ==
    ASSUME ReloadInv, EditFile \/ (\E r \in Reloads : Load(r))
    PROVE  ReloadInv'
<1>t. ReloadTypes
  BY DEF ReloadInv
<1>u. UNCHANGED <<config, held, managers, current, roots, run, mishap>>
  BY DEF EditFile, Load
<1>1. CASE EditFile
  <2>1. file' \in [Parts -> Nat] /\ reload' = reload
    BY <1>1, <1>t DEF EditFile, ReloadTypes
  <2>2. ReloadTypes'
    BY <1>t, <1>u, <2>1 DEF ReloadTypes
  <2>3. ManagersApart' /\ StageTells'
    BY <1>t, <1>u, <2>1, Idle DEF ReloadTypes
  <2> QED BY <1>u, <2>1, <2>2, <2>3 DEF ReloadInv, RunsUndisturbed
<1>2. ASSUME NEW r \in Reloads, Load(r)
      PROVE  ReloadInv'
  <2> DEFINE new == [NoReload EXCEPT !.stage = "loaded", !.next = file]
  <2>1. new \in ReloadRecord /\ new.stage = "loaded"
    BY <1>t DEF NoReload, ReloadRecord, ReloadTypes, Stages
  <2>2. reload' = [reload EXCEPT ![r] = new] /\ file' = file /\ reload[r].stage = "idle"
    BY <1>2 DEF Load
  <2> HIDE DEF new
  <2>3. /\ reload' \in [Reloads -> ReloadRecord] /\ reload'[r].stage = "loaded"
        /\ \A s \in Reloads : s # r => reload'[s] = reload[s]
    BY <1>t, <2>1, <2>2 DEF ReloadTypes
  <2>4. ReloadTypes'
    BY <1>t, <1>u, <2>2, <2>3 DEF ReloadTypes
  <2>5. ManagersApart' /\ StageTells'
    BY <1>u, <2>2, <2>3, Idle
  <2>6. RunsUndisturbed'
    BY <1>u, <2>2, <2>3 DEF ReloadInv, RunsUndisturbed
  <2> QED BY <2>4, <2>5, <2>6 DEF ReloadInv
<1> QED BY <1>1, <1>2

(* A reload that was not under way goes to the end at once, or begins to scan: its servers *)
(* have not changed.                                                                       *)
LEMMA WithoutServers ==
    ASSUME ReloadInv, NEW r \in Reloads, NEW rec \in ReloadRecord,
           reload[r].stage \notin {"connecting", "closing", "scanning"},
           "mcp" \notin rec.changed, Apply(r, rec),
           mishap' = (mishap \/ UnderWay # {}), UNCHANGED <<file, run, managers>>
    PROVE  ReloadInv'
<1>t. ReloadTypes /\ "mcp" \in Parts /\ "models" \in Parts /\ "skills" \in Parts
  BY DEF ReloadInv, Parts
<1>a. /\ held' \in [runs : Nat, commands : Nat, listings : Nat]
      /\ held'.runs = (IF "models" \in rec.changed THEN rec.next["models"] ELSE held.runs)
      /\ current' = current /\ Skills(r, rec)
  BY <1>t, ApplyDoes
<1>s. /\ config' \in [Parts -> Nat] /\ roots' \in [version : Nat, watched : BOOLEAN]
      /\ reload' \in [Reloads -> ReloadRecord]
      /\ \A s \in Reloads : s # r => reload'[s] = reload[s]
  BY <1>t, <1>a, SkillsDoes
<1>c. \/ /\ "skills" \in rec.changed /\ config' = config
         /\ reload'[r].stage = "scanning" /\ reload'[r].changed = rec.changed
         /\ reload'[r].next = rec.next
         /\ roots' = [version |-> rec.next["skills"], watched |-> FALSE]
      \/ /\ "skills" \notin rec.changed /\ roots' = roots
         /\ reload'[r].stage = "over"
         /\ \A p \in Parts : config'[p] = Given(rec, p)
  BY <1>t, <1>a, SkillsDoes
<1>m. mishap' \in BOOLEAN /\ (~mishap' => ~mishap /\ UnderWay = {})
  BY <1>t, Zenon DEF ReloadTypes
<1>1. ReloadTypes'
  BY <1>t, <1>a, <1>s, <1>m DEF ReloadTypes
<1>2. ManagersApart'
  <2>1. reload'[r].stage \notin {"connecting", "closing"}
    BY <1>c
  <2>2. \A s \in Reloads : reload'[s].stage \in {"connecting", "closing"} => reload'[s] = reload[s]
    BY <1>s, <2>1
  <2> QED BY <1>a, <1>s, <2>1, <2>2 DEF ReloadInv, ManagersApart
<1>3. RunsUndisturbed'
  BY <1>a, <1>s, <1>c DEF ReloadInv, RunsUndisturbed
<1>4. ASSUME ~mishap'
      PROVE  StageTells'
  <2>1. /\ Serves(config["models"], config["mcp"], config["skills"], TRUE)
        /\ \A s \in Reloads : reload[s].stage \notin {"connecting", "closing", "scanning"}
    BY <1>4, <1>m DEF ReloadInv, StageTells, UnderWay
  <2>2. UnderWay' \subseteq {r}
    BY <1>s, <2>1 DEF UnderWay
  <2>3. CASE reload'[r].stage = "scanning"
    <3>1. "skills" \in rec.changed /\ config' = config /\ reload'[r].changed = rec.changed
          /\ reload'[r].next = rec.next /\ roots' = [version |-> rec.next["skills"], watched |-> FALSE]
      BY <1>c, <2>3
    <3>2. Serves(Given(reload[r], "models"), Given(reload[r], "mcp"), Given(reload[r], "skills"), FALSE)'
      BY <1>a, <2>1, <3>1 DEF Serves, Given
    <3>3. UnderWay' = {r}
      BY <2>2, <2>3 DEF UnderWay
    <3> QED BY <1>s, <2>1, <2>2, <2>3, <3>2, <3>3 DEF StageTells
  <2>4. CASE reload'[r].stage = "over"
    <3>1. "skills" \notin rec.changed /\ roots' = roots /\ \A p \in Parts : config'[p] = Given(rec, p)
      BY <1>c, <2>4
    <3>2. Serves(config["models"], config["mcp"], config["skills"], TRUE)'
      BY <1>a, <1>t, <2>1, <3>1 DEF Serves, Given
    <3>3. UnderWay' = {}
      BY <2>2, <2>4 DEF UnderWay
    <3> QED BY <1>s, <2>1, <2>4, <3>2, <3>3 DEF StageTells
  <2> QED BY <1>c, <2>3, <2>4
<1> QED BY <1>1, <1>2, <1>3, <1>4 DEF ReloadInv, StageTells

(* A reload whose servers have changed, in a runtime that is not busy: a manager is added that *)
(* is nobody's but this reload's.                                                              *)
LEMMA WithServers ==
    ASSUME ReloadInv, NEW r \in Reloads, NEW rec \in ReloadRecord, reload[r].stage = "loaded",
           "mcp" \in rec.changed, ~Busy,
           managers' = Append(managers, [version |-> rec.next["mcp"], state |-> "connecting"]),
           reload' = [reload EXCEPT ![r] =
                         [rec EXCEPT !.stage = "connecting", !.manager = Len(managers) + 1]],
           mishap' = (mishap \/ UnderWay # {}),
           UNCHANGED <<file, run, config, held, current, roots>>
    PROVE  ReloadInv'
<1> DEFINE new == [rec EXCEPT !.stage = "connecting", !.manager = Len(managers) + 1]
           m == [version |-> rec.next["mcp"], state |-> "connecting"]
<1>t. ReloadTypes /\ "mcp" \in Parts
  BY DEF ReloadInv, Parts
<1>0. managers \in Seq(Manager) /\ Len(managers) \in Nat /\ current \in 1..Len(managers)
  BY <1>t DEF ReloadTypes
<1>1. /\ new \in ReloadRecord /\ new.stage = "connecting" /\ new.manager = Len(managers) + 1
      /\ new.changed = rec.changed /\ new.next = rec.next
  <2>1. PICK n \in Nat : n = Len(managers) + 1
    BY <1>0
  <2>2. new = [rec EXCEPT !.stage = "connecting", !.manager = n]
    BY <2>1
  <2> HIDE DEF new
  <2>3. new \in ReloadRecord /\ new.stage = "connecting" /\ new.manager = n
        /\ new.changed = rec.changed /\ new.next = rec.next
    BY <2>2 DEF ReloadRecord, Stages
  <2> QED BY <2>1, <2>3
<1>2. m \in Manager /\ m.version = rec.next["mcp"]
  BY <1>t DEF Manager, ReloadRecord
<1>3. managers' = Append(managers, m) /\ reload' = [reload EXCEPT ![r] = new]
      /\ UNCHANGED <<config, held, current, roots>>
  OBVIOUS
<1> HIDE DEF new, m
<1>4. /\ managers' \in Seq(Manager) /\ Len(managers') = Len(managers) + 1
      /\ managers'[Len(managers) + 1] = m
      /\ \A j \in 1..Len(managers) : managers'[j] = managers[j] /\ j # Len(managers) + 1
                                    /\ j \in 1..Len(managers')
  BY <1>0, <1>2, <1>3, ManagerAdded
<1>5. /\ reload' \in [Reloads -> ReloadRecord] /\ reload'[r] = new
      /\ \A s \in Reloads : s # r => reload'[s] = reload[s]
  BY <1>t, <1>1, <1>3 DEF ReloadTypes
<1>m. mishap' \in BOOLEAN /\ (~mishap' => ~mishap /\ UnderWay = {})
  BY <1>t, Zenon DEF ReloadTypes
<1>6. ReloadTypes'
  BY <1>t, <1>0, <1>3, <1>4, <1>5, <1>m DEF ReloadTypes
<1>l. Len(managers) + 1 \in 1..Len(managers')
  BY <1>0, <1>4
<1>7. ManagersApart'
  <2>1. managers'[current'].state = "open"
    BY <1>0, <1>3, <1>4 DEF ReloadInv, ManagersApart
  <2>2. ASSUME NEW s \in Reloads, reload'[s].stage \in {"connecting", "closing"}
        PROVE  reload'[s].manager \in 1..Len(managers') /\ reload'[s].manager # current'
    BY <1>0, <1>1, <1>3, <1>4, <1>5, <1>l, <2>2 DEF ReloadInv, ManagersApart
  <2>3. \A s \in Reloads : reload'[s].stage = "connecting" => "mcp" \in reload'[s].changed
    BY <1>1, <1>5 DEF ReloadInv, ManagersApart
  <2>4. ASSUME NEW s \in Reloads, NEW u \in Reloads, s # u, reload'[s].stage = "connecting",
               reload'[u].stage \in {"connecting", "closing"}
        PROVE  reload'[s].manager # reload'[u].manager
    BY <1>1, <1>4, <1>5, <2>4 DEF ReloadInv, ManagersApart
  <2> QED BY <2>1, <2>2, <2>3, <2>4 DEF ManagersApart
<1>8. RunsUndisturbed'
  <2>1. \A x \in Runs : ~run[x].reckoned
    BY DEF Busy, ReloadInv, RunsUndisturbed
  <2> QED BY <1>3, <2>1 DEF RunsUndisturbed
<1>9. ASSUME ~mishap'
      PROVE  StageTells'
  <2>1. /\ Serves(config["models"], config["mcp"], config["skills"], TRUE)
        /\ \A s \in Reloads : reload[s].stage \notin {"connecting", "closing", "scanning"}
    BY <1>9, <1>m DEF ReloadInv, StageTells, UnderWay
  <2>2. UnderWay' = {r}
    BY <1>1, <1>5, <2>1 DEF UnderWay
  <2>3. Serves(config["models"], config["mcp"], config["skills"], TRUE)'
    BY <1>0, <1>3, <1>4, <2>1 DEF Serves
  <2>4. managers'[reload'[r].manager].version = reload'[r].next["mcp"]
    BY <1>1, <1>2, <1>4, <1>5
  <2> QED BY <1>1, <1>5, <2>1, <2>2, <2>3, <2>4 DEF StageTells
<1> QED BY <1>6, <1>7, <1>8, <1>9 DEF ReloadInv, StageTells

(* BeginReload: a busy runtime changes its skills only. *)
LEMMA BeginStep ==
    ASSUME ReloadInv, NEW r \in Reloads, BeginReload(r)
    PROVE  ReloadInv'
<1> DEFINE rec == [reload[r] EXCEPT !.changed = Changed(reload[r].next)]
<1>0. /\ reload[r] \in ReloadRecord /\ reload[r].stage = "loaded"
      /\ Changed(reload[r].next) \in SUBSET Parts
  BY ReloadTypesOf DEF ReloadInv, BeginReload, Changed
<1>1. rec \in ReloadRecord /\ rec.changed = Changed(reload[r].next)
  BY <1>0 DEF ReloadRecord
<1>2. "mcp" \in rec.changed => ~Busy
  BY <1>1 DEF Changed
<1>3. /\ mishap' = (mishap \/ UnderWay # {}) /\ UNCHANGED <<file, run>>
      /\ IF "mcp" \in rec.changed
         THEN /\ managers' = Append(managers, [version |-> rec.next["mcp"], state |-> "connecting"])
              /\ reload' = [reload EXCEPT ![r] =
                     [rec EXCEPT !.stage = "connecting", !.manager = Len(managers) + 1]]
              /\ UNCHANGED <<config, held, current, roots>>
         ELSE Apply(r, rec) /\ UNCHANGED managers
  BY DEF BeginReload
<1> HIDE DEF rec
<1>4. CASE "mcp" \notin rec.changed
  BY <1>0, <1>1, <1>3, <1>4, WithoutServers
<1>5. CASE "mcp" \in rec.changed
  BY <1>0, <1>1, <1>2, <1>3, <1>5, WithServers
<1> QED BY <1>4, <1>5

(* Connects: the manager of the reload becomes the current one, which is to be closed. *)
LEMMA ConnectsStep ==
    ASSUME ReloadInv, NEW r \in Reloads, Connects(r)
    PROVE  ReloadInv'
<1>t. ReloadTypes /\ "mcp" \in Parts /\ "models" \in Parts
      /\ managers \in Seq(Manager) /\ current \in 1..Len(managers)
  BY DEF ReloadInv, Parts, ReloadTypes
<1>0. /\ reload[r] \in ReloadRecord /\ reload[r].stage = "connecting" /\ "mcp" \in reload[r].changed
      /\ reload[r].manager \in 1..Len(managers) /\ reload[r].manager # current
  BY <1>t, ReloadTypesOf DEF Connects, ReloadInv, ManagersApart
<1>u. UNCHANGED <<file, run, mishap>> /\ Apply(r, reload[r])
  BY DEF Connects
<1>m. /\ managers' \in Seq(Manager) /\ Len(managers') = Len(managers)
      /\ managers'[reload[r].manager] = [version |-> managers[reload[r].manager].version, state |-> "open"]
      /\ \A j \in 1..Len(managers) : j # reload[r].manager => managers'[j] = managers[j]
  BY <1>t, <1>0, ManagerMoves DEF Connects
<1>a. /\ held' \in [runs : Nat, commands : Nat, listings : Nat]
      /\ held'.runs = (IF "models" \in reload[r].changed THEN reload[r].next["models"] ELSE held.runs)
      /\ reload' \in [Reloads -> ReloadRecord]
      /\ \A s \in Reloads : s # r => reload'[s] = reload[s]
      /\ current' = reload[r].manager
      /\ reload'[r].stage = "closing" /\ reload'[r].manager = current
      /\ reload'[r].changed = reload[r].changed /\ reload'[r].next = reload[r].next
      /\ config' = config /\ roots' = roots
  BY <1>t, <1>0, <1>u, ApplyDoes
<1>1. ReloadTypes'
  BY <1>t, <1>0, <1>u, <1>m, <1>a DEF ReloadTypes
<1>2. ManagersApart'
  <2>1. managers'[current'].state = "open"
    BY <1>m, <1>a
  <2>2. ASSUME NEW s \in Reloads, reload'[s].stage \in {"connecting", "closing"}
        PROVE  reload'[s].manager \in 1..Len(managers') /\ reload'[s].manager # current'
    BY <1>t, <1>0, <1>m, <1>a, <2>2 DEF ReloadInv, ManagersApart
  <2>3. \A s \in Reloads : reload'[s].stage = "connecting" => "mcp" \in reload'[s].changed
    BY <1>a DEF ReloadInv, ManagersApart
  <2>4. ASSUME NEW s \in Reloads, NEW w \in Reloads, s # w, reload'[s].stage = "connecting",
               reload'[w].stage \in {"connecting", "closing"}
        PROVE  reload'[s].manager # reload'[w].manager
    BY <1>a, <2>4 DEF ReloadInv, ManagersApart
  <2> QED BY <2>1, <2>2, <2>3, <2>4 DEF ManagersApart
<1>3. RunsUndisturbed'
  <2>1. \A x \in Runs : ~run[x].reckoned
    BY <1>0 DEF ReloadInv, RunsUndisturbed
  <2> QED BY <1>u, <2>1 DEF RunsUndisturbed
<1>4. ASSUME ~mishap
      PROVE  StageTells'
  <2>1. /\ Serves(config["models"], config["mcp"], config["skills"], TRUE)
        /\ managers[reload[r].manager].version = reload[r].next["mcp"]
        /\ \A s, w \in UnderWay : s = w
    BY <1>4, <1>0 DEF ReloadInv, StageTells
  <2>2. UnderWay' = UnderWay /\ UnderWay = {r}
    BY <1>0, <1>a, <2>1 DEF UnderWay
  <2>3. Serves(Given(reload[r], "models"), Given(reload[r], "mcp"), config["skills"], TRUE)'
    BY <1>0, <1>m, <1>a, <2>1 DEF Serves, Given
  <2>4. \A s \in Reloads : s # r => reload'[s].stage \notin {"connecting", "closing", "scanning"}
    BY <1>a, <2>2 DEF UnderWay
  <2> QED BY <1>a, <2>2, <2>3, <2>4 DEF StageTells
<1> QED BY <1>1, <1>2, <1>3, <1>4, <1>u DEF ReloadInv, StageTells

(* ConnectFails: nothing has changed but a manager that nobody uses. *)
LEMMA ConnectFailsStep ==
    ASSUME ReloadInv, NEW r \in Reloads, ConnectFails(r)
    PROVE  ReloadInv'
<1>t. ReloadTypes /\ managers \in Seq(Manager) /\ current \in 1..Len(managers)
  BY DEF ReloadInv, ReloadTypes
<1>0. /\ reload[r] \in ReloadRecord /\ reload[r].stage = "connecting"
      /\ reload[r].manager \in 1..Len(managers) /\ reload[r].manager # current
  BY <1>t, ReloadTypesOf DEF ConnectFails, ReloadInv, ManagersApart
<1>u. UNCHANGED <<file, config, held, current, roots, run, mishap>>
  BY DEF ConnectFails
<1>m. /\ managers' \in Seq(Manager) /\ Len(managers') = Len(managers)
      /\ \A j \in 1..Len(managers) : j # reload[r].manager => managers'[j] = managers[j]
  BY <1>t, <1>0, ManagerMoves DEF ConnectFails
<1> DEFINE new == [reload[r] EXCEPT !.stage = "over"]
<1>n. new \in ReloadRecord /\ new.stage = "over" /\ reload' = [reload EXCEPT ![r] = new]
  BY <1>0 DEF ConnectFails, ReloadRecord, Stages
<1> HIDE DEF new
<1>a. /\ reload' \in [Reloads -> ReloadRecord] /\ reload'[r].stage = "over"
      /\ \A s \in Reloads : s # r => reload'[s] = reload[s]
  BY <1>t, <1>n DEF ReloadTypes
<1>1. ReloadTypes'
  BY <1>t, <1>u, <1>m, <1>a DEF ReloadTypes
<1>2. ManagersApart'
  BY <1>t, <1>0, <1>u, <1>m, <1>a DEF ReloadInv, ManagersApart
<1>3. RunsUndisturbed'
  BY <1>u, <1>a DEF ReloadInv, RunsUndisturbed
<1>4. ASSUME ~mishap
      PROVE  StageTells'
  <2>1. /\ Serves(config["models"], config["mcp"], config["skills"], TRUE)
        /\ \A s, w \in UnderWay : s = w
    BY <1>4, <1>0 DEF ReloadInv, StageTells
  <2>2. UnderWay' = {} /\ UnderWay = {r}
    BY <1>0, <1>a, <2>1 DEF UnderWay
  <2>3. Serves(config["models"], config["mcp"], config["skills"], TRUE)'
    BY <1>t, <1>0, <1>u, <1>m, <2>1 DEF Serves
  <2> QED BY <2>2, <2>3 DEF StageTells, UnderWay
<1> QED BY <1>1, <1>2, <1>3, <1>4, <1>u DEF ReloadInv, StageTells

(* Closed: the previous manager is closed, and the reload goes on with the skills. *)
LEMMA ClosedStep ==
    ASSUME ReloadInv, NEW r \in Reloads, Closed(r)
    PROVE  ReloadInv'
<1>t. /\ ReloadTypes /\ "mcp" \in Parts /\ "models" \in Parts /\ "skills" \in Parts
      /\ managers \in Seq(Manager) /\ current \in 1..Len(managers)
  BY DEF ReloadInv, Parts, ReloadTypes
<1>0. /\ reload[r] \in ReloadRecord /\ reload[r].stage = "closing"
      /\ reload[r].manager \in 1..Len(managers) /\ reload[r].manager # current
  BY <1>t, ReloadTypesOf DEF Closed, ReloadInv, ManagersApart
<1>u. UNCHANGED <<file, held, current, run, mishap>> /\ Skills(r, reload[r])
  BY DEF Closed
<1>m. /\ managers' \in Seq(Manager) /\ Len(managers') = Len(managers)
      /\ \A j \in 1..Len(managers) : j # reload[r].manager => managers'[j] = managers[j]
  BY <1>t, <1>0, ManagerMoves DEF Closed
<1>s. /\ config' \in [Parts -> Nat] /\ roots' \in [version : Nat, watched : BOOLEAN]
      /\ reload' \in [Reloads -> ReloadRecord]
      /\ \A s \in Reloads : s # r => reload'[s] = reload[s]
  BY <1>t, <1>0, <1>u, SkillsDoes
<1>c. \/ /\ "skills" \in reload[r].changed /\ config' = config
         /\ reload'[r].stage = "scanning" /\ reload'[r].changed = reload[r].changed
         /\ reload'[r].next = reload[r].next
         /\ roots' = [version |-> reload[r].next["skills"], watched |-> FALSE]
      \/ /\ "skills" \notin reload[r].changed /\ roots' = roots
         /\ reload'[r].stage = "over"
         /\ \A p \in Parts : config'[p] = Given(reload[r], p)
  BY <1>t, <1>0, <1>u, SkillsDoes
<1>1. ReloadTypes'
  BY <1>t, <1>u, <1>m, <1>s DEF ReloadTypes
<1>q. \A s \in Reloads : reload'[s].stage \in {"connecting", "closing"} => reload'[s] = reload[s]
  BY <1>s, <1>c
<1>2. ManagersApart'
  BY <1>t, <1>0, <1>u, <1>m, <1>q DEF ReloadInv, ManagersApart
<1>3. RunsUndisturbed'
  BY <1>u, <1>q DEF ReloadInv, RunsUndisturbed
<1>4. ASSUME ~mishap
      PROVE  StageTells'
  <2>1. /\ Serves(Given(reload[r], "models"), Given(reload[r], "mcp"), config["skills"], TRUE)
        /\ \A s, w \in UnderWay : s = w
    BY <1>4, <1>0 DEF ReloadInv, StageTells
  <2>2. UnderWay = {r} /\ UnderWay' \subseteq {r}
    BY <1>0, <1>s, <2>1 DEF UnderWay
  <2>e. \A s \in Reloads : s # r => reload'[s].stage \notin {"connecting", "closing", "scanning"}
    BY <2>2 DEF UnderWay
  <2>3. CASE reload'[r].stage = "scanning"
    <3>1. /\ "skills" \in reload[r].changed /\ config' = config
          /\ reload'[r].changed = reload[r].changed /\ reload'[r].next = reload[r].next
          /\ roots' = [version |-> reload[r].next["skills"], watched |-> FALSE]
      BY <1>c, <2>3
    <3>2. Serves(Given(reload[r], "models"), Given(reload[r], "mcp"), Given(reload[r], "skills"), FALSE)'
      BY <1>t, <1>0, <1>u, <1>m, <2>1, <3>1 DEF Serves, Given
    <3>3. UnderWay' = {r}
      BY <2>2, <2>3 DEF UnderWay
    <3> QED BY <2>3, <2>e, <3>2, <3>3 DEF StageTells
  <2>4. CASE reload'[r].stage = "over"
    <3>1. "skills" \notin reload[r].changed /\ roots' = roots
          /\ \A p \in Parts : config'[p] = Given(reload[r], p)
      BY <1>c, <2>4
    <3>2. Serves(config["models"], config["mcp"], config["skills"], TRUE)'
      BY <1>t, <1>0, <1>u, <1>m, <2>1, <3>1 DEF Serves, Given
    <3>3. UnderWay' = {}
      BY <2>2, <2>4 DEF UnderWay
    <3> QED BY <2>4, <2>e, <3>2, <3>3 DEF StageTells
  <2> QED BY <1>c, <2>3, <2>4
<1> QED BY <1>1, <1>2, <1>3, <1>4, <1>u DEF ReloadInv, StageTells

(* Scanned and ScanFails: the reload is over, its configuration recorded or not. *)
LEMMA ScanStep ==
    ASSUME ReloadInv, NEW r \in Reloads, Scanned(r) \/ ScanFails(r)
    PROVE  ReloadInv'
<1>t. /\ ReloadTypes /\ "mcp" \in Parts /\ "models" \in Parts /\ "skills" \in Parts
      /\ roots \in [version : Nat, watched : BOOLEAN]
  BY DEF ReloadInv, Parts, ReloadTypes
<1>0. /\ reload[r] \in ReloadRecord /\ reload[r].stage = "scanning"
      /\ reload[r].changed \in SUBSET Parts /\ reload[r].next \in [Parts -> Nat]
  BY <1>t, ReloadTypesOf DEF Scanned, ScanFails
<1>u. UNCHANGED <<file, held, managers, current, run>>
  BY DEF Scanned, ScanFails
<1> DEFINE new == [reload[r] EXCEPT !.stage = "over"]
<1>n. new \in ReloadRecord /\ new.stage = "over" /\ reload' = [reload EXCEPT ![r] = new]
  BY <1>0 DEF Scanned, ScanFails, Conclude, ReloadRecord, Stages
<1> HIDE DEF new
<1>a. /\ reload' \in [Reloads -> ReloadRecord] /\ reload'[r].stage = "over"
      /\ \A s \in Reloads : s # r => reload'[s] = reload[s]
  BY <1>t, <1>n DEF ReloadTypes
<1>2. ManagersApart'
  BY <1>u, <1>a DEF ReloadInv, ManagersApart
<1>3. RunsUndisturbed'
  BY <1>u, <1>a DEF ReloadInv, RunsUndisturbed
<1>4. CASE ScanFails(r)
  <2>1. mishap' = TRUE /\ config' = config /\ roots' = roots
    BY <1>4 DEF ScanFails
  <2>2. ReloadTypes'
    BY <1>t, <1>u, <1>a, <2>1 DEF ReloadTypes
  <2> QED BY <1>2, <1>3, <2>1, <2>2 DEF ReloadInv, StageTells
<1>5. CASE Scanned(r)
  <2>1. mishap' = mishap /\ roots' = [roots EXCEPT !.watched = TRUE]
        /\ config' = [p \in Parts |-> IF p \in reload[r].changed THEN reload[r].next[p] ELSE config[p]]
    BY <1>5 DEF Scanned, Conclude
  <2>2. /\ config' \in [Parts -> Nat] /\ \A p \in Parts : config'[p] = Given(reload[r], p)
        /\ roots' \in [version : Nat, watched : BOOLEAN]
        /\ roots' = [version |-> roots.version, watched |-> TRUE]
    BY <1>t, <1>0, <2>1 DEF ReloadTypes, Given
  <2>3. ReloadTypes'
    BY <1>t, <1>u, <1>a, <2>1, <2>2 DEF ReloadTypes
  <2>4. ASSUME ~mishap
        PROVE  StageTells'
    <3>1. /\ Serves(Given(reload[r], "models"), Given(reload[r], "mcp"), Given(reload[r], "skills"), FALSE)
          /\ \A s, w \in UnderWay : s = w
      BY <2>4, <1>0 DEF ReloadInv, StageTells
    <3>2. UnderWay = {r} /\ UnderWay' = {}
      BY <1>0, <1>a, <3>1 DEF UnderWay
    <3>3. \A s \in Reloads : reload'[s].stage \notin {"connecting", "closing", "scanning"}
      BY <3>2 DEF UnderWay
    <3>4. Serves(config["models"], config["mcp"], config["skills"], TRUE)'
      BY <1>t, <1>u, <2>2, <3>1 DEF Serves
    <3> QED BY <3>2, <3>3, <3>4 DEF StageTells
  <2> QED BY <1>2, <1>3, <2>1, <2>3, <2>4 DEF ReloadInv, StageTells
<1> QED BY <1>4, <1>5

-----------------------------------------------------------------------------
LEMMA ReloadNextInv == ReloadInv /\ [ReloadNext]_reloadVars => ReloadInv'
<1> SUFFICES ASSUME ReloadInv, [ReloadNext]_reloadVars PROVE ReloadInv'
  OBVIOUS
<1>1. CASE UNCHANGED reloadVars
  BY <1>1 DEF reloadVars, ReloadInv, ReloadTypes, ManagersApart, RunsUndisturbed, StageTells, Serves,
              Given, UnderWay
<1>2. CASE ReloadNext
  BY <1>2, QuietStep, BeginStep, ConnectsStep, ConnectFailsStep, ClosedStep, ScanStep, RunsStep
     DEF ReloadNext
<1> QED BY <1>1, <1>2

LEMMA ReloadInvPromises == ReloadInv => ConfigTrue /\ ToolsStayOpen
  BY DEF ReloadInv, ConfigTrue, ToolsStayOpen, StageTells, Serves, ManagersApart, RunsUndisturbed

(* The inductive invariant holds throughout: in particular the manager that is current *)
(* is open even while reloads overlap (reloadConfig, McpManager).                      *)
THEOREM ReloadInvariance == ReloadSpec => []ReloadInv
  BY ReloadInitInv, ReloadNextInv, PTL DEF ReloadSpec

(* Between reloads that do not overlap, what the runtime says it is configured with is *)
(* what its runs get, also after a reload whose servers did not answer.                *)
THEOREM ConfigurationIsTrue == ReloadSpec => []ConfigTrue
  BY ReloadInvariance, ReloadInvPromises, PTL

(* A run works on with open connections, however many reloads begin and overlap, if    *)
(* none was connecting when it was last put into the queue and hasQueued has counted   *)
(* it since: a run that was paused for a confirmation begins anew.                     *)
THEOREM RunKeepsItsTools == ReloadSpec => []ToolsStayOpen
  BY ReloadInvariance, ReloadInvPromises, PTL
===============================================================================
