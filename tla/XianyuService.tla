---------------------------- MODULE XianyuService -----------------------------
(***************************************************************************)
(* The service of the Xianyu adapter: the adapter that is started and      *)
(* stopped (adapter.ts), the loop that keeps its connection to the         *)
(* platform (runLoop and connectOnce of transport.ts), the login with a QR *)
(* code (login.ts) and the cookie of the account, in memory and in its     *)
(* file (main.ts).  What happens to the messages of a connection is in     *)
(* ChannelDelivery.  A number is the cookie of the login that gave it.     *)
(*                                                                         *)
(* The model shows what connectOnce does: it never returns, because its    *)
(* finish is only called with an error, so a connection that worked counts *)
(* as a failed attempt; and it opens its socket also when stop() was       *)
(* called while it waited for the token.                                   *)
(***************************************************************************)
EXTENDS Naturals, Sequences, FiniteSets

CONSTANTS MaxLogins,    \* logins that are begun
          MaxClosing,   \* sockets that were given up and have not closed yet
          MaxCrashes    \* bounds of the model

Logins == 1..MaxLogins
NoCookie == 0
Configured == MaxLogins + 1     \* the cookie of an earlier login
Cookies == 0..MaxLogins + 1

VARIABLES
    started,   \* of the adapter
    link,      \* the transport: its loop and its fields
    closing,   \* sockets of earlier attempts whose close event is to come
    login,     \* the login controller: status and running
    polls,     \* each login: where it is, and the last state of its QR code
    jar,       \* the cookie of XianyuClient
    saved,     \* the cookie in the file, or of the configuration
    odd,       \* whether two logins were polled at once; whether the close
               \* event of an old socket came while a new one was open
    died       \* crashes so far

serviceVars == <<started, link, closing, login, polls, jar, saved, odd, died>>
loginState == <<login, polls, jar, saved>>

(* loop: "none" (this.runner is undefined), "token" (it waits for          *)
(* getAccessToken), "opening", "open", "waiting" (before the next          *)
(* attempt), "ended" (this.runner is a settled promise).                   *)
Idle == [loop |-> "none", sock |-> "none", stopping |-> FALSE, enabled |-> FALSE,
         connected |-> FALSE, authenticated |-> FALSE, account |-> NoCookie]

(* start of the transport, with the cookie that the first request sends. *)
Begun(cookie) == [Idle EXCEPT !.loop = "token", !.enabled = TRUE, !.account = cookie]

Shown == {"waiting_scan", "scanned", "confirmed"}
Working == {"preparing", "polling", "finishing", "stopping", "persisting"}
At(p, place) == polls[p].at = place
Busy(p) == polls[p].at \in Working

(* startXianyuService: without a cookie the adapter waits for a login. *)
LinkUp(cookie) == IF cookie = NoCookie THEN Idle ELSE Begun(cookie)
LoginUp(cookie) ==
    [status |-> IF cookie = NoCookie THEN "pending_login" ELSE "authenticated", running |-> FALSE]

ServiceInit ==
    /\ saved \in {NoCookie, Configured}
    /\ jar = saved
    /\ started = (jar # NoCookie)
    /\ link = LinkUp(jar)
    /\ login = LoginUp(jar)
    /\ polls = [p \in Logins |-> [at |-> "none", code |-> "none"]]
    /\ closing = 0
    /\ odd = [overlapped |-> FALSE, late |-> FALSE]
    /\ died = 0
----------------------------------------------------------------------------
(* start of the adapter: nothing to do when it is started, and this is     *)
(* also so while it stops.                                                 *)
StartAdapter(cookie) ==
    IF started THEN UNCHANGED <<started, link>>
    ELSE started' = TRUE /\ link' = Begun(cookie)

(* The loop has ended and stop() was called: in the microtasks that follow *)
(* every stop() that waits for this.runner returns, and each login that    *)
(* called one (with those in "more") goes on with setCookieHeader.         *)
StopsReturn(l, more) ==
    LET waits == {p \in Logins : At(p, "stopping")} \cup more
    IN  /\ started' = FALSE
        /\ link' = [l EXCEPT !.loop = "none", !.sock = "none", !.enabled = FALSE,
                             !.stopping = FALSE, !.connected = FALSE, !.authenticated = FALSE,
                             !.account = NoCookie]
        /\ polls' = [p \in Logins |-> IF p \in waits THEN [polls[p] EXCEPT !.at = "persisting"]
                                      ELSE polls[p]]
        /\ jar' \in IF waits = {} THEN {jar} ELSE waits

(* What stop of the transport does before it waits.  A loop that waits for *)
(* its token has no socket to close.                                       *)
Stopped(l) ==
    [l EXCEPT !.enabled = FALSE, !.stopping = TRUE,
              !.sock = IF @ = "none" THEN @ ELSE "closing"]

(* stop of the adapter, called by the logins in "callers" or a request. *)
StopAdapter(callers) ==
    IF link.loop \in {"waiting", "ended"}
    THEN StopsReturn(link, callers)
    ELSE /\ link' = Stopped(link)
         /\ polls' = [p \in Logins |-> IF p \in callers THEN [polls[p] EXCEPT !.at = "stopping"]
                                       ELSE polls[p]]
         /\ UNCHANGED <<started, jar>>

(* POST /start and POST /stop.  An adapter that is paused keeps its        *)
(* connection.                                                             *)
RequestStart ==
    /\ ~started
    /\ StartAdapter(jar)
    /\ UNCHANGED <<closing, loginState, odd, died>>

RequestStop ==
    /\ started
    /\ StopAdapter({})
    /\ UNCHANGED <<closing, login, saved, odd, died>>
----------------------------------------------------------------------------
(* The loop, after an attempt that failed: it ends when stop() was called, *)
(* else it waits, longer each time.                                        *)
Retry(l) ==
    IF link.stopping THEN StopsReturn(l, {})
    ELSE link' = [l EXCEPT !.loop = "waiting", !.sock = "none"] /\ UNCHANGED <<started, polls, jar>>

TokenArrives ==
    /\ link.loop = "token" /\ link.account # NoCookie
    /\ link' = [link EXCEPT !.loop = "opening", !.sock = "connecting"]
    /\ UNCHANGED <<started, closing, loginState, odd, died>>

TokenFails ==
    /\ link.loop = "token" /\ link.account # NoCookie
    /\ Retry(link)
    /\ UNCHANGED <<closing, login, saved, odd, died>>

(* Bug: the adapter is not stopped when the login has expired. *)
FaultyTokenRefused ==
    /\ link.loop = "token"
    /\ link' = [link EXCEPT !.loop = "ended", !.authenticated = FALSE, !.enabled = FALSE]
    /\ login' = [status |-> "expired", running |-> FALSE]
    /\ UNCHANGED <<started, polls, jar, closing, saved, odd, died>>

(* XianyuAuthError: the loop ends.  onAuthExpired marks the login as       *)
(* expired and stops the adapter, unless nobody has ever signed in: the    *)
(* adapter then stays started, with a loop that has ended.                 *)
TokenRefused ==
    /\ link.loop = "token"
    /\ IF link.stopping
       THEN StopsReturn(link, {}) /\ UNCHANGED login
       ELSE IF jar = NoCookie
       THEN /\ link' = [link EXCEPT !.loop = "ended", !.authenticated = FALSE, !.enabled = FALSE]
            /\ UNCHANGED <<started, polls, jar, login>>
       ELSE /\ login' = [status |-> "expired", running |-> FALSE]
            /\ StopsReturn(link, {})
    /\ UNCHANGED <<closing, saved, odd, died>>

Opens ==
    /\ link.sock = "connecting"
    /\ link' = [link EXCEPT !.loop = "open", !.sock = "open",
                            !.connected = TRUE, !.authenticated = TRUE]
    /\ UNCHANGED <<started, closing, loginState, odd, died>>

(* The close event of the socket: of one that the platform closed, or that *)
(* stop() closed. *)
Closes ==
    /\ link.sock # "none"
    /\ odd' = [odd EXCEPT !.late = FALSE]
    /\ Retry([link EXCEPT !.connected = FALSE, !.authenticated = FALSE])
    /\ UNCHANGED <<closing, login, saved, died>>

(* Registration, an acknowledgement, a message that could not be handled,  *)
(* or an error event: the attempt has failed, and its socket is still to   *)
(* close.                                                                  *)
GivesUp ==
    /\ link.sock \in {"connecting", "open", "closing"}
    /\ closing < MaxClosing
    /\ closing' = closing + 1
    /\ odd' = [odd EXCEPT !.late = FALSE]
    /\ Retry(link)
    /\ UNCHANGED <<login, saved, died>>

(* The close event of a socket that was given up writes to the fields of   *)
(* the transport, whichever socket is in use by then.                      *)
OldSocketCloses ==
    /\ closing > 0
    /\ closing' = closing - 1
    /\ link' = [link EXCEPT !.connected = FALSE, !.authenticated = FALSE]
    /\ odd' = [odd EXCEPT !.late = @ \/ link.sock = "open"]
    /\ UNCHANGED <<started, loginState, died>>

(* waitBeforeRetry is over. *)
TriesAgain ==
    /\ link.loop = "waiting"
    /\ link' = [link EXCEPT !.loop = "token", !.account = jar]
    /\ UNCHANGED <<started, closing, loginState, odd, died>>
----------------------------------------------------------------------------
(* A poll ends: the status is its result, and another login can start. *)
Ends(p, status) ==
    /\ login' = [status |-> status, running |-> FALSE]
    /\ polls' = [polls EXCEPT ![p] = [at |-> "done", code |-> "none"]]

Goes(p, place, code) == polls' = [polls EXCEPT ![p] = [at |-> place, code |-> code]]

(* start of the controller: prepareQrSession is several requests.  A login *)
(* that was marked as expired while it was polled is still polled.         *)
LoginStarts(p) ==
    /\ At(p, "none") /\ \A q \in Logins : q < p => ~At(q, "none")
    /\ ~login.running /\ login.status # "authenticated"
    /\ login' = [login EXCEPT !.running = TRUE]
    /\ Goes(p, "preparing", "none")
    /\ odd' = [odd EXCEPT !.overlapped = @ \/ \E q \in Logins : Busy(q)]
    /\ UNCHANGED <<started, link, closing, jar, saved, died>>

(* The code is shown and poll begins, unless the login was marked as       *)
(* expired in between.                                                     *)
Prepared(p) ==
    /\ At(p, "preparing")
    /\ \/ /\ login.running
          /\ login' = [login EXCEPT !.status = "waiting_scan"]
          /\ Goes(p, "polling", "none")
       \/ ~login.running /\ Ends(p, "expired")
       \/ Ends(p, "failed")
    /\ UNCHANGED <<started, link, closing, jar, saved, odd, died>>

(* An answer of the platform about the QR code: new, scanned, confirmed or *)
(* expired.  The loop goes on while the code is valid and no other login   *)
(* has ended.                                                              *)
PollAnswered(p) ==
    /\ At(p, "polling")
    /\ \/ \E code \in {"new", "scanned"} :
             /\ login.running
             /\ Goes(p, "polling", code)
             /\ login' = IF code = polls[p].code THEN login
                         ELSE [login EXCEPT !.status = IF code = "scanned" THEN "scanned"
                                                       ELSE "waiting_scan"]
       \/ Ends(p, "expired")
       \/ Ends(p, "failed")
       \/ /\ Goes(p, "finishing", "confirmed")
          /\ login' = [login EXCEPT !.status = "confirmed"]
    /\ UNCHANGED <<started, link, closing, jar, saved, odd, died>>

(* Bug: the new cookie is set while the adapter runs. *)
FaultyLoginFinishes(p) ==
    /\ At(p, "finishing")
    /\ jar' = p /\ Goes(p, "persisting", "none")
    /\ UNCHANGED <<started, link, closing, login, saved, odd, died>>

(* finishLogin gives the cookie; onAuthenticated first stops the adapter. *)
LoginFinishes(p) ==
    /\ At(p, "finishing")
    /\ \/ /\ started
          /\ StopAdapter({p})
          /\ UNCHANGED login
       \/ /\ ~started
          /\ jar' = p
          /\ Goes(p, "persisting", "none")
          /\ UNCHANGED <<started, link, login>>
       \/ /\ Ends(p, "failed")
          /\ UNCHANGED <<started, link, jar>>
    /\ UNCHANGED <<closing, saved, odd, died>>

(* persistCookie: all of them write the same temporary file, which is      *)
(* renamed; then the adapter is started.                                   *)
Persist(p) ==
    /\ At(p, "persisting")
    /\ \/ /\ saved' \in {q \in Logins : At(q, "persisting")}
          /\ StartAdapter(jar)
          /\ Ends(p, "authenticated")
       \/ /\ Ends(p, "failed")
          /\ UNCHANGED <<started, link, saved>>
    /\ UNCHANGED <<closing, jar, odd, died>>

(* The process dies, or ends after SIGTERM, and is started again. *)
ServiceRestarts ==
    /\ died < MaxCrashes
    /\ died' = died + 1
    /\ closing' = 0
    /\ polls' = [p \in Logins |-> IF At(p, "none") THEN polls[p]
                                  ELSE [at |-> "done", code |-> "none"]]
    /\ odd' = [overlapped |-> FALSE, late |-> FALSE]
    /\ jar' = saved
    /\ started' = (saved # NoCookie)
    /\ link' = LinkUp(saved)
    /\ login' = LoginUp(saved)
    /\ UNCHANGED saved

ServiceNext ==
    \/ RequestStart \/ RequestStop
    \/ TokenArrives \/ TokenFails \/ TokenRefused
    \/ Opens \/ Closes \/ GivesUp \/ OldSocketCloses \/ TriesAgain
    \/ \E p \in Logins :
          LoginStarts(p) \/ Prepared(p) \/ PollAnswered(p) \/ LoginFinishes(p) \/ Persist(p)
    \/ ServiceRestarts

ServiceSpec == ServiceInit /\ [][ServiceNext]_serviceVars
----------------------------------------------------------------------------
ServiceOK ==
    /\ started \in BOOLEAN
    /\ link \in [loop : {"none", "token", "opening", "open", "waiting", "ended"},
                 sock : {"none", "connecting", "open", "closing"},
                 stopping : BOOLEAN, enabled : BOOLEAN, connected : BOOLEAN,
                 authenticated : BOOLEAN, account : Cookies]
    /\ closing \in Nat
    /\ login \in [status : Shown \cup {"pending_login", "expired", "authenticated", "failed"},
                  running : BOOLEAN]
    /\ polls \in [Logins -> [at : Working \cup {"none", "done"},
                             code : {"none", "new", "scanned", "confirmed"}]]
    /\ jar \in Cookies /\ saved \in Cookies
    /\ odd \in [overlapped : BOOLEAN, late : BOOLEAN]
    /\ died \in Nat

(* An adapter that is not started has no loop and no connection, and one   *)
(* that is started has a loop that runs, unless nobody has ever signed in  *)
(* (start and stop of adapter.ts and transport.ts, onAuthExpired).         *)
StartedRuns ==
    /\ started = (link.loop # "none")
    /\ ~started => link = Idle
    /\ link.loop = "ended" => jar = NoCookie

(* A connection is one of the account that is signed in: no login replaces *)
(* the cookie under a connection (onAuthenticated).                        *)
OneAccount == started => link.account = jar

(* connected() tells of the socket in use, except when the close event of  *)
(* an earlier socket came too late (connectOnce).                          *)
ConnectedTells ==
    /\ link.sock = "open" /\ ~odd.late => link.connected
    /\ link.connected => link.sock \in {"open", "closing"} \/ closing > 0

(* The status of the login is that of a login someone works on; another    *)
(* one can start when nobody does; and what counts as authenticated is in  *)
(* the file, unless two logins were polled at once (XianyuLoginController, *)
(* persistCookie).                                                         *)
StatusTells ==
    /\ login.status \in Shown \/ login.running => \E p \in Logins : Busy(p)
    /\ login.status = "authenticated" /\ ~odd.overlapped => jar = saved /\ jar # NoCookie
----------------------------------------------------------------------------
(***************************************************************************)
(* What the Xianyu adapter asks of the platform and what it keeps on disk: *)
(* requests over the connection, each of which waits for the answer with   *)
(* its own id (request, createChat and getHistory of transport.ts), items  *)
(* that are published over HTTP in several calls (mtop and publishItem of  *)
(* client.ts), and the file with the ids of the messages that were seen    *)
(* (createStateWriter of main.ts).  The platform is external: it gives the *)
(* messages of a conversation in pages, the newest first, and may answer   *)
(* late, twice or not at all.                                              *)
(*                                                                         *)
(* An answer that refuses a call is an answer: publishItem returns it, and *)
(* a caller that gets one cannot tell from it that the item is there.      *)
(***************************************************************************)
CONSTANTS Asked,        \* requests of Core to the adapter
          KindOf,       \* each of them: "history", "chat" or "publish"
          PageSize,     \* messages in a page of the platform
          MaxTalk,      \* messages of the conversation
          MaxNoted, MaxEnds   \* bounds of the model

VARIABLES
    talk,      \* messages of the conversation: they are 1..talk
    connected, \* connectedState, and whether this.socket is there
    pending,   \* requests in the map of the transport
    asks,      \* requests: where they are, and what they have so far
    listed,    \* items that the platform has listed for each request
    noted,     \* changes of the state in memory: ids in seenIds, or sessions
    file,      \* state.json: the changes it has
    writer,    \* the closure of createStateWriter, what it writes, and whether
               \* the last write failed
    ended      \* connections that were lost and processes that ended

callsVars == <<talk, connected, pending, asks, listed, noted, file, writer, ended>>
platform == <<talk, listed>>
disk == <<noted, file, writer>>

NewAsk == [at |-> "new", first |-> 0, cursor |-> 0, got |-> <<>>, retry |-> TRUE]
Quiet == [pending |-> FALSE, at |-> "idle", text |-> 0, failed |-> FALSE]

CallsInit ==
    /\ talk \in 0..1
    /\ connected = TRUE
    /\ pending = {}
    /\ asks = [a \in Asked |-> NewAsk]
    /\ listed = [a \in Asked |-> 0]
    /\ noted = 0 /\ file = 0
    /\ writer = Quiet
    /\ ended = 0

Becomes(a, place) == asks' = [asks EXCEPT ![a].at = place]
Fails(a) == Becomes(a, "failed") /\ pending' = pending \ {a}

(* The buyer or the seller writes. *)
Talks ==
    /\ talk < MaxTalk
    /\ talk' = talk + 1
    /\ UNCHANGED <<connected, pending, asks, listed, disk, ended>>
----------------------------------------------------------------------------
(* request: refused without a connection; the entry is made before the     *)
(* frame is sent.  A new page is a new request with a new id.              *)
Ask(a) ==
    /\ KindOf[a] \in {"history", "chat"} /\ asks[a].at \in {"new", "page"}
    /\ IF connected
       THEN pending' = pending \cup {a} /\ Becomes(a, "sending")
       ELSE Fails(a)
    /\ UNCHANGED <<connected, platform, disk, ended>>

(* The frame is sent, or cannot be. *)
FrameSent(a) ==
    /\ asks[a].at = "sending"
    /\ \/ Becomes(a, "waiting") /\ UNCHANGED pending
       \/ Fails(a)
    /\ UNCHANGED <<connected, platform, disk, ended>>

(* No answer in time: the entry is removed, and an answer that comes later *)
(* finds none.                                                             *)
TimesOut(a) ==
    /\ asks[a].at = "waiting"
    /\ Fails(a)
    /\ UNCHANGED <<connected, platform, disk, ended>>

(* A page of the platform: the newest messages before the cursor, in       *)
(* their order; the first request has no cursor.                           *)
Below(a) == IF asks[a].got = <<>> THEN talk ELSE asks[a].cursor - 1
PageFrom(a) == IF Below(a) > PageSize THEN Below(a) - PageSize + 1 ELSE 1
Page(a) == [i \in 1..(Below(a) + 1 - PageFrom(a)) |-> PageFrom(a) + i - 1]

(* Bug: a page goes after the pages that were read before it. *)
FaultyHistoryAnswered(a) ==
    /\ KindOf[a] = "history" /\ asks[a].at = "waiting" /\ a \in pending
    /\ pending' = pending \ {a}
    /\ asks' = [asks EXCEPT ![a].first = IF @ = 0 THEN talk ELSE @,
                            ![a].got = @ \o Page(a),
                            ![a].cursor = PageFrom(a),
                            ![a].at = IF PageFrom(a) > 1 THEN "page" ELSE "done"]
    /\ UNCHANGED <<connected, platform, disk, ended>>

(* The answer in getHistory: the messages of the page go before those that *)
(* were read, and the next page begins at its cursor, which must be lower. *)
HistoryAnswered(a) ==
    /\ KindOf[a] = "history" /\ asks[a].at = "waiting" /\ a \in pending
    /\ pending' = pending \ {a}
    /\ asks' = [asks EXCEPT ![a].first = IF @ = 0 THEN talk ELSE @,
                            ![a].got = Page(a) \o @,
                            ![a].cursor = PageFrom(a),
                            ![a].at = IF PageFrom(a) > 1 THEN "page" ELSE "done"]
    /\ UNCHANGED <<connected, platform, disk, ended>>

(* The answer in createChat gives the id of the conversation, or not. *)
ChatAnswered(a) ==
    /\ KindOf[a] = "chat" /\ asks[a].at = "waiting" /\ a \in pending
    /\ pending' = pending \ {a}
    /\ Becomes(a, "done") \/ Becomes(a, "failed")
    /\ UNCHANGED <<connected, platform, disk, ended>>

(* Bug: the requests that wait for an answer are left alone. *)
FaultyDisconnects ==
    /\ connected /\ ended < MaxEnds
    /\ ended' = ended + 1
    /\ connected' = FALSE
    /\ UNCHANGED <<pending, asks, platform, disk>>

(* A process that ends answers nothing, and the next one has no requests.  *)
Gone == [a \in Asked |-> IF asks[a].at = "new" THEN NewAsk ELSE [asks[a] EXCEPT !.at = "failed"]]

(* The close event of a socket: failPending rejects every request.  One    *)
(* that still sends its frame does not look at its promise yet: the        *)
(* rejection is nobody's, and the process ends.                            *)
Disconnects ==
    /\ connected /\ ended < MaxEnds
    /\ ended' = ended + 1
    /\ connected' = FALSE
    /\ pending' = {}
    /\ UNCHANGED platform
    /\ IF \E a \in pending : asks[a].at = "sending"
       THEN asks' = Gone /\ writer' = Quiet /\ noted' = file /\ UNCHANGED file
       ELSE /\ asks' = [a \in Asked |-> IF a \in pending THEN [asks[a] EXCEPT !.at = "failed"]
                                        ELSE asks[a]]
            /\ UNCHANGED disk

Reconnects ==
    /\ ~connected
    /\ connected' = TRUE
    /\ UNCHANGED <<pending, asks, platform, disk, ended>>

(* The process ends and is started again: loadXianyuState. *)
EndsAnyway ==
    /\ ended < MaxEnds
    /\ ended' = ended + 1
    /\ connected' = FALSE
    /\ pending' = {}
    /\ asks' = Gone
    /\ noted' = file
    /\ writer' = Quiet
    /\ UNCHANGED <<platform, file>>
----------------------------------------------------------------------------
(* publishItem: the images, the category, the address, then the item, one  *)
(* after the other.  The images are uploaded side by side, each without a  *)
(* second attempt.                                                         *)
After == [images |-> "category", category |-> "address", address |-> "item", item |-> "done"]
Steps == {"images", "category", "address", "item"}

PublishStarts(a) ==
    /\ KindOf[a] = "publish" /\ asks[a].at = "new"
    /\ Becomes(a, "images") \/ Becomes(a, "failed")
    /\ UNCHANGED <<connected, pending, platform, disk, ended>>

(* A call is answered.  The platform lists the item of the last one, or    *)
(* refuses it, which is an answer like the other.                          *)
CallAnswered(a) ==
    /\ KindOf[a] = "publish" /\ asks[a].at \in Steps
    /\ asks' = [asks EXCEPT ![a].at = After[@], ![a].retry = TRUE]
    /\ IF asks[a].at = "item" THEN listed' \in {listed, [listed EXCEPT ![a] = @ + 1]}
       ELSE UNCHANGED listed
    /\ UNCHANGED <<talk, connected, pending, disk, ended>>

(* mtop: the token of the cookie has expired.  It is refreshed by a call   *)
(* that is not repeated itself, and the call is repeated once.             *)
TokenExpires(a) ==
    /\ KindOf[a] = "publish" /\ asks[a].at \in Steps \ {"images"}
    /\ asks[a].retry
    /\ asks' = [asks EXCEPT ![a].retry = FALSE]
    /\ UNCHANGED <<connected, pending, platform, disk, ended>>

(* Bug: a call whose answer is lost is repeated as well. *)
FaultyCallFails(a) ==
    /\ KindOf[a] = "publish" /\ asks[a].at \in Steps
    /\ IF asks[a].retry THEN asks' = [asks EXCEPT ![a].retry = FALSE] ELSE Becomes(a, "failed")
    /\ IF asks[a].at = "item" THEN listed' \in {listed, [listed EXCEPT ![a] = @ + 1]}
       ELSE UNCHANGED listed
    /\ UNCHANGED <<talk, connected, pending, disk, ended>>

(* A call fails, in the end or because its answer is lost: the item may be *)
(* there.                                                                  *)
CallFails(a) ==
    /\ KindOf[a] = "publish" /\ asks[a].at \in Steps
    /\ Becomes(a, "failed")
    /\ IF asks[a].at = "item" THEN listed' \in {listed, [listed EXCEPT ![a] = @ + 1]}
       ELSE UNCHANGED listed
    /\ UNCHANGED <<talk, connected, pending, disk, ended>>
----------------------------------------------------------------------------
(* A change of the state (onSeen, onChange): the writer begins, or notes   *)
(* that there is more to write.                                            *)
Notes ==
    /\ noted < MaxNoted
    /\ noted' = noted + 1
    /\ writer' = IF writer.at = "idle" THEN [writer EXCEPT !.at = "directory", !.pending = FALSE]
                 ELSE [writer EXCEPT !.pending = TRUE]
    /\ UNCHANGED <<connected, pending, asks, platform, file, ended>>

(* mkdir has returned: the state is written as it is now. *)
Serializes ==
    /\ writer.at = "directory"
    /\ writer' = [writer EXCEPT !.at = "writing", !.text = noted]
    /\ UNCHANGED <<connected, pending, asks, platform, noted, file, ended>>

(* Bug: what was noted during the write is forgotten. *)
FaultyRenames ==
    /\ writer.at = "writing"
    /\ file' = writer.text
    /\ writer' = Quiet
    /\ UNCHANGED <<connected, pending, asks, platform, noted, ended>>

(* rename: the file is the whole of the new text or of the old one. *)
Renames ==
    /\ writer.at = "writing"
    /\ file' = writer.text
    /\ writer' = [Quiet EXCEPT !.at = IF writer.pending THEN "directory" ELSE "idle"]
    /\ UNCHANGED <<connected, pending, asks, platform, noted, ended>>

(* A step of the write fails: nothing tries again before the next change. *)
WriteFails ==
    /\ writer.at \in {"directory", "writing"}
    /\ writer' = [writer EXCEPT !.at = "idle", !.text = 0, !.failed = TRUE]
    /\ UNCHANGED <<connected, pending, asks, platform, noted, file, ended>>

CallsNext ==
    \/ Talks \/ Disconnects \/ Reconnects \/ EndsAnyway
    \/ Notes \/ Serializes \/ Renames \/ WriteFails
    \/ \E a \in Asked :
          \/ Ask(a) \/ FrameSent(a) \/ TimesOut(a) \/ HistoryAnswered(a) \/ ChatAnswered(a)
          \/ PublishStarts(a) \/ CallAnswered(a) \/ TokenExpires(a) \/ CallFails(a)

CallsSpec == CallsInit /\ [][CallsNext]_callsVars
----------------------------------------------------------------------------
CallsOK ==
    /\ talk \in 0..MaxTalk /\ connected \in BOOLEAN /\ pending \subseteq Asked
    /\ file <= noted /\ noted <= MaxNoted
    /\ \A a \in Asked : asks[a].at \in Steps \cup {"new", "page", "sending", "waiting",
                                                   "done", "failed"}

(* A request waits for its answer only while the connection it was sent on *)
(* is there, and has the entry that the answer looks for (request,         *)
(* handleRaw, failPending).                                                *)
WaitsOnConnection ==
    \A a \in Asked : asks[a].at \in {"sending", "waiting"} <=> (connected /\ a \in pending)

(* The history of a conversation is all of it, in its order, however many  *)
(* pages it has and whatever is written in between (getHistory).           *)
HistoryWhole ==
    \A a \in Asked :
        KindOf[a] = "history" /\ asks[a].at = "done" =>
            asks[a].got = [i \in 1..asks[a].first |-> i]

(* An item is listed at most once for a request, whatever expires, is      *)
(* repeated or is lost (mtop, publishItem).                                *)
ListedOnce == \A a \in Asked : listed[a] <= 1

(* A writer that rests has written the last state, unless its write        *)
(* failed (createStateWriter).                                             *)
WriterRests == writer.at = "idle" /\ ~writer.failed => file = noted
===============================================================================
