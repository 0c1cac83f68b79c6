------------------------------- MODULE WebStream -------------------------------
(***************************************************************************)
(* A browser that follows a session: UmaClient (packages/client) with its  *)
(* subscription, cursor and recoveries, and the projection that App.tsx    *)
(* keeps with streaming.ts.  The command line uses the same UmaClient.     *)
(*                                                                         *)
(* Not in the model: the local store of snapshots, branches (a change of   *)
(* the branch unsubscribes and subscribes, which the model has), close().  *)
(***************************************************************************)
EXTENDS EventServer

CONSTANTS Recoveries,    \* names for the recoveries that can be under way at once
          WebTurns       \* bound of the model: connections that break, and turns of the user

VARIABLES
    subscribed, \* the session is in subscriptions, with the listener of App.tsx
    last,       \* lastSequences, or None
    target,     \* recoveryTargets, or None
    recovery,   \* the recoveries under way
    query,      \* the snapshot query of the page
    view,       \* the projection, NoView before the first snapshot
    holed       \* the client left the log: a recovery gave the cursor up or moved it
                \* without a listener or past events it has seen, or a query replaced
                \* a newer projection

client == <<subscribed, last, target, recovery>>
page == <<query, view, holed>>
webVars == <<hub, wire, bounds, client, page>>

Larger(m, n) == IF m > n THEN m ELSE n
NoView == [cursor |-> None, rows |-> Blank, text |-> <<>>]
Shown(v) == v.cursor # None
Idle == [stage |-> "idle"]     \* no query, no reply
NoRecovery == [kind |-> "none"]
----------------------------------------------------------------------------
(* The projection                                                          *)

(* Bug: a snapshot that comes late replaces what newer events have shown.  *)
FaultyMerge(v, new) ==
    IF ~Shown(v) THEN new
    ELSE [new EXCEPT !.text = IF v.rows.msg = "streaming" /\ @ = <<>> THEN v.text ELSE @]

(* mergeSessionSnapshot: an older snapshot is ignored, and of two texts of *)
(* a message under generation the longer one is kept.                      *)
Merge(v, new) ==
    IF ~Shown(v) THEN new
    ELSE IF new.cursor < v.cursor THEN v
    ELSE IF v.rows.msg = "streaming" /\ new.rows.msg = "streaming"
            /\ Len(v.text) > Len(new.text)
         THEN [new EXCEPT !.text = v.text]
         ELSE new

(* Bug: the part of a delta that is already shown is shown again. *)
FaultyApplyDelta(v, d) ==
    IF ~Shown(v) \/ v.rows.msg # "streaming" \/ d.offset > Len(v.text) THEN v
    ELSE [v EXCEPT !.text = @ \o d.append]

(* applyStreamingEvent: only what is not shown yet is appended. *)
ApplyDelta(v, d) ==
    IF ~Shown(v) \/ v.rows.msg # "streaming" \/ d.offset > Len(v.text) THEN v
    ELSE [v EXCEPT !.text = @ \o SubSeq(d.append, Len(@) - d.offset + 1, Len(d.append))]

(* The text of the message after an event. *)
EventText(text, type) ==
    CASE type = "message.started"   -> <<>>
      [] type = "message.completed" -> Prefix(TextLength)
      [] OTHER -> text

(* The listener of App.tsx for a durable event: applyDurableEvent, or a    *)
(* merge of the snapshot that the event carries.                           *)
ApplyEvent(v, e) ==
    IF ~Shown(v) THEN v
    ELSE IF e.type = "session.snapshot" THEN Merge(v, Stored(e.seq - 1))
    ELSE IF e.seq <= v.cursor THEN v
    ELSE [cursor |-> e.seq, rows |-> Written(v.rows, e.type, e.seq),
          text |-> EventText(v.text, e.type)]

(* Events from..to, one after the other. *)
ApplyEvents(v, from, to) ==
    LET after[i \in (from - 1)..to] == IF i = from - 1 THEN v ELSE ApplyEvent(after[i - 1], Durable(i))
    IN  after[to]

(* notify reaches the listener only while the page is subscribed. *)
Notified(v) == view' = IF subscribed THEN v ELSE view
----------------------------------------------------------------------------
WebInit ==
    /\ ServerInit
    /\ subscribed = FALSE
    /\ last = None
    /\ target = None
    /\ recovery = [r \in Recoveries |-> NoRecovery]
    /\ query = [stage |-> "asked"]
    /\ view = NoView
    /\ holed = FALSE

Asked(subs, cursor) == IF subs THEN Larger(cursor, 0) ELSE None

(* sendSubscriptions, when the socket is open. *)
SendSubscriptions(subs, cursor) ==
    /\ asks' = IF sock = "open" THEN Append(asks, Asked(subs, cursor)) ELSE asks
    /\ UNCHANGED <<sock, serving, frames>>

(* recoverEvents and recoverSnapshot begin: a recovery under way goes on   *)
(* for the newest sequence instead.                                        *)
Recover(kind, after, observed) ==
    /\ \E r \in Recoveries : recovery[r] = NoRecovery
    /\ LET r == CHOOSE r \in Recoveries : recovery[r] = NoRecovery IN
        /\ recovery' = [recovery EXCEPT ![r] =
             [kind |-> kind, cursor |-> after, observed |-> observed, through |-> observed,
              reply |-> Idle]]
        /\ target' = observed

(* The query of the page: the first snapshot, and refetches. *)
Refetch ==
    /\ query = Idle
    /\ Turn(WebTurns)
    /\ query' = [stage |-> "asked"]
    /\ UNCHANGED <<hub, wire, client, view, holed>>

QueryAnswered ==
    /\ query.stage = "asked"
    /\ query' = [stage |-> "answered", snapshot |-> Snapshot]
    /\ UNCHANGED <<hub, wire, bounds, client, view, holed>>

(* The query merges the answer with what the page shows, and waits for the *)
(* local store to take the result.                                         *)
QueryMerges ==
    /\ query.stage = "answered"
    /\ query' = [stage |-> "merged", snapshot |-> Merge(view, query.snapshot), base |-> view]
    /\ UNCHANGED <<hub, wire, bounds, client, view, holed>>

(* The result becomes what the page shows, also if it has moved on.        *)
QueryShown ==
    /\ query.stage = "merged"
    /\ view' = query.snapshot
    /\ query' = Idle
    /\ holed' = (holed \/ view # query.base)
    /\ UNCHANGED <<hub, wire, bounds, client>>

(* The effect of App.tsx: subscribeSessions once the snapshot is there. *)
Subscribe ==
    /\ ~subscribed /\ Shown(view)
    /\ subscribed' = TRUE
    /\ last' = IF last = None THEN view.cursor ELSE last
    /\ SendSubscriptions(TRUE, last')
    /\ UNCHANGED <<hub, bounds, target, recovery, page>>

(* The user leaves the session or its branch: unsubscribe. *)
Unsubscribe ==
    /\ subscribed
    /\ Turn(WebTurns)
    /\ subscribed' = FALSE
    /\ last' = None
    /\ target' = None
    /\ SendSubscriptions(FALSE, None)
    /\ UNCHANGED <<hub, recovery, page>>

(* connectEvents: the open handler subscribes, and fetches a snapshot if   *)
(* the cursor was given up.                                                *)
Connect ==
    /\ sock = "none"
    /\ sock' = "open"
    /\ asks' = <<Asked(subscribed, last)>>
    /\ IF subscribed /\ last = None
       THEN IF target = None THEN Recover("snapshot", None, 0) ELSE UNCHANGED <<target, recovery>>
       ELSE UNCHANGED <<target, recovery>>
    /\ UNCHANGED <<hub, bounds, serving, frames, subscribed, last, page>>

Received == /\ frames # <<>>
            /\ frames' = Tail(frames)
            /\ UNCHANGED <<hub, sock, serving, asks, bounds, subscribed>>

ReceiveDelta ==
    /\ Received
    /\ Head(frames).kind = "delta"
    /\ Notified(ApplyDelta(view, Head(frames)))
    /\ UNCHANGED <<last, target, recovery, query, holed>>

(* Bug: an event after a gap is shown like any other. *)
FaultyDispatch ==
    /\ Received
    /\ Head(frames).kind = "event"
    /\ LET seq == Head(frames).seq
       IN  IF ~subscribed \/ (target = None /\ last # None /\ seq <= last)
           THEN UNCHANGED <<last, target, recovery, view>>
           ELSE IF target # None
           THEN target' = Larger(target, seq) /\ UNCHANGED <<last, recovery, view>>
           ELSE /\ last' = seq
                /\ Notified(ApplyEvent(view, Head(frames)))
                /\ UNCHANGED <<target, recovery>>
    /\ UNCHANGED <<query, holed>>

(* dispatch of a durable event: what comes during a recovery only raises   *)
(* its target, what is known is dropped, a gap starts a recovery.          *)
Dispatch ==
    /\ Received
    /\ Head(frames).kind = "event"
    /\ LET seq == Head(frames).seq
       IN  IF ~subscribed \/ (target = None /\ last # None /\ seq <= last)
           THEN UNCHANGED <<last, target, recovery, view>>
           ELSE IF target # None
           THEN target' = Larger(target, seq) /\ UNCHANGED <<last, recovery, view>>
           ELSE IF last # None /\ seq # last + 1
           THEN Recover("events", last, seq) /\ UNCHANGED <<last, view>>
           ELSE /\ last' = seq
                /\ Notified(ApplyEvent(view, Head(frames)))
                /\ UNCHANGED <<target, recovery>>
    /\ UNCHANGED <<query, holed>>
----------------------------------------------------------------------------
(* Recoveries                                                              *)

(* The server answers a request of recovery r. *)
Answer(r) ==
    /\ recovery[r].kind # "none" /\ recovery[r].reply = Idle
    /\ recovery' = [recovery EXCEPT ![r].reply =
         IF recovery[r].kind = "events"
         THEN [upto |-> PageEnd(recovery[r].cursor), more |-> HasMore(recovery[r].cursor)]
         ELSE Snapshot]
    /\ UNCHANGED <<hub, wire, bounds, subscribed, last, target, page>>

(* The finally of a recovery. *)
Ended(r) == recovery' = [recovery EXCEPT ![r] = NoRecovery] /\ target' = None

(* The request fails: a page falls back to a snapshot, a snapshot gives    *)
(* the cursor up.                                                          *)
RequestFails(r) ==
    /\ recovery[r].kind # "none"
    /\ Fails
    /\ IF recovery[r].kind = "events"
       THEN /\ recovery' = [recovery EXCEPT ![r].kind = "fallback", ![r].reply = Idle]
            /\ UNCHANGED <<last, target, holed>>
       ELSE Ended(r) /\ last' = None /\ holed' = TRUE
    /\ UNCHANGED <<hub, wire, subscribed, query, view>>

(* Bug: events that were seen during the recovery are not waited for.      *)
FaultyPageArrives(r) ==
    /\ recovery[r].kind = "events" /\ recovery[r].reply # Idle
    /\ LET from  == recovery[r].cursor + 1
           upto  == recovery[r].reply.upto
       IN  /\ last' = IF upto >= from THEN upto ELSE last
           /\ Notified(ApplyEvents(view, from, upto))
           /\ IF upto < recovery[r].observed
              THEN /\ recovery' = [recovery EXCEPT ![r].cursor = upto, ![r].reply = Idle]
                   /\ UNCHANGED target
              ELSE Ended(r)
    /\ holed' = (holed \/ ~subscribed)
    /\ UNCHANGED <<hub, wire, bounds, subscribed, query>>

(* recoverEvents with a page: its events are shown; the recovery ends when *)
(* the cursor has reached the newest sequence that was seen.  (A page with *)
(* a gap, or without the events that were seen, fails like a request; the  *)
(* log, which only grows, has no such page.)                               *)
PageArrives(r) ==
    /\ recovery[r].kind = "events" /\ recovery[r].reply # Idle
    /\ LET from  == recovery[r].cursor + 1
           upto  == recovery[r].reply.upto
           seen  == Larger(recovery[r].observed, target)
       IN  /\ last' = IF upto >= from THEN upto ELSE last
           /\ Notified(ApplyEvents(view, from, upto))
           /\ IF recovery[r].reply.more \/ upto < seen
              THEN /\ recovery' = [recovery EXCEPT ![r].cursor = upto, ![r].reply = Idle]
                   /\ UNCHANGED target
              ELSE Ended(r)
    /\ holed' = (holed \/ ~subscribed)
    /\ UNCHANGED <<hub, wire, bounds, subscribed, query>>

(* The snapshot of a failed recoverEvents. *)
FallbackArrives(r) ==
    /\ recovery[r].kind = "fallback" /\ recovery[r].reply # Idle
    /\ Notified(Merge(view, recovery[r].reply))
    /\ last' = recovery[r].reply.cursor
    /\ Ended(r)
    /\ holed' = (holed \/ ~subscribed \/ target > recovery[r].reply.cursor)
    /\ UNCHANGED <<hub, wire, bounds, subscribed, query>>

(* recoverSnapshot goes round until no event came during the request. *)
SnapshotArrives(r) ==
    /\ recovery[r].kind = "snapshot" /\ recovery[r].reply # Idle
    /\ Notified(Merge(view, recovery[r].reply))
    /\ LET current == IF target = None THEN recovery[r].observed ELSE target
       IN  IF current = recovery[r].through \/ ~subscribed
           THEN last' = Larger(current, recovery[r].reply.cursor) /\ Ended(r)
           ELSE /\ recovery' = [recovery EXCEPT ![r].observed = current,
                                  ![r].through = current, ![r].reply = Idle]
                /\ UNCHANGED <<last, target>>
    /\ holed' = (holed \/ ~subscribed)
    /\ UNCHANGED <<hub, wire, bounds, subscribed, query>>
----------------------------------------------------------------------------
ServerStep == Server /\ UNCHANGED <<client, page>>
Break == Drop(WebTurns) /\ UNCHANGED <<client, page>>

Deliver ==
    \/ QueryAnswered \/ QueryMerges \/ QueryShown \/ Subscribe \/ Connect \/ ReceiveDelta \/ Dispatch
    \/ \E r \in Recoveries : Answer(r) \/ PageArrives(r) \/ FallbackArrives(r) \/ SnapshotArrives(r)

WebNext ==
    \/ ServerStep \/ Break \/ Deliver
    \/ Refetch \/ Unsubscribe
    \/ \E r \in Recoveries : RequestFails(r)

WebSpec == WebInit /\ [][WebNext]_webVars

(* The server works, frames arrive, requests are answered, the client      *)
(* reconnects after its delay (scheduleReconnect), and each promise of the *)
(* client continues once it is resolved.                                   *)
WebFairness ==
    /\ WF_webVars(ServerStep)
    /\ WF_webVars(ReceiveDelta \/ Dispatch)
    /\ WF_webVars(Connect)
    /\ WF_webVars(QueryAnswered \/ QueryMerges \/ QueryShown)
    /\ WF_webVars(Subscribe)
    /\ \A r \in Recoveries :
         WF_webVars(Answer(r)) /\ WF_webVars(PageArrives(r) \/ FallbackArrives(r) \/ SnapshotArrives(r))
----------------------------------------------------------------------------
WebOK ==
    /\ ServerOK
    /\ subscribed \in BOOLEAN /\ holed \in BOOLEAN
    /\ last \in None..Len(log) /\ target \in None..Len(log)
    /\ \A r \in Recoveries :
         recovery[r].kind \in {"none", "events", "fallback", "snapshot"}

(* What the page shows is what the database held after the event at its    *)
(* cursor: recoveries, replays, refetched snapshots and live events that   *)
(* overlap leave no hole, repeat nothing and undo nothing.  A recovery     *)
(* that failed for good is excepted, see README.                           *)
WebShowsLog ==
    Shown(view) /\ ~holed => view.rows = Rows(view.cursor)

(* The text of the message under generation is a prefix of what the model  *)
(* wrote, each character once, whatever deltas, replays and snapshots      *)
(* overlap; the completed message shows all of it.                         *)
WebShowsText ==
    Shown(view) =>
        /\ view.text = Prefix(Len(view.text))
        /\ view.rows.msg = "complete" => Len(view.text) = TextLength

(* The projection never goes back, and text once shown stays, whatever     *)
(* snapshot comes late.  A refetched snapshot that the local store delays  *)
(* is excepted, see README.                                                *)
WebKeeps ==
    [][Shown(view) /\ ~holed' =>
         /\ view'.cursor >= view.cursor
         /\ view'.rows.msg = view.rows.msg => Len(view'.text) >= Len(view.text)]_webVars

(* Once the answer is complete, a page that stays comes to show all of it. *)
WebCatchesUp ==
    Answered ~>
        (holed \/ ~subscribed \/ (Shown(view) /\ view.rows = Rows(Len(log))))
=============================================================================
