----------------------------- MODULE AndroidStream -----------------------------
(***************************************************************************)
(* The Android application that follows a session: MainActivity.kt with    *)
(* the projection of SnapshotProjection.kt.  Frames and reads of the       *)
(* session are coroutines that take eventMutex in the order they were      *)
(* launched and keep it over their requests; jobs is that order.           *)
(*                                                                         *)
(* External: OkHttp reports a failed connection.  Whether it reports the   *)
(* close frame of the server is left open, since the application does not  *)
(* answer it (onClosing is not overridden).                                *)
(***************************************************************************)
EXTENDS EventServer

CONSTANTS MaxJobs,      \* bound of the model: coroutines that wait for eventMutex
          AndroidTurns  \* bound of the model: connections that break, and turns of the user

VARIABLES
    chosen,   \* the session is the selected one
    shown,    \* projectedSnapshot, Nothing for null
    cursor,   \* sequences[session]
    jobs,     \* coroutines at eventMutex, the first one holds it
    request,  \* the request of the first one
    stored    \* the projection in the cache on disk

phone == <<chosen, shown, cursor, jobs, request, stored>>
androidVars == <<hub, wire, bounds, phone>>

(* late: the row of the message under generation bears the time of a delta *)
(* and not the one of its start.                                           *)
Nothing == [cursor |-> None, rows |-> Blank, text |-> <<>>, late |-> FALSE]
Select == [kind |-> "select"]
NoRequest == [stage |-> "none"]
Fetched(snapshot, late) == [cursor |-> snapshot.cursor, rows |-> snapshot.rows,
                            text |-> snapshot.text, late |-> late]
----------------------------------------------------------------------------
(* The projection                                                          *)

(* mergeSessionSnapshots: an older snapshot is ignored; of two rows with   *)
(* the same id the one with the later updatedAt is kept.                   *)
MergeSnapshots(v, new) ==
    IF v = Nothing THEN new
    ELSE IF new.cursor < v.cursor THEN v
    ELSE IF v.rows.msg = "streaming" /\ new.rows.msg = "streaming" /\ v.late /\ ~new.late
         THEN [new EXCEPT !.text = v.text, !.late = TRUE]
         ELSE new

(* projectSnapshot for a durable event.  A session.snapshot is merged with *)
(* the sequence of its event; its rows come from the database alone.       *)
ProjectEvent(v, e) ==
    IF e.seq <= v.cursor THEN v
    ELSE CASE e.type = "session.snapshot" ->
                MergeSnapshots(v, [Fetched(Stored(e.seq - 1), FALSE) EXCEPT !.cursor = e.seq])
           [] OTHER ->
                [cursor |-> e.seq, rows |-> Written(v.rows, e.type, e.seq),
                 text |-> CASE e.type = "message.started"   -> <<>>
                            [] e.type = "message.completed" -> Prefix(TextLength)
                            [] OTHER -> v.text,
                 late |-> v.late /\ e.type # "message.started"]

(* projectSnapshot for a delta: what is shown already is dropped.          *)
ProjectDelta(v, d) ==
    IF v.rows.msg = "streaming" /\ d.offset <= Len(v.text)
    THEN [v EXCEPT !.text = @ \o SubSeq(d.append, Len(@) - d.offset + 1, Len(d.append))]
    ELSE v

ProjectEvents(v, from, to) ==
    LET after[i \in (from - 1)..to] == IF i = from - 1 THEN v ELSE ProjectEvent(after[i - 1], Durable(i))
    IN  after[to]
----------------------------------------------------------------------------
AndroidInit ==
    /\ ServerInit
    /\ chosen = TRUE
    /\ shown = Nothing
    /\ cursor = None
    /\ jobs = <<>>
    /\ request = NoRequest
    /\ stored = Nothing

(* selectSession cancels the selection under way and launches another.     *)
Selecting ==
    LET waiting == SelectSeq(jobs, LAMBDA j : j # Select)
    IN  /\ jobs' = Append(waiting, Select)
        /\ request' = IF jobs # <<>> /\ Head(jobs) = Select THEN NoRequest ELSE request

(* openSocket and its onOpen: subscribe after the cursor, and read the     *)
(* session again.                                                          *)
Open ==
    /\ sock = "none"
    /\ sock' = "open"
    /\ asks' = <<IF cursor = None THEN 0 ELSE cursor>>
    /\ IF chosen THEN Selecting ELSE UNCHANGED <<jobs, request>>
    /\ UNCHANGED <<hub, bounds, serving, frames, chosen, shown, cursor, stored>>

(* onText launches a coroutine. *)
TextArrives ==
    /\ frames # <<>>
    /\ Len(jobs) < MaxJobs
    /\ frames' = Tail(frames)
    /\ jobs' = Append(jobs, Head(frames))
    /\ UNCHANGED <<hub, sock, serving, asks, bounds, chosen, shown, cursor, request, stored>>

(* The user opens another session, and comes back. *)
Leave ==
    /\ chosen
    /\ Turn(AndroidTurns)
    /\ chosen' = FALSE
    /\ shown' = Nothing
    /\ jobs' = SelectSeq(jobs, LAMBDA j : j # Select)
    /\ request' = IF jobs # <<>> /\ Head(jobs) = Select THEN NoRequest ELSE request
    /\ UNCHANGED <<hub, wire, cursor, stored>>

ComeBack ==
    /\ ~chosen
    /\ chosen' = TRUE
    /\ Selecting
    /\ UNCHANGED <<hub, wire, bounds, shown, cursor, stored>>

(* cacheJob and flushCache write the projection to the disk. *)
Store ==
    /\ chosen /\ shown # Nothing
    /\ stored' = shown
    /\ UNCHANGED <<hub, wire, bounds, chosen, shown, cursor, jobs, request>>
----------------------------------------------------------------------------
(* The coroutine that holds the mutex                                      *)

Job == Head(jobs)
Holds == jobs # <<>> /\ request.stage = "none"
Ask(what, v) == request' = [stage |-> "asked", what |-> what, current |-> v]
Leaves == jobs' = Tail(jobs) /\ request' = NoRequest
Shows(v) == shown' = v /\ cursor' = v.cursor

(* The end of handleEvent: the event is projected. *)
Project(v) ==
    Shows(IF Job.kind = "delta" THEN ProjectDelta(v, Job) ELSE ProjectEvent(v, Job))

(* handleEvent with a projection: what is known is dropped, a gap fetches  *)
(* the events in between.                                                  *)
Handle(v) ==
    IF Job.kind = "event" /\ Job.seq <= v.cursor
    THEN Leaves /\ shown' = v /\ UNCHANGED cursor
    ELSE IF Job.kind = "event" /\ Job.seq > v.cursor + 1
    THEN Ask("page", v) /\ shown' = v /\ UNCHANGED <<jobs, cursor>>
    ELSE Leaves /\ Project(v)

HandleEvent ==
    /\ Holds /\ Job # Select
    /\ IF ~chosen THEN Leaves /\ UNCHANGED <<shown, cursor>>
       ELSE IF shown = Nothing THEN Ask("snapshot", Nothing) /\ UNCHANGED <<jobs, shown, cursor>>
       ELSE Handle(shown)
    /\ UNCHANGED <<hub, wire, bounds, chosen, stored>>

ReadSession ==
    /\ Holds /\ Job = Select
    /\ Ask("snapshot", Nothing)
    /\ UNCHANGED <<hub, wire, bounds, chosen, shown, cursor, jobs, stored>>

(* The server answers. *)
Reply ==
    /\ request.stage = "asked"
    /\ request' = [stage |-> "answered", what |-> request.what, current |-> request.current,
                   reply |-> IF request.what = "snapshot"
                             THEN Fetched(Snapshot, draft # None /\ draft > 0)
                             ELSE [upto |-> PageEnd(request.current.cursor),
                                   more |-> HasMore(request.current.cursor)]]
    /\ UNCHANGED <<hub, wire, bounds, chosen, shown, cursor, jobs, stored>>

Replied(what) == request.stage = "answered" /\ request.what = what

SelectionDone ==
    /\ Replied("snapshot") /\ Job = Select
    /\ Shows(MergeSnapshots(shown, request.reply))
    /\ Leaves
    /\ UNCHANGED <<hub, wire, bounds, chosen, stored>>

(* handleEvent had no projection and goes on with the snapshot. *)
ProjectionRead ==
    /\ Replied("snapshot") /\ Job # Select
    /\ IF chosen THEN Handle(request.reply) ELSE Leaves /\ UNCHANGED <<shown, cursor>>
    /\ UNCHANGED <<hub, wire, bounds, chosen, stored>>

(* Bug: the gap is taken for filled after one page. *)
FaultyPageRead ==
    /\ Replied("page")
    /\ Leaves
    /\ IF chosen
       THEN Shows([ProjectEvents(request.current, request.current.cursor + 1, request.reply.upto)
                     EXCEPT !.cursor = IF Job.seq > @ THEN Job.seq ELSE @])
       ELSE UNCHANGED <<shown, cursor>>
    /\ UNCHANGED <<hub, wire, bounds, chosen, stored>>

(* One page of the gap; after the last one the event itself.               *)
PageRead ==
    /\ Replied("page")
    /\ LET v == ProjectEvents(request.current, request.current.cursor + 1, request.reply.upto)
       IN  IF ~chosen THEN Leaves /\ UNCHANGED <<shown, cursor>>
           ELSE IF request.reply.more THEN Ask("page", v) /\ UNCHANGED <<jobs, shown, cursor>>
           ELSE Leaves /\ Project(v)
    /\ UNCHANGED <<hub, wire, bounds, chosen, stored>>

(* A request fails.  A selection shows what the disk has; in handleEvent   *)
(* nothing catches the exception: the application ends and starts again.   *)
RequestFailed ==
    /\ request.stage = "asked"
    /\ Fails
    /\ IF Job = Select
       THEN Leaves /\ shown' = stored /\ UNCHANGED <<wire, cursor>>
       ELSE /\ shown' = Nothing
            /\ cursor' = None
            /\ jobs' = <<>>
            /\ request' = NoRequest
            /\ Gone
    /\ UNCHANGED <<hub, chosen, stored>>
----------------------------------------------------------------------------
Working == HandleEvent \/ ReadSession \/ Reply \/ SelectionDone \/ ProjectionRead \/ PageRead

AndroidNext ==
    \/ (Transaction \/ Produce \/ Flush \/ HandleSubscribe \/ Closed \/ Drop(AndroidTurns)) /\ UNCHANGED phone
    \/ Open \/ TextArrives \/ Leave \/ ComeBack \/ Store \/ Working \/ RequestFailed

AndroidSpec == AndroidInit /\ [][AndroidNext]_androidVars

(* The server works except that the close frame may stay unnoticed, frames *)
(* arrive, the application reconnects, and the mutex is passed on.         *)
AndroidFairness ==
    /\ WF_androidVars((Transaction \/ Produce \/ Flush \/ HandleSubscribe) /\ UNCHANGED phone)
    /\ WF_androidVars(TextArrives)
    /\ WF_androidVars(Open)
    /\ WF_androidVars(Working)
----------------------------------------------------------------------------
AndroidOK ==
    /\ ServerOK
    /\ chosen \in BOOLEAN
    /\ cursor \in None..Len(log)
    /\ Len(jobs) <= MaxJobs + 1
    /\ ~chosen => shown = Nothing

(* What the application shows is what the database held after the event at *)
(* its cursor, and of the message a prefix of its text: reconnections,     *)
(* gaps, late snapshots, changes of the session and restarts from the disk *)
(* leave no hole and repeat nothing.                                       *)
AndroidShowsLog ==
    shown # Nothing =>
        /\ shown.rows = Rows(shown.cursor)
        /\ shown.text = Prefix(Len(shown.text))
        /\ shown.rows.msg = "complete" => Len(shown.text) = TextLength

(* Once the answer is complete, the application comes to show all of it,   *)
(* unless the user has left, the server closed its connection or a request *)
(* failed.                                                                 *)
AndroidCatchesUp ==
    Answered ~>
        (~chosen \/ sock = "closing" \/ failures > 0 \/ shown.rows = Rows(Len(log)))
=============================================================================
