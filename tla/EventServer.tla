------------------------------ MODULE EventServer ------------------------------
(***************************************************************************)
(* The server's side of the event stream of one session: the event log of  *)
(* database.ts, EventHub (events.ts) with the drafts of messages that are  *)
(* being generated, and the WebSocket handler of apps/server/src/app.ts.   *)
(* WebStream and AndroidStream add a client each.                          *)
(*                                                                         *)
(* The session works on one answer: a run, and one assistant message whose *)
(* text the model produces piece by piece.                                 *)
(* The transactions that an answer can consist of are a constant.  Each is *)
(* a sequence of blocks, the transactions that are nested in it or its own *)
(* stretch, and a block is a sequence of the types of the events it emits. *)
(* "run.failed" is the run.updated of a run that has failed, which ends    *)
(* the answer.                                                             *)
(*                                                                         *)
(* External: a WebSocket delivers frames in order until it breaks, and     *)
(* then the frames under way are lost.                                     *)
(***************************************************************************)
EXTENDS Integers, Sequences, FiniteSets, SequencesExt

CONSTANTS Scripts,     \* the answers: sequences of transactions, each a sequence of blocks
          TextLength,  \* length of the answer's text
          PageSize,    \* events per page; 1000 in the code
          BufferLimit, \* frames that may wait in a socket; 4 MiB in the code
          MaxFailures  \* bound of the model: HTTP requests that fail

None == -1

VARIABLES
    log,      \* session_events: the types of the events; the sequence is the index
    written,  \* how much of the text the model has produced
    flushed,  \* streamedLength: how much of it went out as deltas
    script,   \* the transactions of the answer that are to come
    draft,    \* EventHub.streaming: length of the message's draft, or None
    sock,     \* the socket: "none", "open", or "closing" by the server
    serving,  \* the handler has subscribed the socket to the session
    frames,   \* from the server to the client
    asks,     \* subscribe frames from the client: a cursor, or None for no session
    turns, failures

hub == <<log, written, flushed, script, draft>>
wire == <<sock, serving, frames, asks>>
bounds == <<turns, failures>>
----------------------------------------------------------------------------
(* The projection of a session: what a snapshot says, and what a client    *)
(* keeps up to date from the events.  "run" stands for the rows of runs,   *)
(* responses and activities, each replaced by the event that carries it.   *)
Blank == [msg |-> "none", run |-> <<0, "none">>]

(* The payload of the event with the sequence i changes a projection. *)
Written(p, type, i) ==
    CASE type = "message.started"                -> [p EXCEPT !.msg = "streaming"]
      [] type = "message.completed"              -> [p EXCEPT !.msg = "complete"]
      [] type \in {"run.updated", "run.failed"}  -> [p EXCEPT !.run = <<i, type>>]
      [] type = "session.snapshot"               -> p

(* The rows of the database after the first n events. *)
Rows(n) ==
    LET rows[i \in 0..n] == IF i = 0 THEN Blank ELSE Written(rows[i - 1], log[i], i)
    IN  rows[n]

(* The first n characters, each named by its place. *)
Prefix(n) == [i \in 1..n |-> i]

(* getSnapshot of the database, after n events: the text of the message is *)
(* empty until it completes.  An event session.snapshot carries this.      *)
Stored(n) == [cursor |-> n, rows |-> Rows(n),
              text |-> IF Rows(n).msg = "complete" THEN Prefix(TextLength) ELSE <<>>]

(* overlaySnapshot puts the draft in place of the text. *)
Snapshot == IF draft = None THEN Stored(Len(log))
            ELSE [Stored(Len(log)) EXCEPT !.text = Prefix(draft)]

(* listEvents after a cursor: the last sequence of the page, and hasMore.  *)
PageEnd(after) == IF Len(log) > after + PageSize THEN after + PageSize ELSE Len(log)
HasMore(after) == Len(log) > after + PageSize
----------------------------------------------------------------------------
(* Frames: a durable event is its sequence and type, a delta its offset    *)
(* and text.                                                               *)
Event(i, type) == [kind |-> "event", seq |-> i, type |-> type, offset |-> 0, append |-> <<>>]
Durable(i) == Event(i, log[i])
Delta(from, to) == [kind |-> "delta", seq |-> 0, type |-> "message.delta", offset |-> from,
                    append |-> [i \in 1..(to - from) |-> from + i]]
Numbered(first, types) == [i \in DOMAIN types |-> Event(first + i, types[i])]

Fits(q) == Len(q) <= BufferLimit

(* send: a socket whose buffer is over the limit is closed instead. *)
Sent(new) ==
    /\ UNCHANGED asks
    /\ IF Fits(frames \o new)
       THEN frames' = frames \o new /\ UNCHANGED <<sock, serving>>
       ELSE /\ frames' = SubSeq(frames \o new, 1, BufferLimit)
            /\ sock' = "closing"
            /\ serving' = FALSE

Broadcast(new) == IF serving THEN Sent(new) ELSE UNCHANGED wire

Failed == log # <<>> /\ log[Len(log)] = "run.failed"
Answered == script = <<>>
Streaming == ~Failed /\ Rows(Len(log)).msg = "streaming"

ServerInit ==
    /\ log = <<>>
    /\ written = 0
    /\ flushed = 0
    /\ script \in Scripts
    /\ draft = None
    /\ sock = "none"
    /\ serving = FALSE
    /\ frames = <<>>
    /\ asks = <<>>
    /\ turns = 0
    /\ failures = 0

(* Bug: a nested transaction publishes its events at its own end. *)
FaultyOutcome(blocks, done, throws) ==
    [logged |-> IF throws THEN <<>> ELSE FlattenSeq(blocks),
     published |-> FlattenSeq(SubSeq(blocks, 1, done))]

(* EventHub.transaction, when "done" of its blocks have ended and then one *)
(* of them or the commit throws, or none does.  A nested transaction only  *)
(* runs its operation: the events of all blocks wait for the commit of the *)
(* outer one, and go with the rows when it is rolled back.                 *)
Outcome(blocks, done, throws) ==
    LET events == IF throws THEN <<>> ELSE FlattenSeq(blocks)
    IN  [logged |-> events, published |-> events]

(* broadcast: the hub opens a draft at a started message and forgets it at *)
(* its end or that of its run.                                             *)
DraftAfter(types) ==
    IF types \cap {"message.completed", "run.failed"} # {} THEN None
    ELSE IF "message.started" \in types THEN 0 ELSE draft

(* The next transaction.  Where one of the run throws, the run ends in the *)
(* catch of executeRun, in the same stretch and with an event of its own;  *)
(* the snapshot is published by a request of the user (updateSession) that *)
(* fails alone.  message_end stops the flush timer.                        *)
Transaction ==
    /\ ~Answered
    /\ LET blocks == Head(script)
           events == ToSet(FlattenSeq(blocks))
           ofRun  == "session.snapshot" \notin events
       IN  /\ Streaming /\ "message.completed" \in events => written = TextLength
           /\ \E throws \in BOOLEAN, done \in 0..Len(blocks) :
                LET outcome == Outcome(blocks, done, throws)
                    caught  == IF throws /\ ofRun THEN <<"run.failed">> ELSE <<>>
                IN  /\ throws \/ done = Len(blocks)
                    /\ script' = IF ~throws THEN Tail(script) ELSE IF ofRun THEN <<>> ELSE script
                    /\ log' = log \o outcome.logged \o caught
                    /\ draft' = DraftAfter(ToSet(outcome.published \o caught))
                    /\ Broadcast(Numbered(Len(log), outcome.published)
                                   \o Numbered(Len(log) + Len(outcome.logged), caught))
    /\ UNCHANGED <<written, flushed, bounds>>

(* message_update: the model has produced more. *)
Produce ==
    /\ Streaming
    /\ written < TextLength
    /\ written' = written + 1
    /\ UNCHANGED <<log, flushed, script, draft, wire, bounds>>

(* flushAssistant: the timer sends what is new as one delta; the hub       *)
(* extends its draft when the delta fits to its end.                       *)
Flush ==
    /\ Streaming
    /\ flushed < written
    /\ flushed' = written
    /\ draft' = IF draft = flushed THEN written ELSE draft
    /\ Broadcast(<<Delta(flushed, written)>>)
    /\ UNCHANGED <<log, written, script, bounds>>

(* Bug: the events of the time without a connection are not replayed. *)
FaultyHandleSubscribe ==
    /\ sock = "open"
    /\ asks # <<>>
    /\ serving' = (Head(asks) # None)
    /\ asks' = Tail(asks)
    /\ UNCHANGED <<sock, frames, hub, bounds>>

(* The handler of a subscribe frame replays everything after the cursor.   *)
HandleSubscribe ==
    /\ sock = "open"
    /\ asks # <<>>
    /\ asks' = Tail(asks)
    /\ LET after == Head(asks)
           new   == IF after = None THEN <<>>
                    ELSE [i \in 1..(Len(log) - after) |-> Durable(after + i)]
       IN  IF Fits(frames \o new)
           THEN frames' = frames \o new /\ serving' = (after # None) /\ UNCHANGED sock
           ELSE frames' = SubSeq(frames \o new, 1, BufferLimit) /\ serving' = FALSE
                /\ sock' = "closing"
    /\ UNCHANGED <<hub, bounds>>

(* One more turn of fortune or of the user, and one more failing request. *)
Turn(max) == turns < max /\ turns' = turns + 1 /\ UNCHANGED failures
Fails == failures < MaxFailures /\ failures' = failures + 1 /\ UNCHANGED turns

(* The connection is gone: its frames are lost. *)
Gone ==
    /\ sock' = "none"
    /\ serving' = FALSE
    /\ frames' = <<>>
    /\ asks' = <<>>

Drop(max) ==
    /\ sock # "none"
    /\ Turn(max)
    /\ Gone
    /\ UNCHANGED hub

(* After the server's close frame. *)
Closed ==
    /\ sock = "closing"
    /\ frames = <<>>
    /\ Gone
    /\ UNCHANGED <<hub, bounds>>

Server == Transaction \/ Produce \/ Flush \/ HandleSubscribe \/ Closed

ServerOK ==
    /\ \E s \in Scripts : \E k \in 0..Len(s) : script = SubSeq(s, k + 1, Len(s))
    /\ flushed \in 0..written /\ written \in 0..TextLength
    /\ draft \in None..TextLength
    /\ sock \in {"none", "open", "closing"} /\ serving \in BOOLEAN
    /\ serving => sock = "open"
    /\ Len(frames) <= BufferLimit
    /\ turns \in Nat /\ failures \in 0..MaxFailures
=============================================================================
