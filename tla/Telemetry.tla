------------------------------- MODULE Telemetry -------------------------------
(***************************************************************************)
(* The telemetry writer of a process: SqlWriter with its worker thread     *)
(* (sql-writer.ts, sqlite-writer.mjs), the TelemetryStore and the spans    *)
(* that write through it (index.ts, trace-context.ts).  A logical          *)
(* transaction is a group: what a span writes when it starts or ends, or   *)
(* one run of the maintenance.                                             *)
(***************************************************************************)
EXTENDS Integers, Sequences, FiniteSets, SequencesExt

CONSTANTS Spans,           \* spans, numbers
          ParentSpan,      \* the parent of a span, 0 for a root
          Readers,         \* who flushes: queries, and the services that close
          Services,        \* the readers that own a reference of the writer
          WriterCapacity,  \* 8192 in the code
          BatchSize,       \* 256 in the code
          MaxMaintenance,  \* bound of the model
          MaxMishaps       \* bound of the model: groups the disk refuses, and reopenings

ASSUME TelemetryAssumption ==
    /\ Services \subseteq Readers
    /\ BatchSize <= WriterCapacity
    /\ \A s \in Spans : ParentSpan[s] < s

VARIABLES
    writer,    \* SqlWriter of the process
    thread,    \* its worker: "up", "hung" or "gone", and the replies on their way
    table,     \* telemetry.db: spans, and how often a span was aggregated
    spans,     \* TraceSpanContext: "new", "open", "ended"
    reader,    \* where the call of flush or close is
    tally      \* operations handed over and written; groups settled (history), bounds

telemetryVars == <<writer, thread, table, spans, reader, tally>>

StartGroup(s) == [kind |-> "start", spans |-> {s}]
EndGroup(s) == [kind |-> "end", spans |-> {s}]
MaintainGroup(old) == [kind |-> "maintain", spans |-> old]
GroupSize(g) == IF g.kind = "start" THEN 1 ELSE 2
SizeOf(groups) == FoldLeft(LAMBDA n, g : n + GroupSize(g), 0, groups)

FreshWriter == [queue |-> <<>>, flight |-> <<>>, inFlight |-> 0, sequence |-> 0, completed |-> 0,
                references |-> Cardinality(Services), dead |-> FALSE, failures |-> 0,
                timer |-> FALSE, watchdog |-> FALSE]
FreshThread == [state |-> "up", replies |-> <<>>]

TelemetryInit ==
    /\ writer = FreshWriter
    /\ thread = FreshThread
    /\ table = [row |-> [s \in Spans |-> "none"], total |-> [s \in Spans |-> 0]]
    /\ spans = [s \in Spans |-> "new"]
    /\ reader = [r \in Readers |-> [at |-> "idle", target |-> 0, before |-> {}]]
    /\ tally = [enqueued |-> 0, written |-> 0, given |-> {}, settled |-> {}, ended |-> {},
                maintained |-> 0, faults |-> 0, reopened |-> 0]

-----------------------------------------------------------------------------
(* SqlWriter.dispatch: everything queued goes to the worker as one message. *)
DispatchedWith(w, watchdog) ==
    IF w.queue = <<>> \/ w.dead THEN [w EXCEPT !.timer = FALSE]
    ELSE [w EXCEPT !.timer = FALSE, !.queue = <<>>, !.inFlight = @ + SizeOf(w.queue),
                   !.sequence = @ + 1, !.watchdog = watchdog,
                   !.flight = Append(@, [id |-> w.sequence + 1, groups |-> w.queue])]
FaultyDispatched(w) == DispatchedWith(w, w.watchdog)
Dispatched(w) == DispatchedWith(w, TRUE)

(* The groups that are written or will never be, as far as the writer knows. *)
Outstanding(w) == ToSet(w.queue) \union UNION {ToSet(b.groups) : b \in ToSet(w.flight)}
Full(w, g) == w.dead \/ SizeOf(w.queue) + w.inFlight + GroupSize(g) > WriterCapacity

(* SqlWriter.enqueueGroup for one group after the other. *)
AcceptOr(w, g, rejected) ==
    IF Full(w, g) THEN rejected
    ELSE LET queued == [w EXCEPT !.queue = Append(@, g)]
         IN IF SizeOf(queued.queue) >= BatchSize THEN Dispatched(queued)
            ELSE [queued EXCEPT !.timer = TRUE]
FaultyAccept(w, g) == AcceptOr(w, g, w)
Accept(w, g) == AcceptOr(w, g, [w EXCEPT !.failures = @ + GroupSize(g)])

Hand(groups, maintained) ==
    /\ writer' = FoldLeft(Accept, writer, groups)
    /\ tally' = [tally EXCEPT !.enqueued = @ + SizeOf(groups), !.given = @ \union ToSet(groups),
                              !.settled = @ \union (ToSet(groups) \ Outstanding(writer')),
                              !.maintained = @ + maintained]

StartSpan(s) ==
    /\ spans[s] = "new" /\ ParentSpan[s] \in {0} \union {p \in Spans : spans[p] = "open"}
    /\ spans' = [spans EXCEPT ![s] = "open"]
    /\ Hand(<<StartGroup(s)>>, 0)
    /\ UNCHANGED <<thread, table, reader>>

(* TraceSpanContext.finish: children that are still open end before their parent. *)
EndSpan(s) ==
    LET open == {c \in Spans : spans[c] = "open" /\ ParentSpan[c] = s}
    IN /\ spans[s] = "open"
       /\ spans' = [c \in Spans |-> IF c \in open \union {s} THEN "ended" ELSE spans[c]]
       /\ Hand([i \in 1..Cardinality(open) |-> EndGroup(SetToSeq(open)[i])] \o <<EndGroup(s)>>, 0)
       /\ UNCHANGED <<thread, table, reader>>

(* TelemetryStore.maintain: spans that ended before the cutoff are added to the *)
(* aggregates and deleted, in one group.                                       *)
FaultyMaintenanceGroups(old) ==
    <<[kind |-> "aggregate", spans |-> old], [kind |-> "remove", spans |-> old]>>
MaintenanceGroups(old) == <<MaintainGroup(old)>>
Maintain(old) ==
    /\ old # {} /\ \A s \in old : spans[s] = "ended"
    /\ tally.maintained < MaxMaintenance
    /\ Hand(MaintenanceGroups(old), 1)
    /\ UNCHANGED <<thread, table, spans, reader>>

Timer == /\ writer.timer
         /\ writer' = Dispatched(writer)
         /\ UNCHANGED <<thread, table, spans, reader, tally>>

-----------------------------------------------------------------------------
(* The worker thread. *)

(* A start writes the row, an end finds it active or changes nothing; the events of *)
(* an end need the row.                                                             *)
Refused(t, g) == g.kind = "end" /\ \E s \in g.spans : t.row[s] = "none"
Applied(t, g) ==
    LET old == {s \in g.spans : t.row[s] = "ended"}
        added == [s \in Spans |-> t.total[s] + (IF s \in old THEN 1 ELSE 0)]
    IN CASE g.kind = "start" -> [t EXCEPT !.row = [s \in Spans |-> IF s \in g.spans THEN "active" ELSE @[s]]]
         [] g.kind = "end" -> [t EXCEPT !.row = [s \in Spans |-> IF s \in g.spans /\ @[s] = "active"
                                                                 THEN "ended" ELSE @[s]]]
         [] g.kind = "aggregate" -> [t EXCEPT !.total = added]
         [] OTHER -> [row |-> [s \in Spans |-> IF s \in old THEN "none" ELSE t.row[s]],
                      total |-> IF g.kind = "maintain" THEN added ELSE t.total]

(* write: the whole message in one transaction, else every group in one of its own. *)
(* A group fails for its rows, or because the disk refuses it.                      *)
Write(t, groups, bad) ==
    FoldLeft(LAMBDA r, i : IF i \in bad \/ Refused(r.table, groups[i])
                           THEN [r EXCEPT !.failed = @ \union {i}]
                           ELSE [r EXCEPT !.table = Applied(@, groups[i])],
             [table |-> t, failed |-> {}], [i \in DOMAIN groups |-> i])

WorkerWrites(bad) ==
    LET batch == Head(writer.flight)
        result == Write(table, batch.groups, bad)
        failures == SizeOf(SetToSeq({batch.groups[i] : i \in result.failed}))
    IN /\ thread.state = "up" /\ writer.flight # <<>>
       /\ bad \subseteq DOMAIN batch.groups /\ Cardinality(bad) + tally.faults + tally.reopened <= MaxMishaps
       /\ table' = result.table
       /\ thread' = [thread EXCEPT !.replies = Append(@,
                        [id |-> batch.id, count |-> SizeOf(batch.groups), failures |-> failures])]
       /\ writer' = [writer EXCEPT !.flight = Tail(@)]
       /\ tally' = [tally EXCEPT !.faults = @ + Cardinality(bad),
                                 !.written = @ + SizeOf(batch.groups) - failures,
                                 !.settled = @ \union ToSet(batch.groups),
                                 !.ended = @ \union {s \in Spans : table'.row[s] = "ended"}]
       /\ UNCHANGED <<spans, reader>>

WorkerHangs == /\ thread.state = "up" /\ writer.flight # <<>>
               /\ thread' = [thread EXCEPT !.state = "hung"]
               /\ UNCHANGED <<writer, table, spans, reader, tally>>
WorkerDies == /\ thread.state = "up"
              /\ thread' = [thread EXCEPT !.state = "gone"]
              /\ UNCHANGED <<writer, table, spans, reader, tally>>

(* resolveWaiters *)
Woken(w, r) == reader[r].at = "flushing" /\ (w.dead \/ reader[r].target <= w.completed)
WakeReaders(w) ==
    reader' = [r \in Readers |-> IF Woken(w, r) THEN [reader[r] EXCEPT !.at = "flushed"] ELSE reader[r]]

Reply ==
    LET reply == Head(thread.replies)
        left == writer.inFlight - reply.count
    IN /\ thread.replies # <<>>
       /\ writer' = [writer EXCEPT !.inFlight = left, !.failures = @ + reply.failures,
                                   !.completed = reply.id, !.watchdog = left > 0]
       /\ thread' = [thread EXCEPT !.replies = Tail(@)]
       /\ WakeReaders(writer')
       /\ UNCHANGED <<table, spans, tally>>

(* SqlWriter.failed, which counts what is queued or in flight as lost. *)
FailedWriter ==
    [writer EXCEPT !.dead = TRUE, !.timer = FALSE, !.watchdog = FALSE, !.queue = <<>>, !.flight = <<>>,
                   !.inFlight = 0, !.failures = @ + SizeOf(writer.queue) + writer.inFlight]
Failed ==
    /\ writer' = FailedWriter
    /\ tally' = [tally EXCEPT !.settled = @ \union Outstanding(writer)]
    /\ WakeReaders(writer')

Exit == /\ thread.state = "gone" /\ thread.replies = <<>> /\ ~writer.dead
        /\ Failed
        /\ UNCHANGED <<thread, table, spans>>
(* After 15 seconds without an answer; what the worker has posted still arrives. *)
Watchdog == /\ writer.watchdog
            /\ Failed
            /\ thread' = [thread EXCEPT !.state = "gone"]
            /\ UNCHANGED <<table, spans>>

-----------------------------------------------------------------------------
(* SqlWriter.flush, which a query waits for, and release, which starts with it. *)
FaultyFlush(r) ==
    /\ reader[r].at = "idle"
    /\ reader' = [reader EXCEPT ![r] =
                    [at |-> IF writer.dead \/ writer.completed >= writer.sequence THEN "flushed" ELSE "flushing",
                     target |-> writer.sequence, before |-> tally.given]]
    /\ writer' = Dispatched(writer)
    /\ UNCHANGED <<thread, table, spans, tally>>

Flush(r) ==
    LET w == Dispatched(writer)
        returns == w.dead \/ w.completed >= w.sequence
    IN /\ reader[r].at = "idle"
       /\ writer' = w
       /\ reader' = [reader EXCEPT ![r] = [at |-> IF returns THEN "flushed" ELSE "flushing",
                                           target |-> w.sequence, before |-> tally.given]]
       /\ UNCHANGED <<thread, table, spans, tally>>
Release(r) ==
    /\ r \in Services /\ reader[r].at = "flushed"
    /\ reader' = [reader EXCEPT ![r].at = "closed"]
    /\ writer' = [writer EXCEPT !.references = @ - 1]
    /\ thread' = IF writer.references > 1 THEN thread ELSE [thread EXCEPT !.state = "gone"]
    /\ UNCHANGED <<table, spans, tally>>

(* The process ends at any point; the constructor of the store closes the spans that *)
(* the last process has left open.                                                  *)
Reopen ==
    /\ tally.reopened + tally.faults < MaxMishaps
    /\ writer' = FreshWriter
    /\ thread' = FreshThread
    /\ table' = [table EXCEPT !.row = [s \in Spans |-> IF @[s] = "active" THEN "ended" ELSE @[s]]]
    /\ spans' = [s \in Spans |-> IF spans[s] = "new" THEN "new" ELSE "ended"]
    /\ reader' = [r \in Readers |-> [at |-> "idle", target |-> 0, before |-> {}]]
    /\ tally' = [tally EXCEPT !.enqueued = 0, !.written = 0, !.given = {}, !.settled = {},
                              !.ended = @ \union {s \in Spans : table'.row[s] = "ended"},
                              !.reopened = @ + 1]

TelemetryNext ==
    \/ \E s \in Spans : StartSpan(s) \/ EndSpan(s)
    \/ \E old \in SUBSET Spans : Maintain(old)
    \/ Timer
    \/ \E bad \in SUBSET (1..WriterCapacity) : WorkerWrites(bad)
    \/ WorkerHangs \/ WorkerDies \/ Reply \/ Exit \/ Watchdog
    \/ \E r \in Readers : Flush(r) \/ Release(r)
    \/ Reopen

(* The runtime delivers messages and events and runs timers; a worker that does *)
(* not hang writes.                                                            *)
TelemetryFairness ==
    /\ WF_telemetryVars(Reply) /\ WF_telemetryVars(Exit) /\ WF_telemetryVars(Watchdog)
TelemetrySpec == TelemetryInit /\ [][TelemetryNext]_telemetryVars /\ TelemetryFairness

-----------------------------------------------------------------------------
(* The shapes of the state, and the bound on what is queued or in flight. *)
TelemetryOK ==
    /\ SizeOf(writer.queue) + writer.inFlight <= WriterCapacity
    /\ writer.completed <= writer.sequence
    /\ thread.state \in {"up", "hung", "gone"}
    /\ \A s \in Spans : table.row[s] \in {"none", "active", "ended"} /\ spans[s] \in {"new", "open", "ended"}
    /\ \A r \in Readers : reader[r].at \in {"idle", "flushing", "flushed", "closed"}

(* Every operation that is handed over is written, counted as a failure, or still with *)
(* the writer, whatever worker, disk and watchdog do: no loss is silent                *)
(* (docs/architecture-quality.md, sql-writer.ts).                                      *)
LossesCounted ==
    tally.enqueued - tally.written
        <= writer.failures + SizeOf(writer.queue) + (IF writer.inFlight > 0 THEN writer.inFlight ELSE 0)

(* A flush that has returned is a barrier: what was handed over before it is in the *)
(* database or will never be.                                                       *)
FlushIsBarrier ==
    \A r \in Readers : reader[r].at \in {"flushed", "closed"} => reader[r].before \subseteq tally.settled

(* A span that was stored as ended is from then on in the spans or in the aggregates, *)
(* once (maintain): neither lost nor counted twice.                                   *)
EndedSpanCounted ==
    \A s \in tally.ended : table.total[s] + (IF table.row[s] = "none" THEN 0 ELSE 1) = 1

(* Every flush returns, also when the worker hangs or dies (watchdog). *)
FlushReturns == \A r \in Readers : reader[r].at = "flushing" ~> reader[r].at # "flushing"
===============================================================================
