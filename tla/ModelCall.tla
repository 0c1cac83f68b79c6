------------------------------ MODULE ModelCall -------------------------------
(***************************************************************************)
(* One request to a model.  "stream": retryMissingFinishReasonStream, the  *)
(* answers of the agent loop (model-retry.ts).  "complete":                *)
(* ModelCallService.complete, the other calls, with their row of           *)
(* model_calls (model-calls.ts, audit-evaluation-repository.ts).           *)
(*                                                                         *)
(* External: the provider's client, which sends parts of an answer and     *)
(* ends in any way, and stops when its signal is aborted.                  *)
(***************************************************************************)
EXTENDS Integers, Sequences, FiniteSets, SequencesExt

CONSTANTS TransientLimit,  \* transientStreamRetry.maxRetries: 7
          MissingLimit,    \* missingFinishReasonRetry.maxRetries: 5
          MaxParts         \* bound of the model: parts of one answer

ASSUME ModelCallAssumption ==
    TransientLimit \in Nat /\ MissingLimit \in 0..TransientLimit /\ MaxParts \in Nat

VARIABLE request

Part == {"blank", "text"}               \* without and with meaningful output
End == {"done", "recovered", "error"}
Aborted == request.cancelled \/ request.timedOut

ModelCallInit ==
    \E kind \in {"stream", "complete"} :
      request = [kind |-> kind, at |-> IF kind = "stream" THEN "creating" ELSE "opening",
                 attempt |-> 1, retries |-> 0, missing |-> 0, cancelled |-> FALSE, timedOut |-> FALSE,
                 started |-> FALSE, pending |-> <<>>, shown |-> <<>>,
                 row |-> "none", refused |-> FALSE, result |-> "none"]

Streaming(at) == request.kind = "stream" /\ request.at = at
Completing(at) == request.kind = "complete" /\ request.at = at

(* The user cancels; modelRequestSignal also aborts after the time limit. *)
Cancel == /\ request.at \notin {"over", "dead"} /\ ~request.cancelled
          /\ request' = [request EXCEPT !.cancelled = TRUE]
TimeOut == /\ request.at \notin {"over", "dead"} /\ ~request.timedOut
           /\ request' = [request EXCEPT !.timedOut = TRUE]

-----------------------------------------------------------------------------
(* The stream.  Events wait in pending until the first meaningful one; as long as *)
(* none was shown, another attempt may replace this one.                          *)
Event(type) == [attempt |-> request.attempt, type |-> type]
Emitted(r, e) ==
    IF r.started THEN [r EXCEPT !.shown = Append(@, e)]
    ELSE IF e.type = "text" THEN [r EXCEPT !.started = TRUE, !.pending = <<>>,
                                           !.shown = (@ \o r.pending) \o <<e>>]
    ELSE [r EXCEPT !.pending = Append(@, e)]
Over(r) == [r EXCEPT !.at = "over", !.shown = @ \o r.pending, !.pending = <<>>]
Again(r) == [r EXCEPT !.at = "waiting", !.retries = @ + 1]

(* create() returns a source, or throws. *)
Create == /\ Streaming("creating")
          /\ request' = [request EXCEPT !.at = "reading", !.started = FALSE, !.pending = <<>>]
CreateFails(retryable) ==
    /\ Streaming("creating")
    /\ request' = IF retryable /\ ~Aborted /\ request.retries < TransientLimit THEN Again(request)
                  ELSE [request EXCEPT !.at = "over", !.shown = Append(@, Event("error"))]

Receive(part) == /\ Streaming("reading")
                 /\ Len(request.pending) + Len(request.shown) < MaxParts
                 /\ request' = Emitted(request, Event(part))
Finish == /\ Streaming("reading")
          /\ request' = Over(Emitted(request, Event("done")))

(* The stream ends without finish_reason: an answer with content and without a tool *)
(* call counts as complete.                                                         *)
FinishMissing(recoverable) ==
    /\ Streaming("reading")
    /\ request' =
         IF recoverable THEN Over([request EXCEPT !.pending = Append(@, Event("recovered"))])
         ELSE IF ~request.started /\ request.retries < MissingLimit THEN Again(request)
         ELSE Over(Emitted(request, Event("error")))

(* An error event, an iterator that throws, or a source that closes without a final *)
(* event.                                                                           *)
FaultyMayRetry(retryable) == retryable /\ request.retries < TransientLimit
MayRetry(retryable) == retryable /\ ~request.started /\ request.retries < TransientLimit
Break(retryable) ==
    /\ Streaming("reading")
    /\ request.cancelled => ~retryable
    /\ request' = IF MayRetry(retryable) THEN Again(request)
                  ELSE Over(Emitted(request, Event("error")))

WaitEnds == /\ request.at = "waiting" /\ ~Aborted
            /\ request' = [request EXCEPT !.attempt = @ + 1,
                                          !.at = IF request.kind = "stream" THEN "creating" ELSE "calling"]
WaitAborted == /\ Streaming("waiting") /\ Aborted
               /\ request' = [request EXCEPT !.at = "over", !.shown = Append(@, Event("error"))]

-----------------------------------------------------------------------------
(* complete.  The row is settled once; an attempt that the database refuses is not *)
(* repeated.                                                                       *)
Open(refused) ==
    /\ Completing("opening")
    /\ request' = IF refused THEN [request EXCEPT !.at = "over", !.result = "thrown"]
                  ELSE [request EXCEPT !.at = "calling", !.row = "started"]

Settled(r, row, result, refused) ==
    [r EXCEPT !.at = "over", !.refused = refused, !.row = IF refused THEN @ ELSE row,
              !.result = IF refused THEN "thrown" ELSE result]

(* The loop returns the last response, an answer or an error; one that was late is *)
(* thrown away.                                                                    *)
FaultyConclude(response, refused) ==
    request' = Settled(request, "completed", response, refused)
Conclude(response, refused) ==
    request' = IF request.timedOut /\ ~request.cancelled THEN Settled(request, "failed", "thrown", refused)
               ELSE Settled(request, IF response = "answer" THEN "completed" ELSE "failed", response, refused)

Respond(response, refused) ==
    /\ Completing("calling")
    /\ \/ /\ response \in {"answer", "recoverable"}
          /\ Conclude("answer", refused)
       \/ /\ response = "missing"
          /\ IF request.missing < MissingLimit /\ request.retries < TransientLimit
             THEN request' = [Again(request) EXCEPT !.missing = @ + 1]
             ELSE Conclude("error", refused)
       \/ /\ response = "transient"
          /\ IF ~Aborted /\ request.retries < TransientLimit
             THEN request' = Again(request)
             ELSE Conclude("error", refused)
       \/ /\ response = "fatal"
          /\ Conclude("error", refused)

(* completeSimple rejects, or the wait is interrupted. *)
Throw(refused) ==
    /\ Completing("calling") \/ (Completing("waiting") /\ Aborted)
    /\ request' = Settled(request, "failed", "thrown", refused)

(* The process ends; the next start marks the row. *)
Die == /\ request.at \notin {"over", "dead"}
       /\ request' = [request EXCEPT !.at = "dead", !.row = IF @ = "started" THEN "abandoned" ELSE @]

ModelCallNext ==
    \/ Cancel \/ TimeOut \/ Create \/ Finish \/ WaitEnds \/ WaitAborted \/ Die
    \/ \E retryable \in BOOLEAN : CreateFails(retryable) \/ Break(retryable) \/ FinishMissing(retryable)
    \/ \E part \in Part : Receive(part)
    \/ \E refused \in BOOLEAN :
         \/ Open(refused) \/ Throw(refused)
         \/ \E response \in {"answer", "recoverable", "missing", "transient", "fatal"} :
              Respond(response, refused)
ModelCallSpec == ModelCallInit /\ [][ModelCallNext]_request

-----------------------------------------------------------------------------
(* The shapes of the request, and the bounds on its retries. *)
ModelCallOK ==
    /\ request.at \in {"opening", "creating", "reading", "waiting", "calling", "over", "dead"}
    /\ request.row \in {"none", "started", "completed", "failed", "abandoned"}
    /\ request.attempt <= TransientLimit + 1
    /\ request.missing <= MissingLimit

(* What the agent sees of a stream is one attempt: it never gets parts of two, and the *)
(* stream closes with one final event, however the attempts broke and whenever it was  *)
(* cancelled (retryMissingFinishReasonStream).                                         *)
OneAnswer ==
    LET shown == request.shown
        Final(i) == shown[i].type \in End
    IN /\ \A i \in DOMAIN shown : shown[i].attempt = request.attempt /\ (Final(i) => i = Len(shown))
       /\ Streaming("over") => shown # <<>> /\ Final(Len(shown))

(* The row of a call agrees with what the caller got: completed only for an answer that *)
(* is returned, failed for an error, and never left started, except when the database   *)
(* refused to settle it.                                                                *)
CallAccounted ==
    Completing("over") =>
        /\ request.result = "answer" => request.row = "completed"
        /\ request.result = "error" => request.row = "failed"
        /\ request.result = "thrown" => request.refused \/ request.row \in {"none", "failed"}
----------------------------------------------------------------------------
(***************************************************************************)
(* The limits of an agent loop: ToolLoopGuard (tool-loop-guard.ts), which  *)
(* runAgent (runtime.ts) asks before every tool call, and the turns of a   *)
(* run.  A run has several loops, one after the other: the steps of a      *)
(* plan, a correction, what follows a restart.  Each builds its guard from *)
(* the actions of the run.                                                 *)
(*                                                                         *)
(* External: the loop of pi-agent-core, which reports a call before it     *)
(* asks, carries out the calls of a turn side by side, and after the turn  *)
(* asks whether to stop.                                                   *)
(***************************************************************************)
CONSTANTS Inputs,      \* tool and input of a call, what its signature stands for
          Outputs,     \* results of a tool
          Window,      \* calls a guard remembers: 64
          StepTurns,   \* turns of one loop: 48 for the step of a plan
          RunTurns,    \* turns of a run: 400
          MaxCalls     \* bound of the model: calls of the run

VARIABLES
    actions,   \* run_actions: the calls of the run; a blocked one stays prepared
    records,   \* records of the guard of the current loop
    loop       \* the current loop: its turns, the run's turns, failures

toolLoopVars == <<actions, records, loop>>

Blocked == "blocked"     \* the result that the loop itself gives a blocked call
Missing == "none"

ToolLoopInit ==
    /\ actions = <<>>
    /\ records = <<>>
    /\ loop = [at |-> "working", called |-> FALSE, stepTurns |-> 0, runTurns |-> 0,
               failure |-> FALSE, limit |-> FALSE]

-----------------------------------------------------------------------------
(* ToolLoopGuard.  *)
Same(list, input) == SelectSeq(list, LAMBDA r : r.input = input)
LastOf(list, n) == SubSeq(list, Len(list) - n + 1, Len(list))
Alternates(list, n) ==
    /\ Len(list) >= n
    /\ LET last == LastOf(list, n)
       IN last[1].input # last[2].input /\ \A i \in 1..n : last[i].input = last[((i - 1) % 2) + 1].input
NoProgress(list, input) ==
    LET ended == SelectSeq(Same(list, input), LAMBDA r : r.result # Missing)
    IN Len(ended) >= 3 /\ \A i, j \in 1..3 : LastOf(ended, 3)[i].result = LastOf(ended, 3)[j].result

(* check, with the new call at the end of the list. *)
Decision(list, input) ==
    LET count == Len(Same(list, input))
    IN CASE count >= 6 -> "critical"
         [] count < 6 /\ NoProgress(list, input) -> "warning"
         [] count < 6 /\ ~NoProgress(list, input) /\ Alternates(list, 10) -> "critical"
         [] OTHER -> IF Alternates(list, 6) \/ count = 3 THEN "warning" ELSE "none"

Remembered(list, record) ==
    LET longer == Append(list, record) IN IF Len(longer) > Window THEN Tail(longer) ELSE longer

(* restore *)
FaultyRestored(list) == SelectSeq(list, LAMBDA r : r.result # Missing)
Restored(list) == list

-----------------------------------------------------------------------------
(* The report of the call writes its action; beforeToolCall then asks the guard.  Every *)
(* decision blocks the call, a critical one ends the loop after the turn.               *)
Call(input) ==
    LET call == [key |-> Len(actions) + 1, input |-> input, result |-> Missing]
        list == Remembered(records, call)
        decision == Decision(list, input)
        blocked == decision # "none"
    IN /\ loop.at = "working" /\ Len(actions) < MaxCalls
       /\ actions' = Append(actions, [key |-> call.key, input |-> input, result |-> Missing,
                                      status |-> IF blocked THEN "prepared" ELSE "running"])
       /\ records' = [i \in DOMAIN list |-> IF blocked /\ list[i].key = call.key
                                            THEN [call EXCEPT !.result = Blocked] ELSE list[i]]
       /\ loop' = [loop EXCEPT !.called = TRUE, !.failure = @ \/ decision = "critical"]

ToolEnds(k, output) ==
    /\ loop.at = "working" /\ actions[k].status = "running"
    /\ actions' = [actions EXCEPT ![k].status = "completed", ![k].result = output]
    /\ records' = [i \in DOMAIN records |-> IF records[i].key = k THEN [records[i] EXCEPT !.result = output]
                                            ELSE records[i]]
    /\ UNCHANGED loop

(* shouldStopAfterTurn, and what runAgent makes of it. *)
TurnEnds ==
    LET turned == [loop EXCEPT !.stepTurns = @ + 1, !.runTurns = @ + 1, !.called = FALSE]
        reached == turned.stepTurns >= StepTurns \/ turned.runTurns >= RunTurns
    IN /\ loop.at = "working" /\ loop.called
       /\ \A k \in DOMAIN actions : actions[k].status # "running"
       /\ loop' = IF turned.failure \/ reached THEN [turned EXCEPT !.at = "failed", !.limit = ~turned.failure]
                  ELSE turned
       /\ UNCHANGED <<actions, records>>

(* The model answers without a call: the loop is over and another one may follow, also *)
(* after a restart, which leaves what was running uncertain.                           *)
NextLoop(restart) ==
    /\ loop.at = "working" /\ loop.runTurns < RunTurns
    /\ restart \/ (~loop.called /\ \A k \in DOMAIN actions : actions[k].status # "running")
    /\ actions' = [k \in DOMAIN actions |-> IF actions[k].status = "running"
                                            THEN [actions[k] EXCEPT !.status = "uncertain"] ELSE actions[k]]
    /\ records' = Restored([k \in DOMAIN actions |->
                              [key |-> k, input |-> actions[k].input, result |-> actions[k].result]])
    /\ loop' = [loop EXCEPT !.stepTurns = 0, !.called = FALSE, !.failure = FALSE]

ToolLoopNext ==
    \/ \E input \in Inputs : Call(input)
    \/ \E k \in DOMAIN actions, output \in Outputs : ToolEnds(k, output)
    \/ TurnEnds
    \/ \E restart \in BOOLEAN : NextLoop(restart)
ToolLoopSpec == ToolLoopInit /\ [][ToolLoopNext]_toolLoopVars

-----------------------------------------------------------------------------
(* The shapes of the state; a run has no more turns than it may. *)
ToolLoopOK ==
    /\ \A k \in DOMAIN actions : actions[k].status \in {"prepared", "running", "completed", "uncertain"}
    /\ loop.at \in {"working", "failed"} /\ loop.stepTurns <= StepTurns /\ loop.runTurns <= RunTurns

(* Among the last Window calls of a run no call was carried out more than four times with *)
(* the same input, whatever the steps, corrections and restarts between them: the third   *)
(* is blocked, the sixth ends the run (tool-loop-guard.ts).                               *)
RepeatsBounded ==
    \A input \in Inputs : \A from \in DOMAIN actions :
      Cardinality({k \in DOMAIN actions : /\ k \in from..(from + Window - 1)
                                          /\ actions[k].input = input /\ actions[k].status # "prepared"}) <= 4
===============================================================================
