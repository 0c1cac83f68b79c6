------------------------------- MODULE MCClients -------------------------------
(* The event stream with each of its clients, and the telemetry writer.    *)
(* They share no state, so one run checks them side by side: "part" says   *)
(* which of them a behaviour is about, and the others stand still.  The    *)
(* web page and the application are two clients of the same EventServer.   *)
EXTENDS Telemetry, TLC

(* An answer: its message starts, a snapshot is published, and the message *)
(* and the run end in one transaction.  And one that asks for a            *)
(* clarification, in a transaction with others in it.                      *)
Spoken == << << <<"message.started">> >>, << <<"session.snapshot">> >>,
             << <<"message.completed", "run.updated">> >> >>
Clarify == << << <<"run.updated">>, <<"message.completed", "run.updated">> >> >>
Scripts == {Spoken, Clarify}
TextLength == 2
PageSize == 2
BufferLimit == 3
MaxFailures == 1
Recoveries == {1, 2}
WebTurns == 1
MaxJobs == 2
AndroidTurns == 1

(* A root span and its child. *)
Parents == <<0, 1>>

VARIABLES
    part,
    log, written, flushed, script, draft, sock, serving, frames, asks, turns, failures,
    subscribed, last, target, recovery, query, view, holed,
    chosen, shown, cursor, jobs, request, stored

Web == INSTANCE WebStream
Android == INSTANCE AndroidStream

serverVars == <<log, written, flushed, script, draft, sock, serving, frames, asks, turns, failures>>
pageVars == <<subscribed, last, target, recovery, query, view, holed>>
phoneVars == <<chosen, shown, cursor, jobs, request, stored>>
clientVars == <<part, serverVars, pageVars, phoneVars, telemetryVars>>

Init ==
    /\ part \in {"web", "android", "telemetry"}
    /\ Web!WebInit
    /\ part = "telemetry" => script = Spoken
    /\ Android!AndroidInit
    /\ TelemetryInit

OfWeb(A) == part = "web" /\ A /\ UNCHANGED <<part, phoneVars, telemetryVars>>
OfAndroid(A) == part = "android" /\ A /\ UNCHANGED <<part, pageVars, telemetryVars>>
OfTelemetry(A) == part = "telemetry" /\ A /\ UNCHANGED <<part, serverVars, pageVars, phoneVars>>

Next == OfWeb(Web!WebNext) \/ OfAndroid(Android!AndroidNext) \/ OfTelemetry(TelemetryNext)

(* The fairness of each part (WebFairness, AndroidFairness and             *)
(* TelemetryFairness) while it is the one that moves.                      *)
WebMoves ==
    /\ WF_clientVars(OfWeb(Web!ServerStep))
    /\ WF_clientVars(OfWeb(Web!ReceiveDelta \/ Web!Dispatch))
    /\ WF_clientVars(OfWeb(Web!Connect))
    /\ WF_clientVars(OfWeb(Web!QueryAnswered \/ Web!QueryMerges \/ Web!QueryShown))
    /\ WF_clientVars(OfWeb(Web!Subscribe))
    /\ \A r \in Recoveries :
         /\ WF_clientVars(OfWeb(Web!Answer(r)))
         /\ WF_clientVars(OfWeb(Web!PageArrives(r) \/ Web!FallbackArrives(r) \/ Web!SnapshotArrives(r)))

AndroidMoves ==
    /\ WF_clientVars(OfAndroid((Android!Transaction \/ Android!Produce \/ Android!Flush
                                   \/ Android!HandleSubscribe) /\ UNCHANGED phoneVars))
    /\ WF_clientVars(OfAndroid(Android!TextArrives))
    /\ WF_clientVars(OfAndroid(Android!Open))
    /\ WF_clientVars(OfAndroid(Android!Working))

TelemetryMoves ==
    /\ WF_clientVars(OfTelemetry(Reply))
    /\ WF_clientVars(OfTelemetry(Exit))
    /\ WF_clientVars(OfTelemetry(Watchdog))

FairSpec == Init /\ [][Next]_clientVars /\ WebMoves /\ AndroidMoves /\ TelemetryMoves

----------------------------------------------------------------------------
(* What a page shows is what the database held at its cursor, and of the   *)
(* text of the answer a prefix, each character once (WebShowsLog and       *)
(* WebShowsText of WebStream: applyDelta, dispatch and recovery of the     *)
(* client, and its merge of refetched snapshots).                          *)
WebShows == part = "web" => Web!WebOK /\ Web!WebShowsLog /\ Web!WebShowsText

(* What a page has shown it does not take back (WebKeeps of WebStream:     *)
(* mergeSnapshot of the store).                                            *)
WebKeeps == Web!WebKeeps

(* The same for the application, across reconnections, changes of session  *)
(* and restarts from the disk (AndroidShowsLog of AndroidStream).          *)
AndroidShows == part = "android" => Android!AndroidOK /\ Android!AndroidShowsLog

(* Once the answer is complete, a client that stays comes to show all of   *)
(* it, and every flush of the telemetry returns, also when its worker      *)
(* hangs or dies (WebCatchesUp, AndroidCatchesUp, FlushReturns).           *)
CatchesUp ==
    /\ (part # "telemetry" /\ Web!Answered) ~>
          IF part = "web"
          THEN holed \/ ~subscribed \/ (Web!Shown(view) /\ view.rows = Web!Rows(Len(log)))
          ELSE ~chosen \/ sock = "closing" \/ failures > 0 \/ shown.rows = Android!Rows(Len(log))
    /\ FlushReturns

(* No operation handed to the telemetry writer is lost silently, a flush   *)
(* that returned is a barrier, and no span that ended is lost or counted   *)
(* twice (LossesCounted, FlushIsBarrier, EndedSpanCounted of Telemetry:    *)
(* SqlWriter and the maintenance of TelemetryStore).                       *)
TelemetryAccounts == TelemetryOK /\ LossesCounted /\ FlushIsBarrier /\ EndedSpanCounted
=============================================================================
