------------------------------ MODULE MessageQueue ------------------------------
(***************************************************************************)
(* The queue of messages of one session as its users see and change it:    *)
(* the rows of queued runs with queue_position and queue_revision          *)
(* (queue-state.ts, database.ts), the live queue they mirror               *)
(* (run-orchestrator.ts), the text that the operation of each run has      *)
(* captured, and the lists on the users' devices (QueueDock, Android).     *)
(* Which runs may start, pause or fail is in RunOrchestrator and           *)
(* RunLifecycle; here a session works on one run after the other.          *)
(***************************************************************************)
EXTENDS Integers, Sequences, FiniteSets, SequencesExt

CONSTANTS QueueRuns,    \* 1..n, in the order of their creation
          Commands,     \* the runs among them that are commands
          Devices,
          MaxChanges,   \* bound of the model: changes by the user
          MaxRestarts   \* bound of the model

VARIABLES
    rows,      \* table runs: status, queue_position (0 for NULL), text of the message
    live,      \* pending entries of the session in the orchestrator
    head,      \* the run whose operation has been started, 0 for none
    captured,  \* the text in the closure of a run's entry
    readAs,    \* the text the agent was prompted with, -1 before
    revision,  \* sessions.queue_revision
    device,    \* the list a device shows, with its revision
    apart,     \* the two queues were ordered differently, see OrderMatches
    changes, restarts

queue == <<rows, live, head, captured, readAs, revision>>
queueVars == <<queue, device, apart, changes, restarts>>

Queued == {r \in QueueRuns : rows[r].status = "queued"}

(* listQueuedRuns: by position, commands last, then by creation. *)
Place(r) == IF rows[r].place = 0 THEN 1000 ELSE rows[r].place
ListedBefore(r, s) == Place(r) < Place(s) \/ (Place(r) = Place(s) /\ r < s)
Listing == SetToSortSeq(Queued, ListedBefore)

QueueInit ==
    /\ rows = [r \in QueueRuns |-> [status |-> "none", place |-> 0, text |-> 0]]
    /\ live = <<>>
    /\ head = 0
    /\ captured = [r \in QueueRuns |-> 0]
    /\ readAs = [r \in QueueRuns |-> -1]
    /\ revision = 1
    /\ device = [d \in Devices |-> [list |-> <<>>, revision |-> 1]]
    /\ apart = FALSE
    /\ changes = 0
    /\ restarts = 0

(* pump: the first entry is started when no other is. *)
PumpQueue(entries, working) ==
    IF working = 0 /\ entries # <<>> THEN live' = Tail(entries) /\ head' = Head(entries)
    ELSE live' = entries /\ head' = working

Change == changes < MaxChanges /\ changes' = changes + 1 /\ UNCHANGED restarts
NoChange == UNCHANGED <<changes, restarts>>

(* Listing without the run that has been started. *)
Waiting(list, started) == SelectSeq(list, LAMBDA r : r # started)
----------------------------------------------------------------------------
(* sendMessage and, for a command, start: a message gets the number of     *)
(* queued runs plus one as its position, a command none.                   *)
SendToQueue(r) ==
    /\ rows[r].status = "none"
    /\ \A s \in QueueRuns : s < r => rows[s].status # "none"
    /\ LET place == IF r \in Commands THEN 0 ELSE Cardinality(Queued) + 1
       IN  /\ rows' = [rows EXCEPT ![r] = [status |-> "queued", place |-> place, text |-> 0]]
           /\ revision' = IF r \in Commands THEN revision ELSE revision + 1
           /\ apart' = (apart \/ (place # 0 /\ \E s \in Queued \ {head} : Place(s) > place))
    /\ PumpQueue(Append(live, r), head)
    /\ NoChange
    /\ UNCHANGED <<captured, readAs, device>>

(* executeRun leaves the queue of the database: preflight reads the row of *)
(* the message, the agent is prompted with what the closure has.  A run    *)
(* that was cancelled meanwhile is passed over.                            *)
BeginRun ==
    /\ head # 0
    /\ IF rows[head].status = "queued"
       THEN /\ rows' = [rows EXCEPT ![head].status = "active"]
            /\ readAs' = [readAs EXCEPT ![head] = captured[head]]
            /\ revision' = revision + 1
            /\ UNCHANGED <<live, head>>
       ELSE /\ rows[head].status = "cancelled"
            /\ PumpQueue(live, 0)
            /\ UNCHANGED <<rows, readAs, revision>>
    /\ NoChange
    /\ UNCHANGED <<captured, device, apart>>

EndRun ==
    /\ head # 0 /\ rows[head].status = "active"
    /\ rows' = [rows EXCEPT ![head].status = "done"]
    /\ PumpQueue(live, 0)
    /\ NoChange
    /\ UNCHANGED <<captured, readAs, revision, device, apart>>

(* Bug: the entry stays in the live queue. *)
FaultyCancelQueuedRun(r) ==
    /\ rows[r].status = "queued"
    /\ Change
    /\ rows' = [rows EXCEPT ![r].status = "cancelled"]
    /\ revision' = revision + 1
    /\ UNCHANGED <<live, head, captured, readAs, device, apart>>

(* cancelRun of a queued run. *)
CancelQueuedRun(r) ==
    /\ rows[r].status = "queued"
    /\ Change
    /\ rows' = [rows EXCEPT ![r].status = "cancelled"]
    /\ live' = Waiting(live, r)
    /\ revision' = revision + 1
    /\ UNCHANGED <<head, captured, readAs, device, apart>>

(* editMessage of a queued message changes its row. *)
EditQueued(r) ==
    /\ rows[r].status = "queued"
    /\ Change
    /\ rows' = [rows EXCEPT ![r].text = @ + 1]
    /\ UNCHANGED <<live, head, captured, readAs, revision, device, apart>>
----------------------------------------------------------------------------
(* reorderQueuedRuns accepts the order of a list that is up to date.       *)
UpToDate(d, order) == device[d].revision = revision /\ ToSet(order) = Queued

Placed(order) ==
    [r \in QueueRuns |-> IF r \in ToSet(order)
                         THEN [rows[r] EXCEPT !.place = CHOOSE i \in DOMAIN order : order[i] = r]
                         ELSE rows[r]]

Orders(S) == {order \in [1..Cardinality(S) -> S] : \A i, j \in DOMAIN order : order[i] = order[j] => i = j}

(* reorderQueue: an order of the device's list; the live queue refuses an  *)
(* order with other runs than its own, and the transaction is undone.  The *)
(* device is told the new queue.                                           *)
ReorderQueue(d) ==
    /\ Change
    /\ \E order \in Orders(ToSet(device[d].list)) :
         /\ order # <<>>
         /\ UpToDate(d, order)
         /\ live = <<>> \/ ToSet(order) = ToSet(live)
         /\ rows' = Placed(order)
         /\ live' = IF live = <<>> THEN live ELSE order
         /\ device' = [device EXCEPT ![d] = [list |-> order, revision |-> revision + 1]]
         /\ apart' = FALSE
    /\ revision' = revision + 1
    /\ UNCHANGED <<head, captured, readAs>>

(* Bug: the live queue is not told. *)
FaultyPrioritizeQueued(r) ==
    /\ rows[r].status = "queued"
    /\ Change
    /\ rows' = Placed(<<r>> \o Waiting(Listing, r))
    /\ revision' = revision + 1
    /\ UNCHANGED <<live, head, captured, readAs, device, apart>>

(* Bug: the revision stays. *)
FaultyRevision(r) ==
    /\ rows[r].status = "queued"
    /\ Change
    /\ rows' = Placed(<<r>> \o Waiting(Listing, r))
    /\ live' = IF r \in ToSet(live) THEN <<r>> \o Waiting(live, r) ELSE live
    /\ UNCHANGED <<head, captured, readAs, revision, device, apart>>

(* prioritizeRun *)
PrioritizeQueued(r) ==
    /\ rows[r].status = "queued"
    /\ Change
    /\ rows' = Placed(<<r>> \o Waiting(Listing, r))
    /\ live' = IF r \in ToSet(live) THEN <<r>> \o Waiting(live, r) ELSE live
    /\ revision' = revision + 1
    /\ UNCHANGED <<head, captured, readAs, device, apart>>

(* A device reads the queue (listQueue). *)
LoadQueue(d) ==
    /\ device' = [device EXCEPT ![d] = [list |-> Listing, revision |-> revision]]
    /\ device' # device
    /\ NoChange
    /\ UNCHANGED <<queue, apart>>

(* The process ends and starts again: the active run is interrupted, and   *)
(* recoverQueuedRuns builds the live queue from the rows.                  *)
RestartQueue ==
    /\ restarts < MaxRestarts
    /\ restarts' = restarts + 1
    /\ rows' = [r \in QueueRuns |-> IF rows[r].status = "active"
                                    THEN [rows[r] EXCEPT !.status = "done"] ELSE rows[r]]
    /\ captured' = [r \in QueueRuns |-> IF rows[r].status = "queued" THEN rows[r].text
                                        ELSE captured[r]]
    /\ PumpQueue(Listing, 0)
    /\ apart' = FALSE
    /\ UNCHANGED <<readAs, revision, device, changes>>

QueueNext ==
    \/ BeginRun \/ EndRun \/ RestartQueue
    \/ \E r \in QueueRuns : SendToQueue(r) \/ CancelQueuedRun(r) \/ EditQueued(r) \/ PrioritizeQueued(r)
    \/ \E d \in Devices : ReorderQueue(d) \/ LoadQueue(d)

QueueSpec == QueueInit /\ [][QueueNext]_queueVars
----------------------------------------------------------------------------
QueueOK ==
    /\ head \in QueueRuns \cup {0}
    /\ head \notin ToSet(live)
    /\ revision \in Nat

(* The database and the process agree about what waits: a run is queued    *)
(* exactly when it has an entry, or its operation has not begun yet.       *)
MirrorComplete ==
    Queued = ToSet(live) \cup ({head} \cap Queued)

(* A device whose revision is the present one, and whose list has the      *)
(* present runs, has them in the present order: an order that is accepted  *)
(* was made from what is there.                                            *)
RevisionTellsOrder ==
    \A d \in Devices :
        device[d].revision = revision /\ ToSet(device[d].list) = Queued => device[d].list = Listing

(* The rows and the live queue have the same order, whatever is sent,      *)
(* cancelled, reordered, preferred or restarted.  A new message that is    *)
(* listed before older ones is excepted, see README.                       *)
OrderMatches ==
    ~apart => Waiting(Listing, head) = live

(* A message that is edited while it is queued is executed as edited.      *)
EditReachesRun ==
    \A r \in QueueRuns : readAs[r] # -1 => readAs[r] = rows[r].text
=============================================================================
