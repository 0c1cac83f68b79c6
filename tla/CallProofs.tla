------------------------------ MODULE CallProofs ------------------------------
(***************************************************************************)
(* The safety properties of ModelCall and of Preflight, for any limits of  *)
(* the retries, any modes and any number of decisions, changes of the      *)
(* policy and crashes.                                                     *)
(*                                                                         *)
(* Of a stream the invariant says what of it may have been shown by where  *)
(* the request is (StreamInv): nothing while another attempt is possible,  *)
(* and then only parts of the present one.  Of a call it says which row    *)
(* belongs to which place (RowInv).  Of a run it says how its decision     *)
(* agrees with its status and with the way its entry executes it           *)
(* (RouteInv), when its plan has been let go (AllowedInv) and whose goal   *)
(* it was made with (PlanInv).                                             *)
(***************************************************************************)
EXTENDS ModelCall, Preflight, TLAPS

Places == {"opening", "creating", "reading", "waiting", "calling", "over", "dead"}
Rows == {"none", "started", "completed", "failed", "abandoned"}
Shown == [attempt : Nat, type : Part \cup End]
Request ==
    [kind : {"stream", "complete"}, at : Places, attempt : Nat, retries : Nat, missing : Nat,
     cancelled : BOOLEAN, timedOut : BOOLEAN, started : BOOLEAN,
     pending : Seq(Shown), shown : Seq(Shown),
     row : Rows, refused : BOOLEAN, result : {"none", "answer", "error", "thrown"}]

(* Parts of attempt n; such parts of which the last may be the end; a list  *)
(* that has its end.                                                        *)
PartsOf(list, n) == \A i \in 1..Len(list) : list[i].attempt = n /\ list[i].type \in Part
OneOf(list, n) ==
    \A i \in 1..Len(list) : list[i].attempt = n /\ (list[i].type \in End => i = Len(list))
Ended(list) == list # <<>> /\ list[Len(list)].type \in End

StreamInv ==
    /\ request.kind = "stream" => request.at \notin {"opening", "calling"}
    /\ request.kind = "complete" => request.at \notin {"creating", "reading"} /\ request.shown = <<>>
    /\ request.at \in {"creating", "waiting"} => request.shown = <<>>
    /\ request.at = "reading" =>
          /\ PartsOf(request.pending, request.attempt) /\ PartsOf(request.shown, request.attempt)
          /\ ~request.started => request.shown = <<>>
          /\ request.started => request.pending = <<>>
    /\ OneOf(request.shown, request.attempt)
    /\ Streaming("over") => Ended(request.shown)

RowInv ==
    /\ Completing("opening") => request.row = "none"
    /\ Completing("calling") \/ Completing("waiting") => request.row = "started"
    /\ CallAccounted

(* Each attempt after the first is one of the retries, which are limited. *)
AttemptInv ==
    /\ request.retries <= TransientLimit
    /\ request.missing <= MissingLimit
    /\ request.attempt <= request.retries + 1
    /\ request.at = "waiting" => request.attempt = request.retries
    /\ request.at \in {"opening", "creating", "reading", "calling"} =>
          request.attempt = request.retries + 1

CallInv == request \in Request /\ StreamInv /\ RowInv /\ AttemptInv
----------------------------------------------------------------------------
LEMMA JoinParts ==
  ASSUME NEW n \in Nat, NEW a \in Seq(Shown), NEW b \in Seq(Shown), PartsOf(a, n), PartsOf(b, n)
  PROVE  a \o b \in Seq(Shown) /\ PartsOf(a \o b, n)
BY DEF PartsOf

LEMMA AddPart ==
  ASSUME NEW n \in Nat, NEW a \in Seq(Shown), PartsOf(a, n), NEW type \in Part \cup End
  PROVE  LET list == Append(a, [attempt |-> n, type |-> type])
         IN  /\ list \in Seq(Shown) /\ OneOf(list, n) /\ list # <<>>
             /\ type \in Part => PartsOf(list, n)
             /\ type \in End => Ended(list)
<1> DEFINE e == [attempt |-> n, type |-> type]
           list == Append(a, e)
<1>1. e \in Shown
  BY DEF Shown
<1>2. list \in Seq(Shown) /\ Len(list) = Len(a) + 1 /\ list # <<>> /\ list[Len(list)] = e
  BY <1>1
<1>3. \A i \in 1..Len(a) : list[i] = a[i]
  BY <1>1
<1>4. \A i \in 1..Len(list) : i # Len(list) => list[i].attempt = n /\ list[i].type \in Part
  BY <1>2, <1>3 DEF PartsOf
<1>5. Part \cap End = {}
  BY DEF Part, End
<1>6. OneOf(list, n)
  BY <1>2, <1>4, <1>5 DEF OneOf
<1>7. type \in Part => PartsOf(list, n)
  BY <1>2, <1>4 DEF PartsOf
<1>8. type \in End => Ended(list)
  BY <1>2 DEF Ended
<1> QED BY <1>2, <1>6, <1>7, <1>8

LEMMA NoParts == \A n : PartsOf(<<>>, n) /\ OneOf(<<>>, n) /\ <<>> \in Seq(Shown)
BY DEF PartsOf, OneOf

LEMMA PartsAreOne == \A n, list : PartsOf(list, n) => OneOf(list, n)
BY DEF PartsOf, OneOf, Part, End
----------------------------------------------------------------------------
LEMMA InitCall == ModelCallInit => CallInv
<1> SUFFICES ASSUME ModelCallInit PROVE CallInv
  OBVIOUS
<1>1. PICK kind \in {"stream", "complete"} :
        request = [kind |-> kind, at |-> IF kind = "stream" THEN "creating" ELSE "opening",
                   attempt |-> 1, retries |-> 0, missing |-> 0, cancelled |-> FALSE,
                   timedOut |-> FALSE, started |-> FALSE, pending |-> <<>>, shown |-> <<>>,
                   row |-> "none", refused |-> FALSE, result |-> "none"]
  BY DEF ModelCallInit
<1>2. request \in Request
  BY <1>1, NoParts DEF Request, Places, Rows
<1>3. StreamInv
  BY <1>1, NoParts DEF StreamInv, Streaming, Completing
<1>4. RowInv
  BY <1>1 DEF RowInv, Completing, CallAccounted
<1>5. AttemptInv
  BY <1>1, ModelCallAssumption DEF AttemptInv
<1> QED BY <1>2, <1>3, <1>4, <1>5 DEF CallInv

(* The ways an attempt of a stream ends: with an event that ends the        *)
(* stream, or so that there is another attempt.                             *)
LEMMA StreamEnds ==
  ASSUME CallInv, Streaming("reading"), NEW type \in End,
         request' = Over(Emitted(request, Event(type)))
                    \/ request' = Over([request EXCEPT !.pending = Append(@, Event(type))])
  PROVE  CallInv'
<1> DEFINE said == IF request.started THEN request.shown ELSE request.pending
           list == Append(said, Event(type))
<1>1. request \in Request /\ StreamInv /\ request.attempt \in Nat /\ request.at = "reading"
      /\ request.kind = "stream" /\ type # "text"
  BY DEF CallInv, Streaming, Request, End
<1>2. said \in Seq(Shown) /\ PartsOf(said, request.attempt)
  BY <1>1 DEF Request, StreamInv
<1>3. list \in Seq(Shown) /\ OneOf(list, request.attempt) /\ Ended(list)
  BY <1>1, <1>2, AddPart DEF Event
<1>4. request.started => request.pending = <<>>
  BY <1>1 DEF StreamInv
<1>5. ~request.started => request.shown = <<>>
  BY <1>1 DEF StreamInv
<1>6. Event(type) \in Shown
  BY <1>1 DEF Event, Shown
<1>7. request' = [request EXCEPT !.at = "over", !.shown = list, !.pending = <<>>]
  <2>1. /\ list \o <<>> = list /\ <<>> \o list = list
        /\ \A e \in Shown : request.shown \o Append(<<>>, e) = Append(request.shown, e)
    BY <1>1, <1>3 DEF Request
  <2> DEFINE ends == [request EXCEPT !.at = "over", !.shown = list, !.pending = <<>>]
  <2> HIDE DEF list
  <2>2. ASSUME request.started PROVE Over(Emitted(request, Event(type))) = ends
    <3>1. Emitted(request, Event(type)) = [request EXCEPT !.shown = list]
      BY <2>2, <1>1 DEF Emitted, Request, list
    <3>2. list \o request.pending = list
      BY <1>4, <2>1, <2>2
    <3> QED BY <3>1, <3>2, <1>1 DEF Over, Request
  <2>3. ASSUME ~request.started PROVE Over(Emitted(request, Event(type))) = ends
    <3>1. Emitted(request, Event(type)) = [request EXCEPT !.pending = list]
      BY <2>3, <1>1 DEF Emitted, Request, Event, list
    <3> QED BY <3>1, <2>1, <2>3, <1>1, <1>5 DEF Over, Request
  <2>4. ASSUME request.started
        PROVE  Over([request EXCEPT !.pending = Append(@, Event(type))]) = ends
    <3>1. request.pending = <<>>
      BY <1>4, <2>4
    <3>2. [request EXCEPT !.pending = Append(@, Event(type))]
          = [request EXCEPT !.pending = Append(<<>>, Event(type))]
      BY <3>1
    <3>3. request.shown \o Append(<<>>, Event(type)) = list
      BY <1>6, <2>1, <2>4 DEF list
    <3> QED BY <3>2, <3>3, <1>1 DEF Over, Request
  <2>5. ASSUME ~request.started
        PROVE  Over([request EXCEPT !.pending = Append(@, Event(type))]) = ends
    <3>1. [request EXCEPT !.pending = Append(@, Event(type))] = [request EXCEPT !.pending = list]
      BY <2>5 DEF list
    <3>2. request.shown \o list = list
      BY <1>5, <2>1, <2>5
    <3> QED BY <3>1, <3>2, <1>1 DEF Over, Request
  <2> QED BY <2>2, <2>3, <2>4, <2>5
<1> HIDE DEF list
<1>8. request' \in Request
  BY <1>1, <1>3, <1>7, NoParts DEF Request, Places
<1>9. StreamInv'
  BY <1>1, <1>3, <1>7 DEF StreamInv, Streaming, Request
<1>10. RowInv'
  BY <1>1, <1>7 DEF RowInv, CallAccounted, Completing, Request
<1>11. AttemptInv'
  BY <1>1, <1>7 DEF AttemptInv, CallInv, Request
<1> QED BY <1>8, <1>9, <1>10, <1>11 DEF CallInv

LEMMA Tries ==
  ASSUME CallInv, request.at \in {"creating", "reading", "calling"}, request.shown = <<>>,
         request.retries < TransientLimit, NEW more \in {0, 1},
         more = 1 => request.missing < MissingLimit,
         request' = [Again(request) EXCEPT !.missing = @ + more]
  PROVE  CallInv'
<1>1. request \in Request /\ StreamInv /\ RowInv /\ AttemptInv
  BY DEF CallInv
<1>2. request' = [request EXCEPT !.at = "waiting", !.retries = request.retries + 1,
                                 !.missing = request.missing + more]
  BY <1>1 DEF Again, Request
<1>3. request' \in Request
  <2>1. request.retries + 1 \in Nat /\ request.missing + more \in Nat
    BY <1>1 DEF Request
  <2> QED BY <1>1, <1>2, <2>1 DEF Request, Places
<1>4. StreamInv'
  BY <1>1, <1>2, NoParts DEF StreamInv, Streaming, Request
<1>5. RowInv'
  BY <1>1, <1>2 DEF RowInv, CallAccounted, Completing, StreamInv, Request
<1>6. AttemptInv'
  <2>1. /\ request.retries \in Nat /\ request.missing \in Nat /\ request.attempt \in Nat
        /\ request'.at = "waiting" /\ request'.retries = request.retries + 1
        /\ request'.missing = request.missing + more /\ request'.attempt = request.attempt
    BY <1>1, <1>2 DEF Request
  <2> QED BY <1>1, <2>1, ModelCallAssumption DEF AttemptInv
<1> QED BY <1>3, <1>4, <1>5, <1>6 DEF CallInv
(* The row is settled, or the database refuses that.                        *)
LEMMA CallEnds ==
  ASSUME CallInv, Completing("calling") \/ Completing("waiting"), NEW refused \in BOOLEAN,
         NEW row \in {"completed", "failed"}, NEW result \in {"answer", "error", "thrown"},
         result = "answer" <=> row = "completed",
         request' = Settled(request, row, result, refused)
  PROVE  CallInv'
<1>1. /\ request \in Request /\ StreamInv /\ AttemptInv
      /\ request.kind = "complete" /\ request.row = "started"
  BY DEF CallInv, Completing, RowInv
<1>2. request' \in Request
  BY <1>1 DEF Settled, Request, Places, Rows
<1>3. StreamInv'
  BY <1>1 DEF StreamInv, Settled, Streaming, Request
<1>4. RowInv'
  BY <1>1 DEF RowInv, CallAccounted, Completing, Settled, Request
<1>5. AttemptInv'
  BY <1>1 DEF AttemptInv, Settled, Request
<1> QED BY <1>2, <1>3, <1>4, <1>5 DEF CallInv

(* A stream that shows nothing but that it failed.                          *)
LEMMA StreamFails ==
  ASSUME CallInv, request.kind = "stream", request.at \in {"creating", "waiting"},
         request' = [request EXCEPT !.at = "over", !.shown = Append(@, Event("error"))]
  PROVE  CallInv'
<1>1. request \in Request /\ StreamInv /\ AttemptInv /\ request.shown = <<>>
  BY DEF CallInv, StreamInv
<1> DEFINE list == Append(<<>>, Event("error"))
<1>2. list \in Seq(Shown) /\ OneOf(list, request.attempt) /\ Ended(list)
  BY <1>1, AddPart, NoParts DEF Event, End, Request
<1>3. request' = [request EXCEPT !.at = "over", !.shown = list]
  BY <1>1
<1> HIDE DEF list
<1>4. request' \in Request
  BY <1>1, <1>2, <1>3 DEF Request, Places
<1>5. StreamInv'
  BY <1>1, <1>2, <1>3 DEF StreamInv, Streaming, Request
<1>6. RowInv'
  BY <1>1, <1>3 DEF RowInv, CallAccounted, Completing, Request
<1>7. AttemptInv'
  BY <1>1, <1>3 DEF AttemptInv, Request
<1> QED BY <1>4, <1>5, <1>6, <1>7 DEF CallInv

LEMMA PartReceived ==
  ASSUME CallInv, NEW part \in Part, Receive(part)
  PROVE  CallInv'
<1>1. /\ request \in Request /\ StreamInv /\ RowInv /\ AttemptInv /\ request.at = "reading"
      /\ request.kind = "stream" /\ request.attempt \in Nat
      /\ request.pending \in Seq(Shown) /\ request.shown \in Seq(Shown)
  BY DEF CallInv, Receive, Streaming, Request
<1> DEFINE e == Event(part)
           said == IF request.started THEN request.shown ELSE request.pending
           list == Append(said, e)
<1>2. said \in Seq(Shown) /\ PartsOf(said, request.attempt)
  BY <1>1 DEF StreamInv
<1>3. list \in Seq(Shown) /\ PartsOf(list, request.attempt) /\ OneOf(list, request.attempt)
  BY <1>1, <1>2, AddPart DEF Event
<1>4. PICK begun \in BOOLEAN :
        request' = [request EXCEPT !.started = begun,
                                   !.pending = IF begun THEN <<>> ELSE list,
                                   !.shown = IF begun THEN list ELSE <<>>]
  <2>1. CASE request.started
    <3>1. request' = [request EXCEPT !.shown = list]
      BY <1>1, <2>1 DEF Receive, Emitted
    <3>2. request.pending = <<>>
      BY <1>1, <2>1 DEF StreamInv
    <3> HIDE DEF list
    <3> QED BY <1>1, <2>1, <3>1, <3>2 DEF Request
  <2>2. CASE ~request.started /\ part = "text"
    <3>1. request.shown = <<>>
      BY <1>1, <2>2 DEF StreamInv
    <3>2. (request.shown \o request.pending) \o <<e>> = list
      BY <1>1, <2>2, <3>1
    <3>3. request' = [request EXCEPT !.started = TRUE, !.pending = <<>>, !.shown = list]
      BY <1>1, <2>2, <3>2 DEF Receive, Emitted, Event
    <3> HIDE DEF list
    <3> QED BY <3>3
  <2>3. CASE ~request.started /\ part # "text"
    <3>1. request.shown = <<>>
      BY <1>1, <2>3 DEF StreamInv
    <3>2. request' = [request EXCEPT !.pending = list]
      BY <1>1, <2>3 DEF Receive, Emitted, Event
    <3> HIDE DEF list
    <3> QED BY <1>1, <2>3, <3>1, <3>2 DEF Request
  <2> QED BY <1>1, <2>1, <2>2, <2>3 DEF Request
<1> HIDE DEF list
<1>5. request' \in Request
  BY <1>1, <1>3, <1>4, NoParts DEF Request
<1>6. StreamInv'
  BY <1>1, <1>3, <1>4, NoParts DEF StreamInv, Streaming, Request
<1>7. RowInv'
  BY <1>1, <1>4 DEF RowInv, CallAccounted, Completing, Request
<1>8. AttemptInv'
  BY <1>1, <1>4 DEF AttemptInv, Request
<1> QED BY <1>5, <1>6, <1>7, <1>8 DEF CallInv
(* Steps that change neither what is shown nor the row.                     *)
LEMMA Signals ==
  ASSUME CallInv, Cancel \/ TimeOut \/ Create \/ WaitEnds
  PROVE  CallInv'
<1>1. request \in Request /\ StreamInv /\ RowInv /\ AttemptInv /\ request.attempt \in Nat
  BY DEF CallInv, Request
<1>2. CASE Cancel \/ TimeOut
  <2>1. request' \in Request
    BY <1>1, <1>2 DEF Cancel, TimeOut, Request
  <2>2. StreamInv' /\ RowInv' /\ AttemptInv'
    BY <1>1, <1>2 DEF Cancel, TimeOut, Request, StreamInv, RowInv, AttemptInv, CallAccounted,
                      Completing, Streaming
  <2> QED BY <2>1, <2>2 DEF CallInv
<1>3. CASE Create
  <2>1. request' = [request EXCEPT !.at = "reading", !.started = FALSE, !.pending = <<>>]
        /\ request.at = "creating" /\ request.kind = "stream" /\ request.shown = <<>>
    BY <1>1, <1>3 DEF Create, Streaming, StreamInv
  <2>2. request' \in Request
    BY <1>1, <2>1, NoParts DEF Request, Places
  <2>3. StreamInv' /\ RowInv' /\ AttemptInv'
    BY <1>1, <2>1, NoParts DEF Request, StreamInv, RowInv, AttemptInv, CallAccounted, Completing,
                               Streaming
  <2> QED BY <2>2, <2>3 DEF CallInv
<1>4. CASE WaitEnds
  <2>1. PICK at \in {"creating", "calling"} :
          /\ request' = [request EXCEPT !.attempt = request.attempt + 1, !.at = at]
          /\ request.at = "waiting" /\ request.shown = <<>>
          /\ request.kind = "stream" <=> at = "creating"
    BY <1>1, <1>4 DEF WaitEnds, StreamInv
  <2>2. request' \in Request
    <3>1. request.attempt + 1 \in Nat /\ at \in Places
      BY <1>1, <2>1 DEF Places
    <3> QED BY <1>1, <2>1, <3>1 DEF Request
  <2>3. StreamInv'
    BY <1>1, <2>1, NoParts DEF Request, StreamInv, Streaming
  <2>4. RowInv'
    BY <1>1, <2>1 DEF Request, RowInv, CallAccounted, Completing
  <2>5. AttemptInv'
    BY <1>1, <2>1 DEF Request, AttemptInv
  <2> QED BY <2>2, <2>3, <2>4, <2>5 DEF CallInv
<1> QED BY <1>2, <1>3, <1>4

LEMMA NextCall == CallInv /\ [ModelCallNext]_request => CallInv'
<1> SUFFICES ASSUME CallInv, [ModelCallNext]_request PROVE CallInv'
  OBVIOUS
<1>0. request \in Request /\ StreamInv /\ RowInv /\ AttemptInv
      /\ request.retries \in Nat /\ request.missing \in Nat
  BY DEF CallInv, Request
<1>1. CASE Cancel \/ TimeOut \/ Create \/ WaitEnds
  BY <1>1, Signals
<1>2. CASE Finish
  BY <1>2, StreamEnds DEF Finish, End
<1>3. CASE WaitAborted
  BY <1>3, StreamFails DEF WaitAborted, Streaming
<1>4. CASE Die
  <2>1. PICK left \in Rows : request' = [request EXCEPT !.at = "dead", !.row = left]
    BY <1>4, <1>0 DEF Die, Request, Rows
  <2>2. request' \in Request
    BY <1>0, <2>1 DEF Request, Places
  <2>3. StreamInv' /\ RowInv' /\ AttemptInv'
    BY <1>0, <2>1 DEF Request, StreamInv, RowInv, AttemptInv, CallAccounted, Completing, Streaming
  <2> QED BY <2>2, <2>3 DEF CallInv
<1>5. ASSUME request.at \in {"creating", "reading", "calling"}, request.shown = <<>>,
             request.retries < TransientLimit, request' = Again(request)
      PROVE  CallInv'
  <2>1. Again(request) = [request EXCEPT !.at = "waiting", !.retries = request.retries + 1]
    BY DEF Again
  <2>2. [Again(request) EXCEPT !.missing = @ + 0] = Again(request)
    <3>1. Again(request).missing + 0 = request.missing
      BY <1>0, <2>1 DEF Request
    <3>2. [Again(request) EXCEPT !.missing = request.missing] = Again(request)
      BY <1>0, <2>1 DEF Request
    <3> QED BY <3>1, <3>2
  <2>3. PICK more \in {0, 1} : more = 0
    OBVIOUS
  <2>4. request' = [Again(request) EXCEPT !.missing = @ + more]
    BY <1>5, <2>2, <2>3
  <2>5. more = 1 => request.missing < MissingLimit
    BY <2>3
  <2> QED BY <1>5, <2>3, <2>4, <2>5, Tries
<1>6. ASSUME NEW retryable \in BOOLEAN, CreateFails(retryable) PROVE CallInv'
  <2>1. request.kind = "stream" /\ request.at = "creating" /\ request.shown = <<>>
    BY <1>0, <1>6 DEF CreateFails, Streaming, StreamInv
  <2> QED BY <1>5, <1>6, <2>1, StreamFails DEF CreateFails
<1>7. ASSUME NEW retryable \in BOOLEAN, Break(retryable) PROVE CallInv'
  <2>1. Streaming("reading") /\ request.at = "reading"
    BY <1>7 DEF Break, Streaming
  <2>2. CASE MayRetry(retryable)
    <3>1. request.shown = <<>> /\ request.retries < TransientLimit
      BY <1>0, <2>1, <2>2 DEF MayRetry, StreamInv
    <3> QED BY <1>5, <1>7, <2>1, <2>2, <3>1 DEF Break
  <2>3. CASE ~MayRetry(retryable)
    BY <1>7, <2>1, <2>3, StreamEnds DEF Break, End
  <2> QED BY <2>2, <2>3
<1>8. ASSUME NEW recoverable \in BOOLEAN, FinishMissing(recoverable) PROVE CallInv'
  <2>1. Streaming("reading") /\ request.at = "reading"
    BY <1>8 DEF FinishMissing, Streaming
  <2>2. CASE recoverable
    BY <1>8, <2>1, <2>2, StreamEnds DEF FinishMissing, End
  <2>3. CASE ~recoverable /\ ~request.started /\ request.retries < MissingLimit
    <3>1. request.shown = <<>> /\ request.retries < TransientLimit
      BY <1>0, <2>1, <2>3, ModelCallAssumption DEF StreamInv
    <3> QED BY <1>5, <1>8, <2>1, <2>3, <3>1 DEF FinishMissing
  <2>4. CASE ~recoverable /\ ~(~request.started /\ request.retries < MissingLimit)
    BY <1>8, <2>1, <2>4, StreamEnds DEF FinishMissing, End
  <2> QED BY <2>2, <2>3, <2>4
<1>9. ASSUME NEW part \in Part, Receive(part) PROVE CallInv'
  BY <1>9, PartReceived
<1>10. ASSUME NEW refused \in BOOLEAN, Open(refused) PROVE CallInv'
  <2>1. /\ request.kind = "complete" /\ request.at = "opening" /\ request.row = "none"
        /\ \/ request' = [request EXCEPT !.at = "over", !.result = "thrown"]
           \/ request' = [request EXCEPT !.at = "calling", !.row = "started"]
    BY <1>0, <1>10 DEF Open, Completing, RowInv
  <2>2. request' \in Request
    BY <1>0, <2>1 DEF Request, Places, Rows
  <2>3. StreamInv' /\ RowInv' /\ AttemptInv'
    BY <1>0, <2>1 DEF Request, StreamInv, RowInv, AttemptInv, CallAccounted, Completing, Streaming
  <2> QED BY <2>2, <2>3 DEF CallInv
<1>11. ASSUME NEW refused \in BOOLEAN, Throw(refused) PROVE CallInv'
  BY <1>11, CallEnds DEF Throw
<1>12. ASSUME NEW refused \in BOOLEAN, NEW response \in {"answer", "error"},
              Completing("calling"), Conclude(response, refused)
       PROVE  CallInv'
  BY <1>12, CallEnds DEF Conclude
<1>13. ASSUME NEW refused \in BOOLEAN,
              NEW response \in {"answer", "recoverable", "missing", "transient", "fatal"},
              Respond(response, refused)
       PROVE  CallInv'
  <2>1. Completing("calling") /\ request.at = "calling" /\ request.shown = <<>>
    BY <1>0, <1>13 DEF Respond, Completing, StreamInv
  <2>2. CASE Conclude("answer", refused) \/ Conclude("error", refused)
    BY <2>1, <2>2, <1>12
  <2>3. CASE /\ request.missing < MissingLimit /\ request.retries < TransientLimit
             /\ request' = [Again(request) EXCEPT !.missing = @ + 1]
    BY <2>1, <2>3, Tries
  <2>4. CASE request.retries < TransientLimit /\ request' = Again(request)
    BY <2>1, <2>4, <1>5
  <2> QED BY <1>13, <2>2, <2>3, <2>4 DEF Respond
<1>14. CASE UNCHANGED request
  BY <1>14, <1>0 DEF CallInv, StreamInv, RowInv, AttemptInv, CallAccounted, Completing, Streaming
<1> QED BY <1>1, <1>2, <1>3, <1>4, <1>6, <1>7, <1>8, <1>9, <1>10, <1>11, <1>13, <1>14
        DEF ModelCallNext

(* What the agent sees of a stream is one attempt that ends once, the row   *)
(* of a call agrees with what its caller got, and the retries are limited   *)
(* (retryMissingFinishReasonStream, ModelCallService.complete).             *)
THEOREM OneAccountedAnswer == ModelCallSpec => [](ModelCallOK /\ OneAnswer /\ CallAccounted)
<1>1. CallInv => ModelCallOK /\ OneAnswer /\ CallAccounted
  <2> SUFFICES ASSUME CallInv PROVE ModelCallOK /\ OneAnswer /\ CallAccounted
    OBVIOUS
  <2>1. request \in Request /\ StreamInv /\ RowInv /\ AttemptInv
    BY DEF CallInv
  <2>2. ModelCallOK
    BY <2>1, ModelCallAssumption DEF Request, Places, Rows, AttemptInv, ModelCallOK
  <2>3. DOMAIN request.shown = 1..Len(request.shown)
    BY <2>1 DEF Request
  <2>4. OneAnswer
    BY <2>1, <2>3 DEF StreamInv, OneOf, Ended, OneAnswer
  <2> QED BY <2>1, <2>2, <2>4 DEF RowInv
<1> QED BY InitCall, NextCall, <1>1, PTL DEF ModelCallSpec
----------------------------------------------------------------------------
Status == {"queued", "preflight", "awaiting_input", "awaiting_confirmation", "running",
           "completed", "failed", "interrupted"}
Mode == Modes \cup {"agent", "plan"}
Decided ==
    /\ run \in [status : Status, mode : Mode, route : {"none", "direct", "plan", "clarify"},
                goal : Nat, plan : Nat, clarifications : Nat]
    /\ entry \in [mode : Mode, resumed : BOOLEAN]
    /\ asking \in [at : {"nothing", "classify", "contract"}, try : 0..2]
    /\ decided \in Nat

Before == run.status \in {"queued", "preflight"}
Undecided == run.route \in {"none", "clarify"}

(* A run that goes on without a decision was cut off while it was deciding; *)
(* models are only asked about a run that has none to go on with.           *)
RouteInv ==
    /\ run.status = "running" => ~Undecided
    /\ run.status = "awaiting_confirmation" => run.route = "plan"
    /\ run.status = "awaiting_input" => run.route = "clarify"
    /\ Undecided /\ (run.status = "interrupted" \/ (Before /\ entry.resumed)) =>
          "preflight" \in cut
    /\ asking # Nothing => run.status = "preflight" /\ ~Reused

(* A plan that goes on has been let go.                                     *)
AllowedInv ==
    run.route = "plan" /\ "preflight" \notin cut =>
        /\ run.status \in {"running", "interrupted"} => allowed
        /\ Before /\ entry.resumed => allowed

(* A run has a plan exactly as long as its route is one, and goes on with   *)
(* it; a run that was queued when the process ended may decide again.       *)
PlanInv ==
    /\ run.route = "plan" => run.plan # 0
    /\ run.plan # 0 /\ "queued" \notin cut =>
          /\ run.route = "plan" /\ run.plan = run.goal
          /\ Before => entry.resumed

PreflightInv == Decided /\ RouteInv /\ AllowedInv /\ PlanInv
----------------------------------------------------------------------------
LEMMA InitPreflight == PreflightInit => PreflightInv
BY DEF PreflightInit, PreflightInv, Decided, Status, Mode, RouteInv, AllowedInv, PlanInv, Nothing,
       Before, Undecided, Reused

(* A decision that was made now, or the one that the run goes on with.      *)
LEMMA RoutedKeeps ==
  ASSUME PreflightInv, run.status = "preflight", NEW route \in {"direct", "plan", "clarify"},
         NEW number \in Nat, decided' \in Nat, Routed(route, number),
         \/ ~Reused /\ number # 0 /\ (route = "plan" => entry.mode = "plan")
         \/ Reused /\ route = run.route /\ number = run.goal
  PROVE  PreflightInv'
<1> DEFINE plan == PlanOf(route, number)
           status == CASE route = "clarify" -> "awaiting_input"
                       [] NeedsConfirmation(route) -> "awaiting_confirmation"
                       [] OTHER -> "running"
<1>1. Decided /\ RouteInv /\ AllowedInv /\ PlanInv
  BY DEF PreflightInv
<1>2. plan \in Nat /\ status \in Status
  BY <1>1 DEF PlanOf, Decided, Status
<1>3. /\ run' = [run EXCEPT !.route = route, !.goal = number, !.plan = plan, !.status = status]
      /\ asking' = Nothing /\ UNCHANGED <<entry, cut>>
      /\ allowed' = (allowed \/ (auto /\ route = "plan"))
  BY DEF Routed
<1>4. /\ run'.route = route /\ run'.goal = number /\ run'.plan = plan /\ run'.status = status
      /\ run' \in [status : Status, mode : Mode, route : {"none", "direct", "plan", "clarify"},
                   goal : Nat, plan : Nat, clarifications : Nat]
  BY <1>1, <1>2, <1>3 DEF Decided
<1>5. Nothing \in [at : {"nothing", "classify", "contract"}, try : 0..2]
  BY DEF Nothing
<1>6. Decided'
  BY <1>1, <1>3, <1>4, <1>5 DEF Decided
<1>7. RouteInv'
  BY <1>1, <1>3, <1>4 DEF RouteInv, NeedsConfirmation, Undecided, Before
<1>8. AllowedInv'
  BY <1>1, <1>3, <1>4 DEF AllowedInv, RouteInv, NeedsConfirmation, Undecided, Before, Reused, Decided
<1>9. PlanInv'
  BY <1>1, <1>3, <1>4 DEF PlanInv, PlanOf, NeedsConfirmation, Before, Reused, Decided
<1> QED BY <1>6, <1>7, <1>8, <1>9 DEF PreflightInv

LEMMA AsksKeeps ==
  ASSUME PreflightInv, run.status = "preflight", ~Reused,
         NEW what \in {"classify", "contract"}, NEW attempt \in 1..2, Asks(what, attempt)
  PROVE  PreflightInv'
BY DEF PreflightInv, Asks, Decided, RouteInv, AllowedInv, PlanInv, Before, Undecided, Reused

(* The user answers, confirms or resumes, the policy confirms.              *)
LEMMA UserKeeps ==
  ASSUME PreflightInv,
         (\E mode \in {"agent", "plan"} : Clarify(mode)) \/ ConfirmPlan \/ Switch \/ Resume
  PROVE  PreflightInv'
<1>1. Decided /\ RouteInv /\ AllowedInv /\ PlanInv
  BY DEF PreflightInv
<1>2. CASE UNCHANGED <<run, entry, asking, allowed, cut, decided>>
  BY <1>1, <1>2 DEF PreflightInv, Decided, RouteInv, AllowedInv, PlanInv, Before, Undecided, Reused
<1>3. CASE \E mode \in {"agent", "plan"} : Clarify(mode)
  <2>1. PICK mode \in {"agent", "plan"} : Clarify(mode)
    BY <1>3
  <2>2. /\ run.status = "awaiting_input" /\ run.clarifications + 1 \in Nat
        /\ run' = [run EXCEPT !.status = "queued", !.clarifications = run.clarifications + 1]
        /\ entry' = [mode |-> mode, resumed |-> FALSE]
        /\ UNCHANGED <<asking, decided, allowed, cut>>
    BY <2>1, <1>1 DEF Clarify, Decided
  <2>3. Decided'
    BY <1>1, <2>2 DEF Decided, Status, Mode
  <2>4. RouteInv' /\ AllowedInv' /\ PlanInv'
    BY <1>1, <2>2 DEF Decided, RouteInv, AllowedInv, PlanInv, Before, Undecided, Reused
  <2> QED BY <2>3, <2>4 DEF PreflightInv
<1>4. CASE /\ run.status = "awaiting_confirmation"
           /\ run' = [run EXCEPT !.status = Confirmed(@)]
           /\ entry' = [mode |-> "plan", resumed |-> TRUE]
           /\ allowed' = TRUE /\ UNCHANGED <<asking, decided, cut>>
  <2>1. run' = [run EXCEPT !.status = "queued"]
    BY <1>1, <1>4 DEF Confirmed, Decided
  <2>2. Decided'
    BY <1>1, <1>4, <2>1 DEF Decided, Status, Mode
  <2>3. RouteInv' /\ AllowedInv' /\ PlanInv'
    BY <1>1, <1>4, <2>1 DEF Decided, RouteInv, AllowedInv, PlanInv, Before, Undecided, Reused
  <2> QED BY <2>2, <2>3 DEF PreflightInv
<1>5. CASE Resume
  <2>1. /\ run.status = "interrupted" /\ run' = [run EXCEPT !.status = "queued"]
        /\ entry' = [mode |-> run.mode, resumed |-> TRUE]
        /\ UNCHANGED <<asking, decided, allowed, cut>>
    BY <1>5 DEF Resume
  <2>2. Decided'
    BY <1>1, <2>1 DEF Decided, Status
  <2>3. RouteInv' /\ AllowedInv' /\ PlanInv'
    BY <1>1, <2>1 DEF Decided, RouteInv, AllowedInv, PlanInv, Before, Undecided, Reused
  <2> QED BY <2>2, <2>3 DEF PreflightInv
<1>6. CASE ConfirmPlan
  BY <1>4, <1>6 DEF ConfirmPlan
<1>7. CASE Switch
  BY <1>2, <1>4, <1>7 DEF Switch
<1> QED BY <1>3, <1>5, <1>6, <1>7

LEMMA CrashKeeps == ASSUME PreflightInv, Crash PROVE PreflightInv'
<1>1. Decided /\ RouteInv /\ AllowedInv /\ PlanInv
  BY DEF PreflightInv
<1>2. PICK status \in {"queued", "interrupted"} :
        /\ run' = [run EXCEPT !.status = status]
        /\ status = "queued" <=> run.status = "queued"
  BY <1>1 DEF Crash, Decided
<1>3. /\ run.status \in {"queued", "preflight", "running"}
      /\ cut \subseteq cut'
      /\ run.status = "queued" /\ run.route # "none" => "queued" \in cut'
      /\ run.status = "preflight" => "preflight" \in cut'
      /\ entry' = [mode |-> run.mode, resumed |-> FALSE] /\ asking' = Nothing
      /\ UNCHANGED <<decided, allowed>>
  BY DEF Crash
<1>4. Decided'
  BY <1>1, <1>2, <1>3 DEF Decided, Status, Nothing
<1>5. /\ run'.status = status /\ run'.route = run.route /\ run'.plan = run.plan
      /\ run'.goal = run.goal
  BY <1>1, <1>2 DEF Decided
<1>6. RouteInv'
  BY <1>1, <1>2, <1>3, <1>5 DEF RouteInv, Before, Undecided
<1>7. AllowedInv'
  BY <1>1, <1>2, <1>3, <1>5 DEF AllowedInv, Before
<1>8. PlanInv'
  BY <1>1, <1>2, <1>3, <1>5 DEF PlanInv, Before
<1> QED BY <1>4, <1>6, <1>7, <1>8 DEF PreflightInv

LEMMA NextPreflight == PreflightInv /\ [PreflightNext]_preflightVars => PreflightInv'
<1> SUFFICES ASSUME PreflightInv, [PreflightNext]_preflightVars PROVE PreflightInv'
  OBVIOUS
<1>1. Decided /\ RouteInv /\ AllowedInv /\ PlanInv
  BY DEF PreflightInv
<1>2. asking.at # "nothing" => run.status = "preflight" /\ ~Reused
  BY <1>1 DEF RouteInv, Nothing
<1>3. ASSUME run.status = "preflight", ~Reused, NEW route \in {"direct", "plan", "clarify"},
             route = "plan" => entry.mode = "plan", Decides(route)
      PROVE  PreflightInv'
  <2>1. decided + 1 \in Nat /\ decided + 1 # 0
    BY <1>1 DEF Decided
  <2> QED BY <1>3, <2>1, RoutedKeeps DEF Decides
<1>4. CASE Execute
  <2>1. run.status = "queued" /\ run' = [run EXCEPT !.status = "preflight"]
        /\ UNCHANGED <<entry, asking, decided, allowed, cut>>
    BY <1>4 DEF Execute
  <2>2. Decided'
    BY <1>1, <2>1 DEF Decided, Status
  <2>3. RouteInv' /\ AllowedInv' /\ PlanInv'
    BY <1>1, <2>1 DEF Decided, RouteInv, AllowedInv, PlanInv, Before, Undecided, Reused
  <2> QED BY <2>2, <2>3 DEF PreflightInv
<1>5. CASE GoOn
  <2>1. run.route \in {"direct", "plan", "clarify"} /\ run.goal \in Nat /\ decided' \in Nat
    BY <1>1, <1>5 DEF GoOn, Decided, Reused
  <2> QED BY <1>5, <2>1, RoutedKeeps DEF GoOn
<1>6. CASE Decide
  BY <1>6, AsksKeeps DEF Decide
<1>7. CASE DecideForChannel
  BY <1>7, <1>3 DEF DecideForChannel
<1>8. ASSUME NEW simple \in BOOLEAN, Classified(simple) PROVE PreflightInv'
  BY <1>8, <1>2, <1>3, AsksKeeps DEF Classified
<1>9. CASE ClassificationInvalid
  BY <1>9, <1>2, AsksKeeps DEF ClassificationInvalid
<1>10. CASE ContractInvalid
  BY <1>10, <1>2, AsksKeeps DEF ContractInvalid
<1>11. ASSUME NEW questions \in BOOLEAN, Contract(questions) PROVE PreflightInv'
  BY <1>11, <1>2, <1>3 DEF Contract, RouteOf
<1>12. CASE Fails \/ Complete
  <2>1. PICK status \in {"failed", "completed"} :
          /\ run' = [run EXCEPT !.status = status] /\ asking' = Nothing
          /\ UNCHANGED <<entry, decided, allowed, cut>>
    BY <1>1, <1>12 DEF Fails, Complete, RouteInv
  <2>2. Decided'
    BY <1>1, <2>1 DEF Decided, Status, Nothing
  <2>3. RouteInv' /\ AllowedInv' /\ PlanInv'
    BY <1>1, <2>1 DEF Decided, RouteInv, AllowedInv, PlanInv, Before, Undecided, Reused
  <2> QED BY <2>2, <2>3 DEF PreflightInv
<1>13. CASE Crash
  BY <1>13, CrashKeeps
<1>14. CASE UNCHANGED preflightVars
  BY <1>1, <1>14 DEF preflightVars, PreflightInv, Decided, RouteInv, AllowedInv, PlanInv, Before,
                     Undecided, Reused
<1> QED BY <1>4, <1>5, <1>6, <1>7, <1>8, <1>9, <1>10, <1>11, <1>12, <1>13, <1>14, UserKeeps
        DEF PreflightNext

(* A run works on no plan that nobody let go, and on none that was made for *)
(* another goal, whatever was asked, answered, switched and restarted; a    *)
(* run that a crash cut off while it decided, or while it was queued, is    *)
(* excepted (run-preflight.ts, executeRun, confirmPlan and resumeRun).      *)
THEOREM PlanIsAllowedAndItsOwn == PreflightSpec => [](PreflightOK /\ PlanAllowed /\ PlanOfGoal)
<1>1. PreflightInv => PreflightOK /\ PlanAllowed /\ PlanOfGoal
  BY DEF PreflightInv, PreflightOK, PlanAllowed, PlanOfGoal, Decided, Status, RouteInv, AllowedInv,
         PlanInv
<1> QED BY InitPreflight, NextPreflight, <1>1, PTL DEF PreflightSpec
=============================================================================
