---------------------------- MODULE HistoryPaging ----------------------------
(***************************************************************************)
(* The transcript that a client shows: the newest page of the active path  *)
(* with the snapshot, older pages on demand, new messages as they come,    *)
(* and the copy that is kept for the next visit.  listHistory of           *)
(* database.ts and message-repository.ts; mergeSessionSnapshot and         *)
(* mergeSessionHistoryPage of streaming.ts, used by App.tsx and cache.ts;  *)
(* their equals in SnapshotProjection.kt and MainActivity.kt.              *)
(*                                                                         *)
(* A message is the sequence number of the event that made it.  A page is  *)
(* cut by messages, and the question of a reply that the cut divides is    *)
(* added to it; the edge of the page stays where it was cut.               *)
(***************************************************************************)
EXTENDS Naturals, FiniteSets, FiniteSetsExt

CONSTANTS PageLength,                         \* messages of a page, 100 in the code
          TurnLength,                         \* messages from a question to the next
          MaxSequence, MaxRevision, MaxVisits \* bounds

VARIABLES
    server,  \* the active path, its questions, its revision, the event sequence
    shown,   \* the client's projection of the session
    kept,    \* the cached snapshot
    older,   \* the older page that was asked for, with the answer
    reading, \* the snapshot that was asked for, with the answer
    jumped,  \* a window was joined to one that ends before it begins
    visit    \* visits so far

pagingVars == <<server, shown, kept, older, reading, jumped, visit>>

NoWindow == [items |-> {}, cursor |-> 0, more |-> FALSE, revision |-> 0, sequence |-> 0]
Outstanding == [NoWindow EXCEPT !.more = TRUE]
NoPage == [before |-> 0, revision |-> 0, answer |-> NoWindow]

PagingInit ==
    /\ server = [path |-> {1}, asked |-> {1}, revision |-> 1, sequence |-> 1]
    /\ shown = NoWindow /\ kept = NoWindow
    /\ older = NoPage /\ reading = NoWindow
    /\ jumped = FALSE
    /\ visit = 1

Newest(messages) == {m \in messages : Cardinality({n \in messages : n > m}) < PageLength}
QuestionOf(m) == Max({q \in server.asked : q <= m})
WithQuestions(messages) == messages \cup {QuestionOf(m) : m \in messages}
Edge(messages) == IF messages = {} THEN 0 ELSE Min(messages)

FaultyPage(before) ==
    LET earlier == {m \in server.path : m < before}
        items == Newest(earlier)
    IN [items |-> WithQuestions(items), cursor |-> Edge(WithQuestions(items)),
        more |-> items # earlier,
        revision |-> server.revision, sequence |-> server.sequence]

(* listHistory: the page before a message, its questions and its edge.     *)
Page(before) ==
    LET earlier == {m \in server.path : m < before}
        items == Newest(earlier)
    IN [items |-> WithQuestions(items), cursor |-> Edge(items), more |-> items # earlier,
        revision |-> server.revision, sequence |-> server.sequence]

(* mergeSessionSnapshot: an older snapshot is dropped, another branch      *)
(* replaces what is shown, and older pages that were loaded stay.          *)
MergeWindows(current, incoming) ==
    IF incoming.sequence < current.sequence THEN current
    ELSE IF current.revision # incoming.revision THEN incoming
    ELSE LET older_edge == current.cursor \in 1..incoming.cursor IN
         [incoming EXCEPT !.items = @ \cup current.items,
                          !.cursor = IF older_edge THEN current.cursor ELSE @,
                          !.more = IF older_edge THEN current.more ELSE @]

(* The window that comes begins after the one that is shown has ended.     *)
Apart(current, incoming) ==
    /\ current.revision = incoming.revision /\ current.sequence < incoming.sequence
    /\ \E m \in server.path : m > Max(current.items) /\ m < incoming.cursor

(****************************** The session ********************************)
(* A message is added to the active path; a client that has followed every *)
(* event so far gets it at once.                                           *)
NewMessage(follows) ==
    LET m == server.sequence + 1 IN
    /\ m <= MaxSequence
    /\ follows => shown.revision = server.revision /\ shown.sequence = server.sequence
    /\ server' = [server EXCEPT
           !.path = @ \cup {m}, !.sequence = m,
           !.asked = IF Cardinality({n \in server.path : n >= Max(@)}) >= TurnLength
                     THEN @ \cup {m} ELSE @]
    /\ shown' = IF follows THEN [shown EXCEPT !.items = @ \cup {m}, !.sequence = m] ELSE shown
    /\ UNCHANGED <<kept, older, reading, jumped, visit>>

(* editMessage: a question is asked again on a new branch.                 *)
EditQuestion(q) ==
    LET m == server.sequence + 1
        before == {n \in server.path : n < q}
    IN /\ q \in server.asked /\ server.revision < MaxRevision /\ m <= MaxSequence
       /\ server' = [path |-> before \cup {m}, asked |-> (server.asked \cap before) \cup {m},
                     revision |-> server.revision + 1, sequence |-> m]
       /\ UNCHANGED <<shown, kept, older, reading, jumped, visit>>

(* The events that the client has missed on the same branch are replayed.  *)
Replay ==
    /\ shown.revision = server.revision /\ shown.sequence < server.sequence
    /\ shown' = [shown EXCEPT !.items = @ \cup {m \in server.path : m > shown.sequence},
                              !.sequence = server.sequence]
    /\ UNCHANGED <<server, kept, older, reading, jumped, visit>>

(******************************* The client ********************************)
AskSnapshot ==
    /\ reading = NoWindow
    /\ reading' = Outstanding
    /\ UNCHANGED <<server, shown, kept, older, jumped, visit>>

AnswerSnapshot ==
    /\ reading = Outstanding
    /\ reading' = Page(server.sequence + 1)
    /\ UNCHANGED <<server, shown, kept, older, jumped, visit>>

(* The answer is merged with what is shown, or with the copy of an earlier *)
(* visit, and kept.                                                        *)
SnapshotRead ==
    LET current == IF shown = NoWindow THEN kept ELSE shown IN
    /\ reading \notin {NoWindow, Outstanding}
    /\ shown' = MergeWindows(current, reading)
    /\ kept' = IF kept.sequence <= shown'.sequence THEN shown' ELSE kept
    /\ jumped' = (IF current.revision = reading.revision
                  THEN jumped \/ (current # NoWindow /\ Apart(current, reading))
                  ELSE jumped /\ shown' = current)
    /\ reading' = NoWindow
    /\ UNCHANGED <<server, older, visit>>

(* The request fails: the copy is shown.                                   *)
SnapshotFails ==
    /\ reading = Outstanding
    /\ reading' = NoWindow
    /\ shown' = IF shown = NoWindow THEN kept ELSE MergeWindows(shown, kept)
    /\ UNCHANGED <<server, kept, older, jumped, visit>>

AskOlder ==
    /\ older = NoPage /\ shown.more
    /\ older' = [before |-> shown.cursor, revision |-> shown.revision, answer |-> Outstanding]
    /\ UNCHANGED <<server, shown, kept, reading, jumped, visit>>

AnswerOlder ==
    /\ older.answer = Outstanding
    /\ older' = [older EXCEPT !.answer = Page(older.before)]
    /\ UNCHANGED <<server, shown, kept, reading, jumped, visit>>

(* The page belongs to what is shown: the branch and the edge it was asked *)
(* for, and the branch it was read from.                                   *)
Matches ==
    /\ older.revision = shown.revision /\ older.answer.revision = shown.revision
    /\ older.before = shown.cursor

(* mergeSessionHistoryPage, and the merged window is kept.                 *)
OlderRead ==
    /\ older.answer \notin {NoWindow, Outstanding}
    /\ older' = NoPage
    /\ shown' = IF Matches
                THEN [shown EXCEPT !.items = @ \cup older.answer.items,
                                   !.cursor = older.answer.cursor, !.more = older.answer.more]
                ELSE shown
    /\ kept' = IF Matches /\ kept.sequence <= shown.sequence THEN shown' ELSE kept
    /\ UNCHANGED <<server, reading, jumped, visit>>

(* The page is loaded again, or another session is selected.               *)
Leave ==
    /\ visit < MaxVisits
    /\ visit' = visit + 1
    /\ shown' = NoWindow /\ older' = NoPage /\ reading' = NoWindow
    /\ UNCHANGED <<server, kept, jumped>>

PagingNext ==
    \/ \E follows \in BOOLEAN : NewMessage(follows)
    \/ \E q \in 1..MaxSequence : EditQuestion(q)
    \/ Replay \/ AskSnapshot \/ AnswerSnapshot \/ SnapshotRead \/ SnapshotFails
    \/ AskOlder \/ AnswerOlder \/ OlderRead \/ Leave

PagingSpec == PagingInit /\ [][PagingNext]_pagingVars

(******************************* Properties ********************************)
TypeOKPaging ==
    /\ server.path \in SUBSET (1..MaxSequence) /\ server.asked \subseteq server.path
    /\ \A w \in {shown, kept} : w.items \in SUBSET (1..MaxSequence)
    /\ visit \in 1..MaxVisits /\ jumped \in BOOLEAN

(* What a window of the current branch should hold: from its edge to the   *)
(* event it has reached, every message of the active path.                 *)
Reach(w) == {m \in server.path : m >= w.cursor /\ m <= w.sequence}
Whole(w) == w.revision = server.revision =>
                /\ Reach(w) \subseteq w.items /\ w.items \subseteq server.path
                /\ ~w.more => {m \in server.path : m <= w.sequence} \subseteq w.items

(* A reader who pages back through a session reads every message of the    *)
(* active branch, and none of another branch: between the edge of the      *)
(* window and the newest message that is shown there is no gap, and when   *)
(* no older page is offered nothing older exists.  mergeSessionHistoryPage *)
(* and the edge that listHistory keeps apart from the added questions.     *)
(* The one exception is in NothingSkipped.                                 *)
ReadsOn == ~jumped => Whole(shown)

(* docs/android-design.zh-CN.md:40 says that the cursor never jumps over   *)
(* messages that were not read.                                            *)
NothingSkipped == Whole(shown)
=============================================================================
