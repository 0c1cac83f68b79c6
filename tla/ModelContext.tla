----------------------------- MODULE ModelContext -----------------------------
(***************************************************************************)
(* The context of a session's messages for the model                       *)
(* (packages/core/src/context-manager.ts, putContextSummary of             *)
(* database.ts): what is older than a boundary is replaced by a summary,   *)
(* which other calls of the model produce, batch by batch.  A run and a    *)
(* user may compact the same session at once; an edit may leave the path   *)
(* of the conversation meanwhile.  Sizes are abstracted: any cut and any   *)
(* batch that the code may choose by tokens is possible.                   *)
(***************************************************************************)
EXTENDS Naturals, Sequences, FiniteSets, SequencesExt, FiniteSetsExt

CONSTANTS Compactions,  \* compactions that can be under way at once
          Turns,        \* the sets of tool calls that an assistant message can make
          MinPending,   \* fewer messages are not compacted: 6 in compact
          MaxEntries, MaxForks   \* bounds of the model

VARIABLES
    log,      \* all messages of the session: log[n] has the sequence number n
    path,     \* the numbers of those on the active branch
    branch,   \* the active branch
    summary,  \* the row of context_summaries, with the messages that went into it
    jobs      \* compaction -> what it does

compactionVars == <<log, path, branch, summary, jobs>>

UserText == [kind |-> "user", calls |-> {}]
Entries == {UserText} \cup [kind : {"assistant"}, calls : Turns]
                      \cup [kind : {"result"}, calls : {{c} : c \in UNION Turns}]

NoSummary(b) == [branch |-> b, through |-> 0, covers |-> {}]
Idle == [at |-> "idle"]

CompactionInit ==
    /\ log = <<>>
    /\ path = {}
    /\ branch = 1
    /\ summary = NoSummary(1)
    /\ jobs = [j \in Compactions |-> Idle]
----------------------------------------------------------------------------
(* getContextSummary: only of the active branch. *)
CurrentSummary == IF summary.branch = branch THEN summary ELSE NoSummary(branch)

(* Messages are sequences of [n, kind, calls]. *)
Messages(numbers) ==
    LET sorted == SetToSortSeq(numbers, <)
    IN  [i \in DOMAIN sorted |->
            [n |-> sorted[i], kind |-> log[sorted[i]].kind, calls |-> log[sorted[i]].calls]]

(* Bug: tool results stay as they are. *)
FaultyPreserveOrphans(messages) == messages

(* preserveOrphanToolResults: a result becomes the text of a user unless   *)
(* its call is open, that is made by the last assistant message, with no   *)
(* user and no other result for it in between.                             *)
PreserveOrphans(messages) ==
    LET Step(acc, m) ==
          CASE m.kind = "assistant" -> [open |-> m.calls, out |-> Append(acc.out, m)]
            [] m.kind = "user" -> [open |-> {}, out |-> Append(acc.out, m)]
            [] m.kind = "result" ->
                 IF m.calls \subseteq acc.open
                 THEN [open |-> acc.open \ m.calls, out |-> Append(acc.out, m)]
                 ELSE [acc EXCEPT !.out = Append(@, [m EXCEPT !.kind = "user", !.calls = {}])]
    IN  FoldLeft(Step, [open |-> {}, out |-> <<>>], messages).out

(* safeCompactionBoundary: the cut is moved behind the results of the      *)
(* calls before it.                                                        *)
ResultOf(messages, c, i) ==
    {q \in DOMAIN messages :
        /\ messages[q].kind = "result" /\ messages[q].calls = {c} /\ q > i
        /\ \A p \in 1..(q - 1) : ~(messages[p].kind = "result" /\ messages[p].calls = {c})}
SafeBoundary(messages, desired) ==
    LET Safe(b) == \A i \in 1..b : messages[i].kind = "assistant" =>
                       \A c \in messages[i].calls : \A q \in ResultOf(messages, c, i) : q <= b
    IN  Min({b \in desired..Len(messages) : Safe(b)})

(* compactionUnitEnd: a message with calls and the results that follow it, *)
(* up to the last one.                                                     *)
UnitEnd(messages, i) ==
    Max({e \in i..Len(messages) :
            \A k \in (i + 1)..e :
                /\ messages[k].kind = "result"
                /\ \E c \in messages[i].calls : \A p \in (i + 1)..(k - 1) : messages[p].calls # {c}})

(* compactionBatches: where a batch may end. *)
BatchEnds(messages) == {b \in DOMAIN messages : \A i \in 1..b : UnitEnd(messages, i) <= b}

(* What compact returns: the summary, and the messages after it. *)
Returned(j, base, numbers) ==
    jobs' = [jobs EXCEPT ![j] =
               [at |-> "done", through |-> base.through, covers |-> base.covers,
                asked |-> numbers, messages |-> PreserveOrphans(Messages({n \in numbers : n > base.through}))]]
----------------------------------------------------------------------------
(* A message is added: a tool gives one result for a call of the last      *)
(* assistant message.  A user may write in between.                        *)
Write(entry) ==
    /\ Len(log) < MaxEntries
    /\ entry.kind = "result" =>
         \E n \in path :
            /\ log[n].kind = "assistant" /\ entry.calls \subseteq log[n].calls
            /\ \A later \in {p \in path : p > n} : log[later].kind # "assistant" /\ log[later] # entry
    /\ log' = Append(log, entry)
    /\ path' = path \cup {Len(log) + 1}
    /\ UNCHANGED <<branch, summary, jobs>>

(* editMessage: a new branch, without message n and what follows it. *)
Fork(n) ==
    /\ branch <= MaxForks /\ Len(log) < MaxEntries
    /\ n \in path /\ log[n] = UserText
    /\ branch' = branch + 1
    /\ log' = Append(log, UserText)
    /\ path' = {p \in path : p < n} \cup {Len(log) + 1}
    /\ UNCHANGED <<summary, jobs>>

(* compact, up to the first call of the model. *)
StartCompaction(j, desired) ==
    /\ jobs[j].at = "idle"
    /\ LET base == CurrentSummary
           pending == PreserveOrphans(Messages({n \in path : n > base.through}))
           cut == SafeBoundary(pending, desired)
       IN  IF Len(pending) < MinPending \/ cut = 0
           THEN Returned(j, base, path)
           ELSE jobs' = [jobs EXCEPT ![j] =
                  [at |-> "working", branch |-> branch, base |-> base, numbers |-> path,
                   old |-> SubSeq(pending, 1, cut), done |-> 0]]
    /\ UNCHANGED <<log, path, branch, summary>>

(* Bug: the summary goes to whatever branch is active. *)
FaultyKeeps(j) == TRUE

(* putContextSummary throws when the branch changed ... *)
Keeps(j) == jobs[j].branch = branch

(* ... and keeps the newest boundary. *)
Newest(new) ==
    IF summary.branch # new.branch \/ new.through > summary.through THEN new ELSE summary

(* The end of compact, when the first done messages are summarized. *)
Persist(j, done) ==
    LET job == jobs[j]
        through == job.old[done].n
        new == [branch |-> branch, through |-> through,
                covers |-> job.base.covers \cup {job.old[i].n : i \in 1..done}]
    IN  IF Keeps(j)
        THEN summary' = Newest(new) /\ Returned(j, Newest(new), job.numbers)
        ELSE summary' = summary /\ jobs' = [jobs EXCEPT ![j] = Idle]

(* The model summarizes one more batch, ... *)
SummarizeBatch(j, end) ==
    /\ jobs[j].at = "working"
    /\ end \in BatchEnds(jobs[j].old) /\ end > jobs[j].done
    /\ IF end < Len(jobs[j].old)
       THEN summary' = summary /\ jobs' = [jobs EXCEPT ![j].done = end]
       ELSE Persist(j, end)
    /\ UNCHANGED <<log, path, branch>>

(* ... fails to, ... *)
BatchFails(j) ==
    /\ jobs[j].at = "working"
    /\ IF jobs[j].done = 0
       THEN summary' = summary /\ Returned(j, jobs[j].base, jobs[j].numbers)
       ELSE Persist(j, jobs[j].done)
    /\ UNCHANGED <<log, path, branch>>

(* ... or the signal is aborted. *)
AbortCompaction(j) ==
    /\ jobs[j].at = "working"
    /\ jobs' = [jobs EXCEPT ![j] = Idle]
    /\ UNCHANGED <<log, path, branch, summary>>

CompactionNext ==
    \/ \E entry \in Entries : Write(entry)
    \/ \E n \in 1..MaxEntries : Fork(n)
    \/ \E j \in Compactions :
          \/ BatchFails(j) \/ AbortCompaction(j)
          \/ \E desired \in 0..MaxEntries :
                desired < Cardinality({n \in path : n > CurrentSummary.through}) /\ StartCompaction(j, desired)
          \/ \E end \in 1..MaxEntries : SummarizeBatch(j, end)

CompactionSpec == CompactionInit /\ [][CompactionNext]_compactionVars
----------------------------------------------------------------------------
CompactionOK ==
    /\ ToSet(log) \subseteq Entries /\ path \subseteq DOMAIN log
    /\ summary.covers \subseteq 1..summary.through /\ summary.through <= Len(log)
    /\ \A j \in Compactions : jobs[j].at \in {"idle", "working", "done"}

(* The summary that the active branch uses has nothing from messages that  *)
(* an edit took off the path, and leaves none of the path's out, although  *)
(* compactions and edits overlap.                                          *)
SummaryOfPath == CurrentSummary.covers = {n \in path : n <= CurrentSummary.through}

(* Whatever compact returns, although batches fail and another compaction  *)
(* may have moved the boundary: each message that was asked for is in the  *)
(* summary or in the list, and each tool result in the list has its call,  *)
(* with no other message than results in between.                          *)
ContextComplete ==
    \A j \in Compactions : jobs[j].at = "done" =>
        LET list == jobs[j].messages
        IN  /\ jobs[j].asked \subseteq jobs[j].covers \cup {list[i].n : i \in DOMAIN list}
            /\ \A i \in DOMAIN list : list[i].kind = "result" =>
                 \E k \in 1..(i - 1) :
                    /\ list[k].kind = "assistant" /\ list[i].calls \subseteq list[k].calls
                    /\ \A between \in (k + 1)..(i - 1) :
                         list[between].kind = "result" /\ list[between].calls # list[i].calls
----------------------------------------------------------------------------
(***************************************************************************)
(* The durable facts and the rollups that runs leave behind: the facts     *)
(* that the model extracts when a run ends, the ones that a user or a tool *)
(* states, their review and deletion, and the summaries of turns, day and  *)
(* session.  extractMemories, persistTurnRollup and the memory operations  *)
(* of runtime.ts, memory_facts and memory_rollups of database.ts.          *)
(*                                                                         *)
(* One owner and one key: the facts differ in scope, session and value.    *)
(***************************************************************************)
CONSTANTS Chatters,          \* sessions of the owner
          Values,            \* what the key can be said to be
          MaxFacts, MaxTurns, MaxReviews \* bounds

VARIABLES
    facts,   \* memory_facts in the order of insertion
    turn,    \* per session, the end of the run that executes
    spoken,  \* messages that have been written
    rollups  \* per session: turns with a rollup, the range of the aggregate

memoryVars == <<facts, turn, spoken, rollups>>

NoTurn == [stage |-> "idle", value |-> 0, from |-> 0]

MemoryInit ==
    /\ facts = <<>>
    /\ turn = [s \in Chatters |-> NoTurn]
    /\ spoken = 0
    /\ rollups = [s \in Chatters |-> [turns |-> {}, first |-> 0, last |-> 0, gone |-> FALSE]]

Fact(s, scope, v, status) ==
    [session |-> s, scope |-> scope, value |-> v, status |-> status, supersedes |-> 0,
     reviewed |-> FALSE]
Here(s, scope) == {i \in DOMAIN facts : facts[i].session = s /\ facts[i].scope = scope}
Actives(s, scope) == {i \in Here(s, scope) : facts[i].status = "active"}
Duplicates(s, scope, v) ==
    {i \in Here(s, scope) : facts[i].value = v /\ facts[i].status \in {"active", "candidate"}}

FaultyStored(s, scope, v, status) ==
    IF Duplicates(s, scope, v) # {} THEN facts ELSE Append(facts, Fact(s, scope, v, status))

(* addMemoryFact: a fact that is known is kept as it is; a new value that  *)
(* is certain replaces the active one of the same session.                 *)
Stored(s, scope, v, status) ==
    LET previous == IF status = "active" THEN Actives(s, scope) ELSE {}
        newest == CHOOSE i \in previous : \A j \in previous : j <= i
        old == IF previous = {} THEN 0 ELSE newest
        known == [i \in DOMAIN facts |->
                     IF i = old THEN [facts[i] EXCEPT !.status = "superseded"] ELSE facts[i]]
    IN IF Duplicates(s, scope, v) # {} THEN facts
       ELSE Append(known, [Fact(s, scope, v, status) EXCEPT !.supersedes = old])

(* createMemoryFact, over HTTP or by the tool memory_write.                *)
Remember(s, scope, v) ==
    /\ ~rollups[s].gone /\ Len(facts) < MaxFacts
    /\ facts' = Stored(s, scope, v, "active")
    /\ UNCHANGED <<turn, spoken, rollups>>

(* turnRollup and rollupContext: the messages of the turn, and from the    *)
(* first to the last one of the session.                                   *)
RolledUp(s) ==
    [rollups[s] EXCEPT !.turns = @ \cup {<<spoken + 1, spoken + 2>>},
                       !.first = IF @ = 0 THEN spoken + 1 ELSE @, !.last = spoken + 2]

(* A run has its answer: its rollups are written in one transaction.       *)
RunAnswers(s, v) ==
    /\ ~rollups[s].gone /\ turn[s] = NoTurn /\ spoken + 2 <= 2 * MaxTurns
    /\ spoken' = spoken + 2
    /\ turn' = [turn EXCEPT ![s] = [stage |-> "extract", value |-> v, from |-> spoken + 1]]
    /\ rollups' = [rollups EXCEPT ![s] = RolledUp(s)]
    /\ UNCHANGED facts

(* The first answer of the model is not an array of facts: it is asked     *)
(* once more, and a second failure ends the run.                           *)
ExtractionInvalid(s) ==
    /\ turn[s].stage \in {"extract", "repair"}
    /\ turn' = [turn EXCEPT ![s] = IF @.stage = "extract" THEN [@ EXCEPT !.stage = "repair"]
                                   ELSE NoTurn]
    /\ UNCHANGED <<facts, spoken, rollups>>

(* Facts are stored as candidates unless the model is nearly sure; those   *)
(* that look like a secret are dropped.  A session that was deleted in the *)
(* meantime refuses them.                                                  *)
ExtractionEnds(s, scope, status) ==
    /\ turn[s].stage \in {"extract", "repair"} /\ Len(facts) < MaxFacts
    /\ facts' = IF rollups[s].gone THEN facts ELSE Stored(s, scope, turn[s].value, status)
    /\ turn' = [turn EXCEPT ![s] = NoTurn]
    /\ UNCHANGED <<spoken, rollups>>

(* The call fails or is aborted, or nothing was found: no fact is stored.  *)
ExtractionFails(s) ==
    /\ turn[s].stage \in {"extract", "repair"}
    /\ turn' = [turn EXCEPT ![s] = NoTurn]
    /\ UNCHANGED <<facts, spoken, rollups>>

Touched == {i \in DOMAIN facts : facts[i].reviewed \/ facts[i].status = "deleted"}

(* reviewMemoryFact: the user sets the status.                             *)
Review(i, status) ==
    /\ facts[i].status # status /\ Cardinality(Touched) < MaxReviews
    /\ ~rollups[facts[i].session].gone
    /\ facts' = [facts EXCEPT ![i].status = status, ![i].reviewed = TRUE]
    /\ UNCHANGED <<turn, spoken, rollups>>

(* deleteMemoryFact, and the facts that are deleted with their session,    *)
(* the global ones too.  The chain of values loses a link.                 *)
DeletedFacts(dead) ==
    [i \in DOMAIN facts |->
        IF i \in dead THEN [facts[i] EXCEPT !.status = "deleted", !.value = 0]
        ELSE IF facts[i].supersedes \in dead THEN [facts[i] EXCEPT !.supersedes = 0]
        ELSE facts[i]]

DeleteFact(i) ==
    /\ facts[i].status # "deleted" /\ Cardinality(Touched) < MaxReviews
    /\ facts' = DeletedFacts({i})
    /\ UNCHANGED <<turn, spoken, rollups>>

DeleteChat(s) ==
    /\ ~rollups[s].gone
    /\ facts' = DeletedFacts({i \in DOMAIN facts : facts[i].session = s})
    /\ rollups' = [rollups EXCEPT ![s] = [turns |-> {}, first |-> 0, last |-> 0, gone |-> TRUE]]
    /\ UNCHANGED <<turn, spoken>>

MemoryNext ==
    \/ \E s \in Chatters, v \in Values : RunAnswers(s, v)
    \/ \E s \in Chatters, scope \in {"global", "session"} :
           \/ \E v \in Values : Remember(s, scope, v)
           \/ \E status \in {"active", "candidate"} : ExtractionEnds(s, scope, status)
    \/ \E s \in Chatters : ExtractionInvalid(s) \/ ExtractionFails(s) \/ DeleteChat(s)
    \/ \E i \in DOMAIN facts :
           DeleteFact(i) \/ \E status \in {"active", "rejected"} :
                               facts[i].status # "deleted" /\ Review(i, status)

MemorySpec == MemoryInit /\ [][MemoryNext]_memoryVars

(******************************* Properties ********************************)
(* The aggregate of a session spans its turns, and a fact replaces an      *)
(* older one of the same session and scope.                                *)
MemoryOK ==
    /\ Len(facts) <= MaxFacts
    /\ \A s \in Chatters : \A t \in rollups[s].turns :
           rollups[s].first <= t[1] /\ t[2] <= rollups[s].last
    /\ \A i \in DOMAIN facts : facts[i].supersedes # 0 =>
           /\ facts[i].supersedes < i
           /\ facts[facts[i].supersedes].session = facts[i].session

(* As long as nobody reviews them, the facts of a session have one value   *)
(* in force, and a value that was replaced stays with what replaced it.    *)
(* addMemoryFact.                                                          *)
OneValuePerSession ==
    \A s \in Chatters, scope \in {"global", "session"} :
        /\ (\A i \in Here(s, scope) : ~facts[i].reviewed) =>
               Cardinality(Actives(s, scope)) <= 1
        /\ \A i \in Here(s, scope) :
               /\ facts[i].status = "superseded" /\ ~facts[i].reviewed
               /\ \A j \in Here(s, scope) : facts[j].status # "deleted"
               => \E j \in Here(s, scope) : facts[j].supersedes = i

(* README.md:222 says that a key with a new value supersedes the old fact: *)
(* the owner's key has one value in force in the facts that a session is   *)
(* given, its own or the global ones.                                      *)
OneValueInForce ==
    Cardinality({facts[i].value : i \in {j \in DOMAIN facts :
        facts[j].scope = "global" /\ facts[j].status = "active"}}) <= 1
===============================================================================
