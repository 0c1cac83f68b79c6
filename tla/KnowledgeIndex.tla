---------------------------- MODULE KnowledgeIndex ----------------------------
(***************************************************************************)
(* A knowledge source on its way into the index: it is read, cut into      *)
(* chunks, embedded in batches by a provider that answers late, out of     *)
(* order or not at all, and stored; while it is indexed again, deleted or  *)
(* changed on disk, and while questions are embedded beside it.            *)
(* KnowledgeService of knowledge.ts, EmbeddingService of embedding.ts and  *)
(* the knowledge operations of database.ts.                                *)
(*                                                                         *)
(* One path of one owner.  Chunk i of version v of the file is <<v, i>>,   *)
(* and a vector is known by the text that it is the vector of.             *)
(***************************************************************************)
EXTENDS Naturals, Sequences, FiniteSets, SequencesExt

CONSTANTS Indexers,                \* runs of process for the source
          Questions,               \* searches
          Chunks,                  \* chunks of the file, one batch
          MaxRequests, MaxAttempts, \* maxConcurrentRequests, retryAttempts + 1
          MaxVersions              \* bound

ASSUME KnowledgeAssumption == Indexers \cap Questions = {} /\ MaxRequests > 0

VARIABLES
    version, \* of the file
    source,  \* the row: whether it exists, status, chunks and their vectors
    work,    \* per indexer and question: stage, texts, attempts, vectors
    taken,   \* activeRequests
    turns    \* those that wait for a permit

knowledgeVars == <<version, source, work, taken, turns>>

NoWork == [stage |-> "idle", texts |-> <<>>, attempt |-> 0, late |-> FALSE, vectors |-> <<>>]

KnowledgeInit ==
    /\ version = 1
    /\ source = [exists |-> FALSE, status |-> "none", chunks |-> <<>>, vectors |-> <<>>]
    /\ work = [p \in Indexers \cup Questions |-> NoWork]
    /\ taken = 0 /\ turns = <<>>

(* createKnowledgeSource and updateKnowledgeSourceStatus                   *)
Emptied == [exists |-> TRUE, status |-> "queued", chunks |-> <<>>, vectors |-> <<>>]
Marked(row, status) == IF row.exists THEN [row EXCEPT !.status = status] ELSE row

Content(v) == [i \in 1..Chunks |-> <<v, i>>]

(******************************** Permits **********************************)
Acquire(p) ==
    IF taken < MaxRequests THEN taken' = taken + 1 /\ turns' = turns
    ELSE taken' = taken /\ turns' = Append(turns, p)

AcquireStage == IF taken < MaxRequests THEN "asking" ELSE "waiting"

FaultyRelease == IF turns = <<>> THEN taken' = taken - 1 /\ turns' = turns
                 ELSE taken' = taken - 1 /\ turns' = Tail(turns)

(* release hands the permit to the one that has waited longest.            *)
Release == IF turns = <<>> THEN taken' = taken - 1 /\ turns' = turns
           ELSE taken' = taken /\ turns' = Tail(turns)

(* p leaves with a result, and the one that waited longest starts to ask.  *)
Hand(p, result) ==
    [q \in DOMAIN work |->
        IF q = p THEN result
        ELSE IF turns # <<>> /\ Head(turns) = q THEN [work[q] EXCEPT !.stage = "asking"]
        ELSE work[q]]

(******************************* The source ********************************)
(* enqueue and index: the row is created or emptied; reindex keeps what is *)
(* indexed until it is replaced.                                           *)
Enqueue(p, again) ==
    /\ work[p] = NoWork /\ (again => source.exists)
    /\ source' = Marked(IF again THEN source ELSE Emptied, "parsing")
    /\ work' = [work EXCEPT ![p].stage = "reading"]
    /\ UNCHANGED <<version, taken, turns>>

(* process has read the file and embeds its chunks.                        *)
Embed(p) ==
    /\ work[p].stage = "reading"
    /\ Acquire(p)
    /\ work' = [work EXCEPT ![p] = [NoWork EXCEPT
           !.stage = AcquireStage, !.texts = Content(version), !.attempt = 1]]
    /\ UNCHANGED <<version, source>>

(* The file cannot be read or parsed.                                      *)
ReadFails(p) ==
    /\ work[p].stage = "reading"
    /\ work' = [work EXCEPT ![p].stage = "over"]
    /\ source' = Marked(source, "failed")
    /\ UNCHANGED <<version, taken, turns>>

(* searchSemantic embeds a text of its own.                                *)
Ask(q) ==
    /\ q \in Questions /\ work[q] = NoWork
    /\ Acquire(q)
    /\ work' = [work EXCEPT ![q] = [NoWork EXCEPT
           !.stage = AcquireStage, !.texts = <<<<0, q>>>>, !.attempt = 1]]
    /\ UNCHANGED <<version, source>>

DeleteSource ==
    /\ source.exists
    /\ source' = [exists |-> FALSE, status |-> "none", chunks |-> <<>>, vectors |-> <<>>]
    /\ UNCHANGED <<version, work, taken, turns>>

ChangeFile ==
    /\ version < MaxVersions
    /\ version' = version + 1
    /\ UNCHANGED <<source, work, taken, turns>>

(****************************** The provider *******************************)
FaultySorted(items) == [i \in DOMAIN items |-> items[i].vector]

(* The items in the order of their index.                                  *)
Sorted(items) ==
    [i \in DOMAIN items |-> (CHOOSE x \in ToSet(items) : x.index = i).vector]

(* What it may answer: an item for every text in some order, or fewer.     *)
Answers(texts) ==
    LET item(i) == [index |-> i, vector |-> texts[i]]
        all == [i \in DOMAIN texts |-> item(i)]
    IN {all, Reverse(all), SubSeq(all, 2, Len(all))}

(* replaceKnowledgeSource: a source that was deleted meanwhile is created  *)
(* again, and what another indexer has stored is replaced.                 *)
Stores(p, vectors) ==
    source' = IF p \in Indexers
              THEN [exists |-> TRUE, status |-> "indexed", chunks |-> work[p].texts,
                    vectors |-> vectors]
              ELSE source

(* A complete answer ends the request.                                     *)
Answered(p, items) ==
    /\ work[p].stage = "asking" /\ Len(items) = Len(work[p].texts)
    /\ work' = Hand(p, [work[p] EXCEPT !.stage = "over", !.vectors = Sorted(items)])
    /\ Stores(p, Sorted(items))
    /\ Release
    /\ UNCHANGED version

(* The request fails for good: refused, an invalid answer, out of time or  *)
(* out of attempts.  A source that still exists is marked.                 *)
Refused(p) ==
    /\ work' = Hand(p, [work[p] EXCEPT !.stage = "over"])
    /\ source' = IF p \in Indexers THEN Marked(source, "failed") ELSE source
    /\ Release
    /\ UNCHANGED version

Invalid(p) ==
    /\ work[p].stage = "asking"
    /\ \E items \in Answers(work[p].texts) : Len(items) # Len(work[p].texts)
    /\ Refused(p)

(* A transient failure is tried again with the same permit, unless the     *)
(* time of the whole request is over.                                      *)
Fails(p) ==
    /\ work[p].stage = "asking"
    /\ \/ work[p].late /\ Refused(p)
       \/ work[p].attempt = MaxAttempts /\ ~work[p].late /\ Refused(p)
       \/ /\ work[p].attempt < MaxAttempts /\ ~work[p].late
          /\ work' = [work EXCEPT ![p].stage = "resting"]
          /\ UNCHANGED <<version, source, taken, turns>>

Retry(p) ==
    /\ work[p].stage = "resting"
    /\ work' = [work EXCEPT ![p].stage = "asking", ![p].attempt = @ + 1]
    /\ UNCHANGED <<version, source, taken, turns>>

TimesOut(p) ==
    /\ work[p].stage \in {"asking", "resting"} /\ ~work[p].late
    /\ work' = [work EXCEPT ![p].late = TRUE]
    /\ UNCHANGED <<version, source, taken, turns>>

KnowledgeNext ==
    \/ \E p \in Indexers : Embed(p) \/ ReadFails(p) \/ \E again \in BOOLEAN : Enqueue(p, again)
    \/ \E q \in Questions : Ask(q)
    \/ \E p \in Indexers \cup Questions :
           \/ Invalid(p) \/ Fails(p) \/ Retry(p) \/ TimesOut(p)
           \/ \E items \in Answers(work[p].texts) :
                  work[p].stage = "asking" /\ ~work[p].late /\ Answered(p, items)
    \/ DeleteSource \/ ChangeFile

KnowledgeSpec == KnowledgeInit /\ [][KnowledgeNext]_knowledgeVars

(******************************* Properties ********************************)
(* Every chunk of the index has the vector of its own text, and so has a   *)
(* question, in whatever order the provider answers and whoever else asks. *)
(* The requests in flight never exceed the limit, and nobody waits while a *)
(* permit is free.  fetch, acquire and release of embedding.ts.            *)
VectorsOfTexts ==
    /\ source.vectors = source.chunks
    /\ \A p \in DOMAIN work : work[p].vectors # <<>> => work[p].vectors = work[p].texts

PermitsExact ==
    /\ taken = Cardinality({p \in DOMAIN work : work[p].stage \in {"asking", "resting"}})
    /\ taken <= MaxRequests
    /\ turns # <<>> => taken = MaxRequests
    /\ ToSet(turns) = {p \in DOMAIN work : work[p].stage = "waiting"}
================================================================================
