------------------------------ MODULE Conversation ------------------------------
(***************************************************************************)
(* The messages of one session, its branches and its runs: sendMessage,    *)
(* editMessage and the messages that runs write (packages/core/src:        *)
(* runtime.ts, runtime-agent-events.ts, database.ts), the visible path     *)
(* (message-repository.ts) and the context a run reads (context-manager.ts *)
(* without its summaries).  Messages have the numbers of their insertion;  *)
(* a run has the number of its first message.  What users do to the queue  *)
(* is in MessageQueue.                                                     *)
(***************************************************************************)
EXTENDS Naturals, Sequences, FiniteSets, TLC

CONSTANT MaxMessages   \* bound of the model

VARIABLES
    messages,  \* the table messages
    runs,      \* run -> [status, message (the one its closure has), resumed]
    queue,     \* the queued runs
    head,      \* head_message_id of the active branch, or 0
    source,    \* fork_source_message_id of the active branch, or 0
    context    \* what the working run read: [of, read]

conversationVars == <<messages, runs, queue, head, source, context>>

Nothing == [of |-> 0, read |-> {}]

ConversationInit ==
    /\ messages = <<>>
    /\ runs = <<>>
    /\ queue = <<>>
    /\ head = 0
    /\ source = 0
    /\ context = Nothing
----------------------------------------------------------------------------
Numbers == DOMAIN messages
Next1 == Len(messages) + 1
Awaited == {r \in DOMAIN runs : runs[r].status = "awaiting"}

(* active_path, prefix_path: a message and its ancestors. *)
Ancestors(m) ==
    LET upwards[k \in 0..Len(messages)] ==
          IF k = 0 THEN {} ELSE {k} \cup upwards[messages[k].parent]
    IN  upwards[m]

(* visibleRows: the path of the head, and all of its runs. *)
Visible ==
    IF head = 0 THEN Numbers
    ELSE LET path == Ancestors(head)
                     \cup (IF source = 0 THEN {} ELSE Ancestors(messages[source].parent))
         IN  {m \in Numbers : m \in path \/ \E p \in path : messages[p].run = messages[m].run}

Message(role, run, parent, complete) ==
    [role |-> role, run |-> run, parent |-> parent, complete |-> complete]

QueuedRun(message) == [status |-> "queued", message |-> message, resumed |-> FALSE]

(* Bug: the message starts a path of its own. *)
FaultyPost(parent) ==
    /\ Len(messages) < MaxMessages
    /\ messages' = Append(messages, Message("user", Next1, 0, TRUE))
    /\ runs' = runs @@ (Next1 :> QueuedRun(Next1))
    /\ queue' = Append(queue, Next1)
    /\ head' = Next1

(* sendMessage: the message continues the run that waits for an answer, or *)
(* has a run of its own; a run that goes on goes first.                    *)
Post(parent) ==
    /\ Len(messages) < MaxMessages
    /\ head' = Next1
    /\ IF Awaited # {}
       THEN \E r \in Awaited :
               /\ messages' = Append(messages, Message("user", r, parent, TRUE))
               /\ runs' = [runs EXCEPT ![r] = QueuedRun(Next1)]
               /\ queue' = <<r>> \o queue
       ELSE /\ messages' = Append(messages, Message("user", Next1, parent, TRUE))
            /\ runs' = runs @@ (Next1 :> QueuedRun(Next1))
            /\ queue' = Append(queue, Next1)

Send == Post(head) /\ UNCHANGED <<source, context>>

(* A command and its output: no parent, and the head stays. *)
Command ==
    /\ Len(messages) < MaxMessages
    /\ messages' = Append(messages, Message("command", Next1, 0, TRUE))
    /\ UNCHANGED <<runs, queue, head, source, context>>

(* Bug: messages may be waiting in the queue. *)
FaultyMayEdit(m) == m \in Visible /\ messages[m].role # "answer"

(* The checks of editMessage; a queued message is edited in place. *)
MayEdit(m) == m \in Visible /\ messages[m].role # "answer" /\ queue = <<>>

(* The edited message takes the parent of the old one on a new branch. *)
Edit(m) ==
    /\ MayEdit(m)
    /\ Post(messages[m].parent)
    /\ source' = m
    /\ UNCHANGED context
----------------------------------------------------------------------------
(* buildForMessage: what is visible and before the message of the run. *)
StartRun(r) ==
    /\ queue # <<>> /\ r = Head(queue)
    /\ queue' = Tail(queue)
    /\ \A other \in DOMAIN runs : runs[other].status \notin {"working", "awaiting"}
    /\ runs' = [runs EXCEPT ![r].status = "working"]
    /\ context' = [of |-> runs[r].message,
                   read |-> {m \in Visible : m < runs[r].message /\ messages[m].complete}]
    /\ UNCHANGED <<messages, head, source>>

Working(r) == r \in DOMAIN runs /\ runs[r].status = "working"
Streaming(r) == {m \in Numbers : messages[m].run = r /\ ~messages[m].complete}

(* message_start, message_end of an answer. *)
AnswerStarts(r) ==
    /\ Working(r) /\ Streaming(r) = {} /\ Len(messages) < MaxMessages
    /\ messages' = Append(messages, Message("answer", r, runs[r].message, FALSE))
    /\ UNCHANGED <<runs, queue, head, source, context>>

AnswerCompletes(r, m) ==
    /\ Working(r) /\ m \in Streaming(r)
    /\ messages' = [messages EXCEPT ![m].complete = TRUE]
    /\ UNCHANGED <<runs, queue, head, source, context>>

(* The run asks the user, ends, or dies with the process. *)
AskUser(r) ==
    /\ Working(r) /\ Len(messages) < MaxMessages
    /\ \A m \in Numbers : ~(messages[m].role = "answer" /\ messages[m].parent = runs[r].message)
    /\ messages' = Append(messages, Message("answer", r, runs[r].message, TRUE))
    /\ runs' = [runs EXCEPT ![r].status = "awaiting"]
    /\ context' = Nothing
    /\ UNCHANGED <<queue, head, source>>

EndRun(r, status) ==
    /\ Working(r) /\ (status = "done" => Streaming(r) = {})
    /\ runs' = [runs EXCEPT ![r].status = status]
    /\ context' = Nothing
    /\ UNCHANGED <<messages, queue, head, source>>

(* resumeRun: with the first message of the run. *)
ResumeRun(r) ==
    /\ r \in DOMAIN runs /\ runs[r].status = "interrupted"
    /\ runs' = [runs EXCEPT ![r] = [status |-> "queued", message |-> r, resumed |-> TRUE]]
    /\ queue' = Append(queue, r)
    /\ UNCHANGED <<messages, head, source, context>>

ConversationNext ==
    \/ Send \/ Command
    \/ \E m \in Numbers : Edit(m)
    \/ \E r \in DOMAIN runs :
          \/ StartRun(r) \/ AnswerStarts(r) \/ AskUser(r) \/ ResumeRun(r)
          \/ \E m \in Numbers : AnswerCompletes(r, m)
          \/ \E status \in {"done", "interrupted"} : EndRun(r, status)

ConversationSpec == ConversationInit /\ [][ConversationNext]_conversationVars
----------------------------------------------------------------------------
ConversationOK ==
    /\ head \in 0..Len(messages) /\ source \in 0..Len(messages)
    /\ \A m \in Numbers : messages[m].parent < m
    /\ context.read \subseteq Numbers

(* A run that waits in the queue has its message on the path the user      *)
(* sees, unless it was interrupted and resumed; and nothing that an agent  *)
(* run wrote vanishes from that path except by an edit.                    *)
PathKept ==
    [][/\ \A m \in Visible :
            messages[m].role = "command" \/ m \in Visible' \/ \E edited \in Numbers : Edit(edited)
       /\ (\A i \in DOMAIN queue :
            runs[queue[i]].resumed \/ runs[queue[i]].message \in Visible)']_conversationVars

(* The path of a message: its ancestors and the answers to them. *)
PathOf(m) ==
    {p \in Numbers : \/ p \in Ancestors(m)
                     \/ messages[p].role = "answer" /\ messages[p].parent \in Ancestors(m)}

(* A run reads the path of its message                                     *)
(* (docs/conversation-execution-recovery-design.zh-CN.md:27: along the     *)
(* parents, and not what has a smaller number).                            *)
ContextFollowsPath ==
    context.of # 0 =>
        \A m \in PathOf(context.of) \ {context.of} :
            messages[m].complete /\ messages[m].parent # context.of => m \in context.read
=============================================================================
