------------------------------ MODULE Attachments ------------------------------
(***************************************************************************)
(* The files of a session and of the response of a run: uploads over HTTP, *)
(* the three tools of an agent that attach a file (from the workspace, a   *)
(* copy, a generated image) and the response they belong to (addAttachment *)
(* of runtime.ts, the tables responses, response_activities and            *)
(* attachments of database.ts).  Between two of its awaits any other       *)
(* request or tool may run; the agent itself waits for its calls.          *)
(***************************************************************************)
EXTENDS Naturals, Sequences, FiniteSets, Folds

CONSTANTS Sizes,        \* sizes a file may have
          UploadLimit,  \* server.maxUploadBytes
          TotalLimit,   \* 100 MiB for a response
          MaxAdditions, MaxCrashes   \* bounds of the model

VARIABLES
    response,    \* the status of its row; "interrupted" is a failed one that can go on
    activities,  \* response_activities: the attachments of kind "file", in order
    attachments, \* the rows, in the order they were added
    directories, \* uploads/<owner>/<uuid>, by the addition that made it
    additions,   \* calls of addAttachment and of the tools, in the order they began
    overlapped,  \* two images were being generated or added at once (history)
    crashes

attachmentVars == <<response, activities, attachments, directories, additions, overlapped, crashes>>

AttachmentsInit ==
    /\ response = "executing" /\ activities = <<>> /\ attachments = <<>>
    /\ directories = {} /\ additions = <<>> /\ overlapped = FALSE /\ crashes = 0

UnderWay == {a \in DOMAIN additions : additions[a].at \notin {"done", "failed", "cut"}}
OfRun(a) == additions[a].tool # "upload"
Calls == {a \in UnderWay : OfRun(a)}

(* listResponses and getResponse: the attachments of the response.         *)
Attached == {i \in DOMAIN attachments : attachments[i].ofResponse}
SizeOf(S) == MapThenFoldSet(+, 0, LAMBDA i : attachments[i].size, LAMBDA T : CHOOSE i \in T : TRUE, S)

Begins(tool, size, at) ==
    /\ Len(additions) < MaxAdditions
    /\ additions' = Append(additions, [tool |-> tool, size |-> size, at |-> at])
    /\ overlapped' = (overlapped \/ (tool = "image" /\ Calls # {}))

(* addAttachment before its first await: what it checks is what it saw.    *)
FaultyAccepted(tool, size) == size <= UploadLimit
Accepted(tool, size) ==
    /\ size <= UploadLimit
    /\ tool # "upload" => SizeOf(Attached) + size <= TotalLimit

(* The route of uploads; they belong to the session and to no response.    *)
Upload(size) ==
    /\ Accepted("upload", size)
    /\ Begins("upload", size, "writing")
    /\ directories' = directories \cup {Len(additions) + 1}
    /\ UNCHANGED <<response, activities, attachments, crashes>>

(* attachmentCreateFromWorkspace and attachmentCopyFromSession: calls of   *)
(* these tools run alone.  A copy has the size of its source, which        *)
(* validateAttachmentForSession finds in the session.                      *)
FromWorkspace(size) ==
    /\ response = "executing" /\ Calls = {}
    /\ Begins("workspace", size, "reading")
    /\ UNCHANGED <<response, activities, attachments, directories, crashes>>

Copy(i) ==
    /\ response = "executing" /\ Calls = {}
    /\ Begins("copy", attachments[i].size, "reading")
    /\ UNCHANGED <<response, activities, attachments, directories, crashes>>

(* imageGenerate: these calls run side by side.                            *)
Generate(size) ==
    /\ response = "executing" /\ \A a \in Calls : additions[a].tool = "image"
    /\ Begins("image", size, "reading")
    /\ UNCHANGED <<response, activities, attachments, directories, crashes>>

(* What was read or generated is checked, and its directory is made.       *)
Reads(a) ==
    /\ additions[a].at = "reading"
    /\ \/ /\ Accepted(additions[a].tool, additions[a].size)
          /\ additions' = [additions EXCEPT ![a].at = "writing"]
          /\ directories' = directories \cup {a}
       \/ /\ additions' = [additions EXCEPT ![a].at = "failed"]
          /\ UNCHANGED directories
    /\ UNCHANGED <<response, activities, attachments, overlapped, crashes>>

(* addAttachment of the database, and addResponseActivity.                 *)
Inserted(a) == Append(attachments, [of |-> a, size |-> additions[a].size, ofResponse |-> OfRun(a),
                                    status |-> "ready"])
Described(a) == IF OfRun(a) THEN Append(activities, a) ELSE activities

(* The file is written: the row is inserted, and the response is told,     *)
(* before anything else runs.                                              *)
WriteEnds(a) ==
    /\ additions[a].at = "writing"
    /\ attachments' = Inserted(a)
    /\ activities' = Described(a)
    /\ additions' = [additions EXCEPT ![a].at = "done"]
    /\ UNCHANGED <<response, directories, overlapped, crashes>>

(* The file or the row could not be written: the directory is removed.     *)
FaultyWriteFails(a) ==
    /\ additions[a].at = "writing"
    /\ additions' = [additions EXCEPT ![a].at = "failed"]
    /\ UNCHANGED <<response, activities, attachments, directories, overlapped, crashes>>
WriteFails(a) ==
    /\ additions[a].at = "writing"
    /\ directories' = directories \ {a}
    /\ additions' = [additions EXCEPT ![a].at = "failed"]
    /\ UNCHANGED <<response, activities, attachments, overlapped, crashes>>
----------------------------------------------------------------------------
UpdateResponse(status) == response' = status

(* updateResponseAttachmentStatus, for all files of the response.          *)
FaultySent(a) == IF Len(activities) > 0 /\ attachments[a].of = activities[Len(activities)]
                 THEN [attachments[a] EXCEPT !.status = "sent"] ELSE attachments[a]
Sent(i) == IF attachments[i].ofResponse THEN [attachments[i] EXCEPT !.status = "sent"]
           ELSE attachments[i]

(* The run completes.                                                      *)
Complete ==
    /\ response = "executing" /\ Calls = {}
    /\ UpdateResponse("completed")
    /\ attachments' = [i \in DOMAIN attachments |-> Sent(i)]
    /\ UNCHANGED <<activities, directories, additions, overlapped, crashes>>

(* It fails or is cancelled; and a run that was interrupted is resumed.    *)
Fail ==
    /\ response = "executing" /\ Calls = {}
    /\ UpdateResponse("failed")
    /\ UNCHANGED <<activities, attachments, directories, additions, overlapped, crashes>>

Resume ==
    /\ response = "interrupted"
    /\ UpdateResponse("executing")
    /\ UNCHANGED <<activities, attachments, directories, additions, overlapped, crashes>>

(* The process dies and the next one marks the run.                        *)
Crash ==
    /\ crashes < MaxCrashes /\ crashes' = crashes + 1
    /\ UpdateResponse(IF response = "executing" THEN "interrupted" ELSE response)
    /\ additions' = [a \in DOMAIN additions |->
                        IF a \in UnderWay THEN [additions[a] EXCEPT !.at = "cut"] ELSE additions[a]]
    /\ UNCHANGED <<activities, attachments, directories, overlapped>>

AttachmentsNext ==
    \/ \E size \in Sizes : Upload(size) \/ FromWorkspace(size) \/ Generate(size)
    \/ \E i \in DOMAIN attachments : Copy(i)
    \/ \E a \in UnderWay : Reads(a) \/ WriteEnds(a) \/ WriteFails(a)
    \/ Complete \/ Fail \/ Resume \/ Crash

AttachmentsSpec == AttachmentsInit /\ [][AttachmentsNext]_attachmentVars
----------------------------------------------------------------------------
AttachmentsOK ==
    /\ response \in {"executing", "completed", "failed", "interrupted"}
    /\ \A i \in DOMAIN attachments : attachments[i].status \in {"ready", "sent"}
    /\ directories \subseteq DOMAIN additions

(* The files of a response stay within its limit, although it is checked   *)
(* before the file is written; only images generated side by side pass it. *)
TotalKept == overlapped \/ SizeOf(Attached) <= TotalLimit

(* What a completed response offers has been sent, what it attached in an  *)
(* earlier process as well, and nothing is sent before; the response lists *)
(* each of its files once.                                                 *)
SentWithResponse ==
    /\ \A i \in Attached : attachments[i].status = "sent" <=> response = "completed"
    /\ Len(activities) = Cardinality(Attached)
    /\ \A i \in Attached : \E n \in DOMAIN activities : activities[n] = attachments[i].of

(* A row has its file behind it, and a file nobody has a row for is being  *)
(* written or was left by a crash.                                         *)
FileBehind ==
    /\ \A i \in DOMAIN attachments : attachments[i].of \in directories
    /\ \A a \in directories :
           additions[a].at = "writing" \/ additions[a].at = "cut"
             \/ \E i \in DOMAIN attachments : attachments[i].of = a
=============================================================================
