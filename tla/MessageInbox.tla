---------------------------- MODULE MessageInbox ----------------------------
(***************************************************************************)
(* What the server does with the messages that clients post: sendMessage  *)
(* (runtime.ts) takes a message id once, answers a repeated id with the    *)
(* run it already has, and refuses what it cannot accept.  AndroidOutbox   *)
(* and WebDrafts post into it.                                             *)
(*                                                                         *)
(* A message is abstracted to the text the user composed, a number, and    *)
(* its attachments.  A request that was sent stays in `air` until the      *)
(* server handles it, which may be never, or long after its sender has     *)
(* stopped waiting: `by` is the caller that still waits for the reply.     *)
(***************************************************************************)
EXTENDS Naturals, FiniteSets

CONSTANT Chats   \* the sessions of the server

VARIABLE inbox        \* requests in the air and messages taken

Nobody == 0
NoRequest == [id |-> 0, chat |-> 0, text |-> 0, files |-> {}]

InboxInit == inbox = [air |-> {}, taken |-> {}]

Posted(by, request) ==
  [inbox EXCEPT !.air = @ \cup {[by |-> by, request |-> request]}]

(* The caller stops waiting: its request goes on without it. *)
Detached(callers) ==
  {[post EXCEPT !.by = IF @ \in callers THEN Nobody ELSE @] : post \in inbox.air}

Has(id) == \E request \in inbox.taken : request.id = id

(* A request with this id was taken, or may be yet. *)
Outstanding(id) == Has(id) \/ \E post \in inbox.air : post.request.id = id

(* findMessageOwner: an id that was taken is answered with its run. *)
Handled(post) ==
  [inbox EXCEPT !.air = @ \ {post},
                !.taken = IF Has(post.request.id) THEN @ ELSE @ \cup {post.request}]

(* The request is refused with a 4xx status, for its text or for what is   *)
(* checked before the id: the login, the limit of requests.                *)
Rejected(post) == [inbox EXCEPT !.air = @ \ {post}]

(* The messages that the server holds with one text of the user. *)
Copies(text) == {request \in inbox.taken : request.text = text}
=============================================================================
