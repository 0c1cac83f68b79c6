------------------------------- MODULE WebSessions -------------------------------
(***************************************************************************)
(* The account of the web page and its list of sessions (App.tsx,          *)
(* Login.tsx): who is signed in, the query of the list with its cache in   *)
(* the browser (cache.ts), the creation and deletion of sessions, and what *)
(* UmaClient does when the user signs in and out.  The query library is    *)
(* external: one fetch of a query at a time, which a later one, or a       *)
(* cancellation, replaces once the query has data; what fails is tried     *)
(* once more (main.tsx), and an error leaves the data that is there.  An   *)
(* account is a number, 0 is nobody.                                       *)
(*                                                                         *)
(* The model shows that an account that was refused (401) has to sign in   *)
(* twice: the error of the list is still there when the page opens, and    *)
(* the effect that looks for it closes the page again.                     *)
(***************************************************************************)
EXTENDS Naturals, FiniteSets

CONSTANTS Members,      \* accounts, numbers from 1
          Threads,      \* sessions
          MaxTroubles   \* bound of the model: of what users, networks and
                        \* other devices do

VARIABLES
    site,      \* the server: the cookie of the browser, whose the sessions are
    page,      \* the page and its client
    listing,   \* the query of the list: its data, whether they are the list the
               \* browser kept, and its error
    loading,   \* its fetch
    fresh,     \* pendingCreatedSessions
    making,    \* the creation of a session
    removing,  \* the deletion of one
    cached,    \* the lists in the browser, of each namespace
    told,      \* history: what the page was told, who signed in, and how
    troubles   \* counted

webVars == <<site, page, listing, loading, fresh, making, removing, cached, told, troubles>>

Nobody == 0
None == 0
NoList == {None}
Resting == [step |-> "idle", answer |-> {}, of |-> Nobody, again |-> FALSE]
Asking == [Resting EXCEPT !.step = "asking"]
NotMaking == [step |-> "none", thread |-> None, current |-> TRUE]
NotRemoving == [step |-> "none", thread |-> None]

Have(a) == {t \in Threads : site.owner[t] = a /\ t \notin site.gone}
Empty == [data |-> NoList, error |-> "none", kept |-> FALSE]
Shown == IF listing.data = NoList THEN {} ELSE listing.data

(* gate: loginRequired, which is not known at first.  A page that is       *)
(* loaded has the namespace "anonymous" and asks for its list.             *)
Loaded ==
    [gate |-> "unknown", selected |-> None, namespace |-> Nobody, closed |-> FALSE,
     entering |-> FALSE, leaving |-> FALSE, cacheless |-> FALSE]

WebSessionsInit ==
    /\ \E a \in Members, mine \in SUBSET Threads :
          /\ site = [cookie |-> a, gone |-> {},
                     owner |-> [t \in Threads |-> IF t \in mine THEN a ELSE Nobody]]
          /\ told = [account |-> a, created |-> {}, removed |-> {}, lost |-> FALSE,
                     expired |-> FALSE]
    /\ page = Loaded
    /\ listing = Empty
    /\ loading = Asking
    /\ fresh = {}
    /\ making = NotMaking
    /\ removing = NotRemoving
    /\ cached = [a \in Members \cup {Nobody} |-> NoList]
    /\ troubles = 0

Trouble == troubles < MaxTroubles /\ troubles' = troubles + 1
----------------------------------------------------------------------------
(* close of the client: requests that have no answer yet get none.  Only   *)
(* signOut counts the generation on (clear of useConversationDrafts).      *)
Aborted(leaves) ==
    /\ making' = IF making.step # "cancelling" THEN NotMaking
                 ELSE [making EXCEPT !.current = @ /\ ~leaves]
    /\ removing' = IF removing.step = "confirming" THEN removing ELSE NotRemoving

(* A list that is shown opens the page if nobody has to sign in, and the   *)
(* first session is selected if none is.                                   *)
Shows(values, kept) ==
    /\ listing' = [data |-> values, error |-> "none", kept |-> kept]
    /\ loading' = Resting
    /\ IF page.gate = "login" THEN UNCHANGED page
       ELSE \E first \in IF page.selected # None THEN {page.selected}
                         ELSE IF values = {} THEN {None} ELSE values :
               page' = [page EXCEPT !.gate = "open", !.selected = first]

(* The list is invalidated by an event, or by what the page has changed.   *)
Refetch ==
    /\ page.gate # "login"
    /\ loading.step = "idle" \/ listing.data # NoList
    /\ loading' = Asking
    /\ UNCHANGED <<site, page, listing, fresh, making, removing, cached, told, troubles>>

ServerLists ==
    /\ loading.step = "asking" /\ ~page.closed
    /\ loading' = IF site.cookie = Nobody THEN [loading EXCEPT !.step = "refused"]
                  ELSE [loading EXCEPT !.step = "answered", !.answer = Have(site.cookie),
                                       !.of = site.cookie]
    /\ UNCHANGED <<site, page, listing, fresh, making, removing, cached, told, troubles>>

(* The answer of syncBootstrap: what it confirms is no longer pending, and *)
(* the list is written to the namespace of the account, or cannot be.      *)
ListRead(ok) ==
    /\ loading.step = "answered" /\ ~page.closed
    /\ fresh' = fresh \ loading.answer
    /\ LET values == fresh \cup loading.answer IN
          /\ loading' = [loading EXCEPT !.step = "writing", !.answer = values]
          /\ cached' = IF ok THEN [cached EXCEPT ![loading.of] = values] ELSE cached
    /\ page' = [page EXCEPT !.namespace = loading.of, !.cacheless = @ \/ ~ok]
    /\ IF ok THEN UNCHANGED troubles ELSE Trouble
    /\ UNCHANGED <<site, listing, making, removing, told>>

ListShown ==
    /\ loading.step = "writing"
    /\ Shows(loading.answer, FALSE)
    /\ UNCHANGED <<site, fresh, making, removing, cached, told, troubles>>

(* There is no answer, or the client was closed. *)
NoAnswer ==
    /\ loading.step \in {"asking", "answered"}
    /\ IF page.closed \/ loading.again THEN UNCHANGED troubles ELSE Trouble

(* The list is the one in the browser with what was created since.         *)
ListKept ==
    /\ NoAnswer /\ cached[page.namespace] # NoList
    /\ Shows(fresh \cup cached[page.namespace], TRUE)
    /\ UNCHANGED <<site, fresh, making, removing, cached, told>>

(* There is none, or the account is refused: the query is tried again.     *)
Retries ==
    /\ ~loading.again
    /\ \/ loading.step = "refused" /\ UNCHANGED troubles
       \/ NoAnswer /\ cached[page.namespace] = NoList
    /\ loading' = [Asking EXCEPT !.again = TRUE]
    /\ UNCHANGED <<site, page, listing, fresh, making, removing, cached, told>>

(* 401: the page asks to sign in, forgets the cached list and closes its   *)
(* client; a page that asks already does nothing.  The data stay.          *)
Refuses ==
    /\ page' = [page EXCEPT !.gate = "login", !.closed = TRUE, !.entering = FALSE]
    /\ fresh' = {}
    /\ cached' = [cached EXCEPT ![page.namespace] = NoList]
    /\ told' = [told EXCEPT !.lost = TRUE, !.created = {}, !.removed = {}]
    /\ Aborted(FALSE)

ListRefused ==
    /\ loading.step = "refused" /\ loading.again
    /\ loading' = Resting
    /\ listing' = [listing EXCEPT !.error = "refused"]
    /\ IF page.gate = "login" THEN UNCHANGED <<page, fresh, making, removing, cached, told>>
       ELSE Refuses
    /\ UNCHANGED <<site, troubles>>

ListFails ==
    /\ loading.again /\ NoAnswer /\ cached[page.namespace] = NoList
    /\ loading' = Resting
    /\ listing' = [listing EXCEPT !.error = "failed"]
    /\ page' = IF page.gate = "unknown" THEN [page EXCEPT !.gate = "login"] ELSE page
    /\ told' = [told EXCEPT !.lost = @ \/ page.gate = "unknown"]
    /\ UNCHANGED <<site, fresh, making, removing, cached>>

(* The page has waited ten seconds for its first list. *)
WaitsTooLong ==
    /\ page.gate = "unknown"
    /\ page' = [page EXCEPT !.gate = "login"]
    /\ told' = [told EXCEPT !.lost = TRUE]
    /\ UNCHANGED <<site, listing, loading, fresh, making, removing, cached, troubles>>
----------------------------------------------------------------------------
(* createSession: one at a time, for the generation of the account.        *)
Creates ==
    /\ page.gate = "open" /\ making.step = "none"
    /\ making' = [NotMaking EXCEPT !.step = "asked"]
    /\ UNCHANGED <<site, page, listing, loading, fresh, removing, cached, told, troubles>>

ServerCreates(t) ==
    /\ making.step = "asked" /\ ~page.closed
    /\ site.cookie # Nobody /\ site.owner[t] = Nobody
    /\ site' = [site EXCEPT !.owner[t] = site.cookie]
    /\ making' = [making EXCEPT !.step = "made", !.thread = t]
    /\ UNCHANGED <<page, listing, loading, fresh, removing, cached, told, troubles>>

(* A fetch that began before the answer would undo it: it is cancelled,    *)
(* and the generation is compared again when that is done.                 *)
CreateAnswered ==
    /\ making.step = "made" /\ ~page.closed
    /\ IF making.current
       THEN making' = [making EXCEPT !.step = "cancelling"] /\ loading' = Resting
       ELSE making' = NotMaking /\ UNCHANGED loading
    /\ UNCHANGED <<site, page, listing, fresh, removing, cached, told, troubles>>

(* Bug: the generation is compared once. *)
FaultyCreateShown ==
    /\ making.step = "cancelling"
    /\ making' = NotMaking
    /\ fresh' = fresh \cup {making.thread}
    /\ listing' = [listing EXCEPT !.data = Shown \cup {making.thread}, !.error = "none"]
    /\ page' = [page EXCEPT !.selected = making.thread]
    /\ told' = [told EXCEPT !.created = @ \cup {making.thread}]
    /\ UNCHANGED <<site, loading, removing, cached, troubles>>

(* A session that a refresh had shown earlier may have been deleted by     *)
(* then: the answer shows it again, until the next refresh.                *)
CreateShown ==
    /\ making.step = "cancelling"
    /\ making' = NotMaking
    /\ IF ~making.current THEN UNCHANGED <<fresh, listing, page, told>>
       ELSE /\ fresh' = fresh \cup {making.thread}
            /\ listing' = [listing EXCEPT !.data = Shown \cup {making.thread}, !.error = "none"]
            /\ page' = [page EXCEPT !.selected = making.thread]
            /\ told' = [told EXCEPT !.created = @ \cup {making.thread},
                                    !.removed = @ \ {making.thread}]
    /\ UNCHANGED <<site, loading, removing, cached, troubles>>

CreateFails ==
    /\ making.step \in {"asked", "made"}
    /\ making' = NotMaking
    /\ IF page.closed THEN UNCHANGED troubles ELSE Trouble
    /\ UNCHANGED <<site, page, listing, loading, fresh, removing, cached, told>>

(* removeSession asks about the session that is selected; what the user    *)
(* confirms may no longer be, nor be of the account that is signed in.     *)
Removes ==
    /\ page.gate = "open" /\ page.selected # None /\ removing.step \in {"none", "confirming"}
    /\ removing' = [step |-> "confirming", thread |-> page.selected]
    /\ UNCHANGED <<site, page, listing, loading, fresh, making, cached, told, troubles>>

Confirms ==
    /\ page.gate = "open" /\ removing.step = "confirming"
    /\ removing' \in {NotRemoving, [removing EXCEPT !.step = "asked"]}
    /\ UNCHANGED <<site, page, listing, loading, fresh, making, cached, told, troubles>>

ServerDeletes ==
    /\ removing.step = "asked" /\ ~page.closed
    /\ site.cookie # Nobody /\ removing.thread \in Have(site.cookie)
    /\ site' = [site EXCEPT !.gone = @ \cup {removing.thread}]
    /\ removing' = [removing EXCEPT !.step = "done"]
    /\ UNCHANGED <<page, listing, loading, fresh, making, cached, told, troubles>>

(* Bug: the list is not asked for again. *)
FaultyDeleteAnswered ==
    /\ removing.step = "done" /\ ~page.closed
    /\ removing' = NotRemoving
    /\ fresh' = fresh \ {removing.thread}
    /\ listing' = [listing EXCEPT !.data = Shown \ {removing.thread}, !.error = "none"]
    /\ page' = [page EXCEPT !.selected = IF @ = removing.thread THEN None ELSE @]
    /\ told' = [told EXCEPT !.removed = @ \cup {removing.thread}]
    /\ UNCHANGED <<site, loading, making, cached, troubles>>

(* The session leaves the list and another is selected; the list is asked  *)
(* for again, in the place of a fetch that may still have it.              *)
DeleteAnswered ==
    LET left == Shown \ {removing.thread} IN
    /\ removing.step = "done" /\ ~page.closed
    /\ removing' = NotRemoving
    /\ fresh' = fresh \ {removing.thread}
    /\ listing' = [listing EXCEPT !.data = left, !.error = "none"]
    /\ \E first \in IF page.selected # removing.thread THEN {page.selected}
                    ELSE IF left = {} THEN {None} ELSE left :
          page' = [page EXCEPT !.selected = first]
    /\ loading' = Asking
    /\ told' = [told EXCEPT !.removed = @ \cup {removing.thread}]
    /\ UNCHANGED <<site, making, cached, troubles>>

DeleteFails ==
    /\ removing.step \in {"asked", "done"}
    /\ removing' = NotRemoving
    /\ IF page.closed THEN UNCHANGED troubles ELSE Trouble
    /\ UNCHANGED <<site, page, listing, loading, fresh, making, cached, told>>

Selects(t) ==
    /\ page.gate = "open" /\ t \in Shown /\ t # page.selected
    /\ page' = [page EXCEPT !.selected = t]
    /\ UNCHANGED <<site, listing, loading, fresh, making, removing, cached, told, troubles>>
----------------------------------------------------------------------------
(* signOut: the client is closed, which ends its requests, and asks the    *)
(* server to forget the cookie; the queries and the cache are emptied.     *)
SignOut ==
    /\ page.gate = "open" /\ Trouble
    /\ Aborted(TRUE)
    /\ fresh' = {}
    /\ page' = [page EXCEPT !.gate = "login", !.selected = None, !.closed = TRUE,
                            !.leaving = TRUE]
    /\ listing' = Empty
    /\ loading' = Resting
    /\ cached' = [cached EXCEPT ![page.namespace] = NoList]
    /\ told' = [told EXCEPT !.lost = FALSE, !.created = {}, !.removed = {}]
    /\ UNCHANGED site

(* The answer takes the cookie away; a request that fails may have come    *)
(* through or not.                                                         *)
LeavingEnds ==
    /\ page.leaving
    /\ page' = [page EXCEPT !.leaving = FALSE]
    /\ site' \in {site, [site EXCEPT !.cookie = Nobody]}
    /\ UNCHANGED <<listing, loading, fresh, making, removing, cached, told, troubles>>

(* Bug: login does not wait for the answer to logout. *)
FaultySignIn(a) ==
    /\ page.gate = "login" /\ ~page.entering
    /\ site' = [site EXCEPT !.cookie = a]
    /\ page' = [page EXCEPT !.closed = FALSE, !.entering = TRUE]
    /\ told' = [told EXCEPT !.account = a, !.expired = FALSE]
    /\ UNCHANGED <<listing, loading, fresh, making, removing, cached, troubles>>

(* login of the client waits for the answer to logout.  (The cancellation  *)
(* of a fetch takes less than a user needs to sign in.)                    *)
MaySignIn == page.gate = "login" /\ ~page.entering /\ ~page.leaving /\ making.step # "cancelling"

SignIn(a) ==
    /\ MaySignIn
    /\ site' = [site EXCEPT !.cookie = a]
    /\ page' = [page EXCEPT !.closed = FALSE, !.entering = TRUE]
    /\ told' = [told EXCEPT !.account = a, !.expired = FALSE]
    /\ UNCHANGED <<listing, loading, fresh, making, removing, cached, troubles>>

(* The token is wrong, or the answer is lost: the client is open again.    *)
SignInFails(a) ==
    /\ MaySignIn /\ Trouble
    /\ page' = [page EXCEPT !.closed = FALSE]
    /\ \/ UNCHANGED <<site, told>>
       \/ site' = [site EXCEPT !.cookie = a] /\ told' = [told EXCEPT !.account = a]
    /\ UNCHANGED <<listing, loading, fresh, making, removing, cached>>

(* onDone: the page opens and the list is asked for again, unless it is    *)
(* asked for the first time already.  A list that was refused and has data *)
(* still has its error, and the page closes again.                         *)
SignedIn ==
    /\ page.entering
    /\ IF listing.error = "refused" /\ listing.data # NoList THEN Refuses
       ELSE /\ page' = [page EXCEPT !.entering = FALSE, !.gate = "open"]
            /\ UNCHANGED <<fresh, making, removing, cached, told>>
    /\ loading' = IF loading.step # "idle" /\ listing.data = NoList THEN loading ELSE Asking
    /\ listing' = IF listing.data = NoList THEN [listing EXCEPT !.error = "none"] ELSE listing
    /\ UNCHANGED <<site, troubles>>

(* The server forgets the cookie, or its time is over. *)
Expires ==
    /\ site.cookie # Nobody /\ Trouble
    /\ site' = [site EXCEPT !.cookie = Nobody]
    /\ told' = [told EXCEPT !.expired = TRUE]
    /\ UNCHANGED <<page, listing, loading, fresh, making, removing, cached>>

(* Another device creates or deletes a session of the account. *)
Elsewhere(t) ==
    /\ Trouble
    /\ \/ site.owner[t] = Nobody /\ site' = [site EXCEPT !.owner[t] = told.account]
       \/ t \in Have(told.account) /\ site' = [site EXCEPT !.gone = @ \cup {t}]
    /\ UNCHANGED <<page, listing, loading, fresh, making, removing, cached, told>>

Reloads ==
    /\ IF page.leaving THEN UNCHANGED troubles ELSE Trouble
    /\ page' = Loaded
    /\ listing' = Empty
    /\ loading' = Asking
    /\ fresh' = {}
    /\ making' = NotMaking
    /\ removing' = NotRemoving
    /\ told' = [told EXCEPT !.created = {}, !.removed = {}, !.lost = FALSE]
    /\ \/ UNCHANGED site
       \/ page.leaving /\ site' = [site EXCEPT !.cookie = Nobody]
    /\ UNCHANGED cached

WebSessionsNext ==
    \/ Refetch \/ ServerLists \/ ListShown \/ ListKept \/ Retries \/ ListRefused \/ ListFails
    \/ WaitsTooLong \/ Removes \/ Confirms
    \/ Creates \/ CreateAnswered \/ CreateShown \/ CreateFails
    \/ ServerDeletes \/ DeleteAnswered \/ DeleteFails
    \/ SignOut \/ LeavingEnds \/ SignedIn \/ Expires \/ Reloads
    \/ \E ok \in BOOLEAN : ListRead(ok)
    \/ \E a \in Members : SignIn(a) \/ SignInFails(a)
    \/ \E t \in Threads : ServerCreates(t) \/ Selects(t) \/ Elsewhere(t)

WebSessionsSpec == WebSessionsInit /\ [][WebSessionsNext]_webVars
----------------------------------------------------------------------------
WebSessionsOK ==
    /\ page.gate \in {"unknown", "login", "open"} /\ page.selected \in Threads \cup {None}
    /\ listing.data = NoList \/ listing.data \subseteq Threads
    /\ loading.step \in {"idle", "asking", "answered", "refused", "writing"}
    /\ fresh \subseteq Threads
    /\ site.cookie \in Members \cup {Nobody}

(* A session that was created on the page stays in its list until it is    *)
(* deleted, however the answers and the refreshes of the list overtake     *)
(* each other, unless the browser could not keep the list                  *)
(* (pendingCreatedSessions, createSession).                                *)
CreatedStays ==
    page.gate = "open" /\ ~page.cacheless =>
        \A t \in told.created : t \notin site.gone => t \in Shown

(* A session that was deleted on the page does not come back, except from  *)
(* the list that the browser kept, or by the late answer that tells of its *)
(* own creation (deleteSession).                                           *)
DeletedStays ==
    page.gate = "open" /\ ~listing.kept => told.removed \cap Shown = {}

(* After signOut nothing that is shown, created or selected is of another  *)
(* account than the one that signed in (signOut, authGeneration).          *)
PageOfAccount ==
    page.gate = "open" /\ ~told.lost =>
        \A t \in Shown \cup fresh \cup ({page.selected} \ {None}) :
            site.owner[t] = told.account

(* Whoever signs in is signed in: the answer to an earlier logout does not *)
(* take the new cookie away (login and logout of UmaClient).               *)
LoginStands ==
    (page.gate = "open" \/ page.entering) /\ ~told.expired => site.cookie = told.account
=============================================================================
