------------------------------ MODULE BrowserWorker ------------------------------
(***************************************************************************)
(* The worker that opens pages for agents (main.ts of the browser worker): *)
(* the browser, which is launched once and again after it has died         *)
(* (browser-instance.ts), the handles of the pages with their contexts,    *)
(* their expiry, and the end of the process.  Playwright is external: what *)
(* it is asked for may fail, and a browser may die, which closes its       *)
(* contexts.  A handle is the call of "open" that made it.  A call that    *)
(* uses a handle only lets it live longer: a handle that is used may       *)
(* expire as late as it likes, so that these calls have no step.  What is  *)
(* on a page, the names that are refused and the proxy are left out.       *)
(***************************************************************************)
EXTENDS Naturals, FiniteSets

CONSTANTS Opens,        \* calls of "open"
          HandleLimit,  \* 4 in the code
          MaxBrowsers   \* bound of the model: numbers of the browsers

Browsers == 1..MaxBrowsers
NoBrowser == 0

VARIABLES
    opens,     \* each call: where it is, its browser, the handle it waits for
    handles,   \* the map of the handles
    expired,   \* those whose time is over
    contexts,  \* the context of each call, at Playwright
    current,   \* the browser in use, or none
    pending,   \* the browser that is being launched, or none
    browsers,  \* each process
    unheard,   \* browsers whose event "disconnected" is to come
    worker,    \* the process: up, or how far stop() has come
    odd        \* whether opens overlapped; whether a browser was asked for or
               \* being launched when stop() had closed the other

browserVars == <<opens, handles, expired, contexts, current, pending, browsers, unheard,
                 worker, odd>>
factory == <<current, pending, browsers>>

NewOpen == [at |-> "new", of |-> NoBrowser, waits |-> {}]
Underway == {"launching", "context", "loading"}
At(p, place) == opens[p].at = place
Goes(p, place) == opens' = [opens EXCEPT ![p].at = place]
Running == [stage |-> "up", todo |-> {}]

(* warmBrowser: the worker listens once its first browser is there. *)
BrowserInit ==
    /\ opens = [p \in Opens |-> NewOpen]
    /\ handles = {} /\ expired = {}
    /\ contexts = [p \in Opens |-> "none"]
    /\ current = 1 /\ pending = NoBrowser
    /\ browsers = [b \in Browsers |-> IF b = 1 THEN "up" ELSE "none"]
    /\ unheard = {}
    /\ worker = Running
    /\ odd = [overlapped |-> FALSE, late |-> FALSE]
----------------------------------------------------------------------------
(* get of the factory: the browser in use, or the one that is being        *)
(* launched, or a new one.                                                 *)
Connected == current # NoBrowser /\ browsers[current] = "up"

Get(b) ==
    IF Connected THEN b = current /\ UNCHANGED factory
    ELSE /\ current' = NoBrowser
         /\ IF pending # NoBrowser THEN b = pending /\ UNCHANGED <<pending, browsers>>
            ELSE /\ browsers[b] = "none" /\ \A c \in Browsers : c < b => browsers[c] # "none"
                 /\ pending' = b
                 /\ browsers' = [browsers EXCEPT ![b] = "launching"]

Launched(b) ==
    /\ browsers[b] = "launching"
    /\ browsers' = [browsers EXCEPT ![b] = "up"]
    /\ current' = b /\ pending' = NoBrowser
    /\ opens' = [p \in Opens |-> IF At(p, "launching") /\ opens[p].of = b
                                 THEN [opens[p] EXCEPT !.at = "context"] ELSE opens[p]]
    /\ UNCHANGED <<handles, expired, contexts, unheard, worker, odd>>

LaunchFails(b) ==
    /\ browsers[b] = "launching"
    /\ browsers' = [browsers EXCEPT ![b] = "down"]
    /\ pending' = NoBrowser
    /\ opens' = [p \in Opens |-> IF At(p, "launching") /\ opens[p].of = b
                                 THEN [opens[p] EXCEPT !.at = "failed"] ELSE opens[p]]
    /\ UNCHANGED <<handles, expired, contexts, current, unheard, worker, odd>>

(* A browser ends, and its contexts with it; the event comes later. *)
Gone(b) ==
    /\ browsers' = [browsers EXCEPT ![b] = "down"]
    /\ contexts' = [p \in Opens |-> IF opens[p].of = b /\ contexts[p] # "none"
                                    THEN "closed" ELSE contexts[p]]
    /\ unheard' = unheard \cup {b}

Dies(b) ==
    /\ browsers[b] = "up"
    /\ Gone(b)
    /\ UNCHANGED <<opens, handles, expired, current, pending, worker, odd>>

(* Bug: whichever browser is in use is given up. *)
FaultyDisconnected(b) ==
    /\ b \in unheard
    /\ unheard' = unheard \ {b}
    /\ current' = NoBrowser
    /\ UNCHANGED <<opens, handles, expired, contexts, pending, browsers, worker, odd>>

Disconnected(b) ==
    /\ b \in unheard
    /\ unheard' = unheard \ {b}
    /\ current' = IF current = b THEN NoBrowser ELSE current
    /\ UNCHANGED <<opens, handles, expired, contexts, pending, browsers, worker, odd>>

(* /health asks for the browser too. *)
Health(b) ==
    /\ worker.stage # "over" /\ ~Connected
    /\ Get(b)
    /\ UNCHANGED <<opens, handles, expired, contexts, unheard, worker, odd>>
----------------------------------------------------------------------------
(* Bug: the handle is there until its context is closed. *)
FaultyCloses(hs) ==
    /\ UNCHANGED handles
    /\ contexts' = [p \in Opens |-> IF p \in hs /\ contexts[p] = "open" THEN "closing"
                                    ELSE contexts[p]]

(* closeHandle, of one or several: nobody finds the handle any more, and   *)
(* its context is closed.                                                  *)
Closes(hs) ==
    /\ handles' = handles \ hs
    /\ contexts' = [p \in Opens |-> IF p \in hs /\ contexts[p] = "open" THEN "closing"
                                    ELSE contexts[p]]

(* "open": a name that is not public is refused.  Then what has expired is *)
(* closed, one after the other.                                            *)
Opening(p) ==
    /\ At(p, "new") /\ worker.stage # "over"
    /\ Goes(p, "sweeping") \/ Goes(p, "failed")
    /\ UNCHANGED <<handles, expired, contexts, factory, unheard, worker, odd>>

Sweeps(p) ==
    /\ At(p, "sweeping") /\ \A h \in opens[p].waits : contexts[h] = "closed"
    /\ \E h \in handles \cap expired :
          /\ Closes({h})
          /\ opens' = [opens EXCEPT ![p].waits = {h}]
    /\ UNCHANGED <<expired, factory, unheard, worker, odd>>

(* The limit is looked at before the awaits that make the handle. *)
Counts(p) ==
    /\ At(p, "sweeping") /\ \A h \in opens[p].waits : contexts[h] = "closed"
    /\ handles \cap expired = {}
    /\ IF Cardinality(handles) >= HandleLimit
       THEN Goes(p, "failed") /\ UNCHANGED <<factory, odd>>
       ELSE \E b \in Browsers :
              /\ Get(b)
              /\ opens' = [opens EXCEPT ![p] = [at |-> IF Connected THEN "context" ELSE "launching",
                                                of |-> b, waits |-> {}]]
              /\ odd' = [overlapped |-> odd.overlapped \/ \E q \in Opens : opens[q].at \in Underway,
                         late |-> odd.late \/ worker.stage = "over"]
    /\ UNCHANGED <<handles, expired, contexts, unheard, worker>>

ContextMade(p) ==
    /\ At(p, "context")
    /\ IF browsers[opens[p].of] = "up"
       THEN Goes(p, "loading") /\ contexts' = [contexts EXCEPT ![p] = "open"]
       ELSE Goes(p, "failed") /\ UNCHANGED contexts
    /\ UNCHANGED <<handles, expired, factory, unheard, worker, odd>>

(* The page is there.  The title of the page is asked for after the handle *)
(* is in the map, so that an error may hide a handle from its caller.      *)
Loaded(p) ==
    /\ At(p, "loading") /\ contexts[p] = "open"
    /\ handles' = handles \cup {p}
    /\ Goes(p, "done")
    /\ UNCHANGED <<expired, contexts, factory, unheard, worker, odd>>

(* The navigation fails or takes too long: nothing closes the context. *)
LoadFails(p) ==
    /\ At(p, "loading")
    /\ Goes(p, "failed")
    /\ UNCHANGED <<handles, expired, contexts, factory, unheard, worker, odd>>

Expires(p) ==
    /\ p \in handles \ expired
    /\ expired' = expired \cup {p}
    /\ UNCHANGED <<opens, handles, contexts, factory, unheard, worker, odd>>

(* "close", of a handle that may have expired. *)
CloseCalled(p) ==
    /\ p \in handles /\ worker.stage # "over"
    /\ Closes({p})
    /\ UNCHANGED <<opens, expired, factory, unheard, worker, odd>>

(* The interval that looks for handles that have expired. *)
Interval ==
    /\ worker.stage = "up" /\ handles \cap expired # {}
    /\ Closes(handles \cap expired)
    /\ UNCHANGED <<opens, expired, factory, unheard, worker, odd>>

ContextCloses(p) ==
    /\ contexts[p] = "closing"
    /\ contexts' = [contexts EXCEPT ![p] = "closed"]
    /\ UNCHANGED <<opens, handles, expired, factory, unheard, worker, odd>>
----------------------------------------------------------------------------
(* stop: the handles there are, one after the other, then the browser.     *)
(* The server still listens meanwhile.                                     *)
Stop ==
    /\ worker.stage = "up"
    /\ worker' = [stage |-> "handles", todo |-> handles]
    /\ UNCHANGED <<opens, handles, expired, contexts, factory, unheard, odd>>

StopsHandle ==
    /\ worker.stage = "handles" /\ \A p \in Opens : contexts[p] # "closing"
    /\ \E h \in worker.todo :
          Closes({h} \cap handles) /\ worker' = [worker EXCEPT !.todo = @ \ {h}]
    /\ UNCHANGED <<opens, expired, factory, unheard, odd>>

(* Bug: the browser is left to the end of the process. *)
FaultyStopsBrowser ==
    /\ worker.stage = "handles" /\ worker.todo = {}
    /\ current' = NoBrowser
    /\ worker' = [worker EXCEPT !.stage = "over"]
    /\ odd' = [odd EXCEPT !.late = @ \/ pending # NoBrowser]
    /\ UNCHANGED <<opens, handles, expired, contexts, unheard, pending, browsers>>

StopsBrowser ==
    /\ worker.stage = "handles" /\ worker.todo = {}
    /\ IF current = NoBrowser \/ browsers[current] # "up"
       THEN UNCHANGED <<browsers, contexts, unheard>>
       ELSE Gone(current)
    /\ current' = NoBrowser
    /\ worker' = [worker EXCEPT !.stage = "over"]
    /\ odd' = [odd EXCEPT !.late = @ \/ pending # NoBrowser]
    /\ UNCHANGED <<opens, handles, expired, pending>>

BrowserNext ==
    \/ Interval \/ Stop \/ StopsHandle \/ StopsBrowser
    \/ \E b \in Browsers : Launched(b) \/ LaunchFails(b) \/ Dies(b) \/ Disconnected(b) \/ Health(b)
    \/ \E p \in Opens :
          \/ Opening(p) \/ Sweeps(p) \/ Counts(p) \/ ContextMade(p) \/ Loaded(p) \/ LoadFails(p)
          \/ Expires(p) \/ CloseCalled(p) \/ ContextCloses(p)

BrowserSpec == BrowserInit /\ [][BrowserNext]_browserVars
----------------------------------------------------------------------------
BrowserOK ==
    /\ \A p \in Opens : opens[p].at \in Underway \cup {"new", "sweeping", "done", "failed"}
    /\ handles \subseteq Opens /\ current \in Browsers \cup {NoBrowser}
    /\ pending \in Browsers \cup {NoBrowser} /\ unheard \subseteq Browsers

(* However calls, deaths and late events meet, one browser is launched at  *)
(* a time and none beside one that works (createBrowserInstanceFactory).   *)
OneBrowser == Cardinality({b \in Browsers : browsers[b] \in {"launching", "up"}}) <= 1

(* Who finds a handle finds its page, unless its browser has died, and a   *)
(* context that is open has a handle or a call that works on it, except    *)
(* those of pages that could not be opened (closeHandle, open).            *)
HandleHasPage ==
    \A p \in Opens :
        /\ p \in handles => contexts[p] = "open" \/ browsers[opens[p].of] = "down"
        /\ contexts[p] = "open" => p \in handles \/ opens[p].at \in {"loading", "failed"}

(* There are no more handles than the limit, unless two calls were between *)
(* the look at the limit and their handle.                                 *)
HandlesLimited == odd.overlapped \/ Cardinality(handles) <= HandleLimit

(* After stop no browser is left, unless one was being launched, or was    *)
(* asked for by a call that was under way.                                 *)
NoneLeft ==
    worker.stage = "over" /\ ~odd.late => \A b \in Browsers : browsers[b] \notin {"launching", "up"}
=============================================================================
