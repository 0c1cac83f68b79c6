------------------------------ MODULE Credentials ------------------------------
(***************************************************************************)
(* Who a request is made by (auth.ts and the routes below                  *)
(* /api/v16/auth of app.ts): personal tokens, sessions of browsers,        *)
(* authorization codes, and the counters that slow down logins and         *)
(* registrations.  A handler runs from its first line to its answer        *)
(* without waiting, so that every route is one step.                       *)
(***************************************************************************)
EXTENDS Naturals, Sequences, FiniteSets

CONSTANTS Places,             \* addresses requests come from, a browser at each
          Applications,       \* client ids; each has one redirect that is configured
          FailureLimit,       \* 5 in loginAllowed
          FailureWindow,      \* 60 seconds
          RegistrationLimit,  \* 3 in registrationAllowed
          RegistrationWindow, \* 24 hours
          SessionHours,       \* auth.webSessionHours
          CodeLife,           \* 5 minutes
          LastInstant, MaxTokens, MaxCookies, MaxCodes, MaxMisses  \* bounds of the model

VARIABLES
    now,      \* Date.now()
    accounts, \* users; an account is a number, in the order of creation
    tokens,   \* auth_tokens, in the order of issue; "code" is what it was exchanged for
    cookies,  \* web_sessions, in the order of creation
    browser,  \* the cookie a browser holds
    codes,    \* oauth_authorization_codes, in the order of issue
    failures, registrations,  \* the counters of AuthService
    misses, joins             \* when a login failed, when an account was made (history)

credentialVars == <<now, accounts, tokens, cookies, browser, codes, failures, registrations,
                    misses, joins>>

NoWindow == [count |-> 0, resetAt |-> 0]

CredentialsInit ==
    /\ now = 1 /\ accounts = 0
    /\ tokens = <<>> /\ cookies = <<>> /\ codes = <<>>
    /\ browser = [p \in Places |-> 0]
    /\ failures = [p \in Places |-> NoWindow] /\ registrations = [p \in Places |-> NoWindow]
    /\ misses = [p \in Places |-> <<>>] /\ joins = [p \in Places |-> <<>>]

(* findAuthToken and webSessionUser: the account, or 0.                    *)
TokenUser(t) == IF tokens[t].revoked THEN 0 ELSE tokens[t].user
CookieUser(c) ==
    IF c = 0 THEN 0
    ELSE IF ~cookies[c].stored \/ cookies[c].expires <= now THEN 0
    ELSE cookies[c].user

(* principalFromRequest: the token, and without a valid one the cookie.    *)
Principals(p) == {TokenUser(t) : t \in DOMAIN tokens} \cup {CookieUser(browser[p])}

IssueToken(user, code) ==
    /\ Len(tokens) < MaxTokens
    /\ tokens' = Append(tokens, [user |-> user, revoked |-> FALSE, code |-> code])

PutWebSession(user) ==
    cookies' = Append(cookies, [user |-> user, expires |-> now + SessionHours, stored |-> TRUE])

(* createWebSession, and the cookie of the answer.                         *)
CreateWebSession(p, user) ==
    /\ Len(cookies) < MaxCookies
    /\ PutWebSession(user)
    /\ browser' = [browser EXCEPT ![p] = Len(cookies')]
----------------------------------------------------------------------------
(* loginAllowed and registrationAllowed; recordFailure and                 *)
(* recordRegistration.                                                     *)
Allowed(window, limit) == window.resetAt <= now \/ window.count < limit

FaultyRecorded(window, length) == [count |-> 1, resetAt |-> now + length]
Recorded(window, length) ==
    IF window.resetAt <= now
    THEN [count |-> 1, resetAt |-> now + length]
    ELSE [window EXCEPT !.count = @ + 1]

(* POST /auth/register: an account, its first token and a session.         *)
Register(p) ==
    /\ Allowed(registrations[p], RegistrationLimit)
    /\ accounts' = accounts + 1
    /\ IssueToken(accounts', 0)
    /\ CreateWebSession(p, accounts')
    /\ registrations' = [registrations EXCEPT ![p] = Recorded(@, RegistrationWindow)]
    /\ joins' = [joins EXCEPT ![p] = Append(@, now)]
    /\ UNCHANGED <<now, codes, failures, misses>>

(* POST /auth/login with a token that is not valid, or with one that is.   *)
LoginFails(p) ==
    /\ Allowed(failures[p], FailureLimit)
    /\ Len(misses[p]) < MaxMisses
    /\ failures' = [failures EXCEPT ![p] = Recorded(@, FailureWindow)]
    /\ misses' = [misses EXCEPT ![p] = Append(@, now)]
    /\ UNCHANGED <<now, accounts, tokens, cookies, browser, codes, registrations, joins>>

Login(p, t) ==
    /\ Allowed(failures[p], FailureLimit)
    /\ TokenUser(t) # 0
    /\ CreateWebSession(p, TokenUser(t))
    /\ UNCHANGED <<now, accounts, tokens, codes, failures, registrations, misses, joins>>

DeleteWebSession(c) == cookies' = [cookies EXCEPT ![c].stored = FALSE]

(* POST /auth/logout deletes the session of the cookie it was sent.        *)
Logout(p) ==
    /\ browser[p] # 0
    /\ DeleteWebSession(browser[p])
    /\ browser' = [browser EXCEPT ![p] = 0]
    /\ UNCHANGED <<now, accounts, tokens, codes, failures, registrations, misses, joins>>

(* POST /auth/tokens and DELETE /auth/tokens/:id.                          *)
AddToken(user) ==
    /\ user # 0
    /\ IssueToken(user, 0)
    /\ UNCHANGED <<now, accounts, cookies, browser, codes, failures, registrations, misses, joins>>

RevokeToken(user, t) ==
    /\ user # 0 /\ tokens[t].user = user /\ ~tokens[t].revoked
    /\ tokens' = [tokens EXCEPT ![t].revoked = TRUE]
    /\ UNCHANGED <<now, accounts, cookies, browser, codes, failures, registrations, misses, joins>>

PutCode(user, application) ==
    codes' = Append(codes, [user |-> user, application |-> application,
                            expires |-> now + CodeLife, stored |-> TRUE])

(* POST /auth/authorize: a code for an application, for the challenge that *)
(* its sender made.                                                        *)
Authorize(t, application) ==
    /\ TokenUser(t) # 0
    /\ Len(codes) < MaxCodes
    /\ PutCode(TokenUser(t), application)
    /\ UNCHANGED <<now, accounts, tokens, cookies, browser, failures, registrations, misses, joins>>

(* POST /auth/token: consumeAuthorizationCode deletes the code before      *)
(* anything is compared, so that a refused exchange uses it up too.        *)
FaultyExchange(c, application, proved) ==
    /\ codes[c].stored /\ codes[c].expires > now
    /\ codes[c].application = application /\ proved
    /\ IssueToken(codes[c].user, c)
    /\ UNCHANGED <<now, accounts, cookies, browser, codes, failures, registrations, misses, joins>>
ConsumeCode(c) == codes' = [codes EXCEPT ![c].stored = FALSE]
Exchange(c, application, proved) ==
    /\ codes[c].stored
    /\ ConsumeCode(c)
    /\ IF codes[c].expires > now /\ codes[c].application = application /\ proved
       THEN IssueToken(codes[c].user, c)
       ELSE UNCHANGED tokens
    /\ UNCHANGED <<now, accounts, cookies, browser, failures, registrations, misses, joins>>

(* webSessionAuthenticated, asked of a request that changes something and  *)
(* names no origin: hasWebSession clears the sessions that have expired.   *)
ClearExpired ==
    /\ \E c \in DOMAIN cookies : cookies[c].stored /\ cookies[c].expires < now
    /\ cookies' = [c \in DOMAIN cookies |->
           [cookies[c] EXCEPT !.stored = @ /\ cookies[c].expires >= now]]
    /\ UNCHANGED <<now, accounts, tokens, browser, codes, failures, registrations, misses, joins>>

Passes ==
    /\ now < LastInstant
    /\ now' = now + 1
    /\ UNCHANGED <<accounts, tokens, cookies, browser, codes, failures, registrations, misses, joins>>

CredentialsNext ==
    \/ \E p \in Places : Register(p) \/ LoginFails(p) \/ Logout(p)
    \/ \E p \in Places, t \in DOMAIN tokens : Login(p, t)
    \/ \E p \in Places : \E user \in Principals(p) :
           AddToken(user) \/ \E t \in DOMAIN tokens : RevokeToken(user, t)
    \/ \E t \in DOMAIN tokens, a \in Applications : Authorize(t, a)
    \/ \E c \in DOMAIN codes, a \in Applications, proved \in BOOLEAN : Exchange(c, a, proved)
    \/ ClearExpired \/ Passes

CredentialsSpec == CredentialsInit /\ [][CredentialsNext]_credentialVars
----------------------------------------------------------------------------
CredentialsOK ==
    /\ now \in 1..LastInstant /\ accounts \in 0..MaxTokens
    /\ \A t \in DOMAIN tokens : tokens[t].user \in 1..accounts /\ tokens[t].revoked \in BOOLEAN
    /\ \A c \in DOMAIN cookies : cookies[c].user \in 1..accounts /\ cookies[c].stored \in BOOLEAN
    /\ \A c \in DOMAIN codes : codes[c].user \in 1..accounts /\ codes[c].stored \in BOOLEAN
    /\ browser \in [Places -> 0..Len(cookies)]

(* A code is exchanged for one token at most, of the account that          *)
(* authorized it, whatever is sent again after a lost answer               *)
(* (exchangeAuthorizationCode, consumeAuthorizationCode).                  *)
OneTokenPerCode ==
    \A t, u \in DOMAIN tokens :
        tokens[t].code # 0 =>
            /\ tokens[t].user = codes[tokens[t].code].user
            /\ tokens[u].code = tokens[t].code => u = t

(* The counters slow down what they count: from the beginning of a window  *)
(* to its end no more logins fail and no more accounts are made from a     *)
(* place than the limit says (recordFailure, recordRegistration).          *)
InWindow(times, window, length) ==
    {i \in DOMAIN times : times[i] \in (window.resetAt - length)..(window.resetAt - 1)}
AttemptsLimited ==
    \A p \in Places :
        /\ Cardinality(InWindow(misses[p], failures[p], FailureWindow)) <= FailureLimit
        /\ Cardinality(InWindow(joins[p], registrations[p], RegistrationWindow)) <= RegistrationLimit
=============================================================================
