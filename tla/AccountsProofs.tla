----------------------------- MODULE AccountsProofs -----------------------------
(***************************************************************************)
(* The safety properties of what accounts are given and may do, for every  *)
(* value of the constants: the permissions that calls and plans ask for    *)
(* (Approvals), the attempts, tokens and codes of a login (Credentials),   *)
(* the files a proposal changes and takes back (Optimization) and the      *)
(* packages of skills (SkillPackages).                                     *)
(*                                                                         *)
(* Each part has an inductive invariant of its own, stated before its      *)
(* lemmas.  The constants of Credentials, Optimization and SkillPackages   *)
(* have no assumption in their modules, which are instantiated; what the   *)
(* proofs need of them is CredentialLimits, PathsGiven and SkillLimits.    *)
(***************************************************************************)
EXTENDS Approvals, Credentials, Optimization, SkillPackages, FiniteSetTheorems, TLAPS

(***************************************************************************)
(* Approvals.  To the properties PermitInv adds where the row of a call is *)
(* while nobody has been told (Open), and that what waits is what the      *)
(* policy does not answer.                                                 *)
(***************************************************************************)
(* A call whose row is pending has not been told anything.                 *)
Open == \A c \in Calls : row[c] = "pending" => answer[c] = "none"

PermitInv == ApprovalsOK /\ Open /\ AnswerFitsRow /\ PolicyAnswers /\ auto \in [Owners -> BOOLEAN]
----------------------------------------------------------------------------
LEMMA InitPermit == ApprovalsInit => PermitInv
BY DEF ApprovalsInit, PermitInv, ApprovalsOK, Open, AnswerFitsRow, PolicyAnswers, AwaitingPlans

(* Whatever settles rows tells the calls that wait for them the same.      *)
LEMMA ToldKeeps ==
  ASSUME ApprovalsOK, Open, AnswerFitsRow, NEW S,
         NEW status \in {"approved", "denied", "expired"}, NEW to \in {"yes", "no"},
         status = "approved" <=> to = "yes", Told(S, status, to)
  PROVE  /\ row' \in [Calls -> {"none", "pending", "approved", "denied", "expired"}]
         /\ answer' \in [Calls -> {"none", "yes", "no"}]
         /\ waiting' \subseteq waiting
         /\ Open' /\ AnswerFitsRow'
<1>1. /\ row' = [c \in Calls |-> IF c \in S /\ row[c] = "pending" THEN status ELSE row[c]]
      /\ answer' = [c \in Calls |-> IF c \in S \cap waiting THEN to ELSE answer[c]]
      /\ waiting' = waiting \ S
  BY DEF Told, Settled, Answered
<1>2. /\ row \in [Calls -> {"none", "pending", "approved", "denied", "expired"}]
      /\ answer \in [Calls -> {"none", "yes", "no"}]
      /\ waiting \subseteq Calls
  BY DEF ApprovalsOK
<1>3. \A c \in Calls : row'[c] = IF c \in S /\ row[c] = "pending" THEN status ELSE row[c]
  BY <1>1
<1>4. \A c \in Calls : answer'[c] = IF c \in S /\ c \in waiting THEN to ELSE answer[c]
  BY <1>1
<1>5. /\ row' \in [Calls -> {"none", "pending", "approved", "denied", "expired"}]
      /\ answer' \in [Calls -> {"none", "yes", "no"}]
  BY <1>1, <1>2
<1>6. Open'
  BY <1>2, <1>3, <1>4 DEF Open, AnswerFitsRow
<1>7. AnswerFitsRow'
  BY <1>1, <1>2, <1>3, <1>4 DEF Open, AnswerFitsRow
<1> QED BY <1>1, <1>5, <1>6, <1>7
(* Plans that do not begin to wait, and an account whose policy is not      *)
(* switched on, leave the policy's word kept.                               *)
LEMMA PolicyKeeps ==
  ASSUME PolicyAnswers, waiting' \subseteq waiting, auto' = auto, cut' = cut,
         \A p \in Plans : plan'[p] = "awaiting" => plan[p] = "awaiting"
  PROVE  PolicyAnswers'
BY DEF PolicyAnswers, AwaitingPlans

LEMMA SwitchKeeps ==
  ASSUME PermitInv, NEW u \in Owners, NEW on \in BOOLEAN, Switch(u, on)
  PROVE  PermitInv'
<1>1. /\ ApprovalsOK /\ Open /\ AnswerFitsRow /\ PolicyAnswers /\ auto \in [Owners -> BOOLEAN]
      /\ auto' = [auto EXCEPT ![u] = on] /\ UNCHANGED <<aborted, process, cut>>
  BY DEF PermitInv, Switch, SetExecutionSettings
<1>2. auto' \in [Owners -> BOOLEAN] /\ \A v \in Owners : auto'[v] = IF v = u THEN on ELSE auto[v]
  BY <1>1
<1>3. CASE ~on
  <2>1. UNCHANGED <<row, waiting, answer, plan>>
    BY <1>3 DEF Switch
  <2>2. ApprovalsOK' /\ Open' /\ AnswerFitsRow'
    BY <1>1, <2>1 DEF ApprovalsOK, Open, AnswerFitsRow
  <2>3. PolicyAnswers'
    BY <1>1, <1>2, <1>3, <2>1 DEF PolicyAnswers, AwaitingPlans
  <2> QED BY <1>2, <2>2, <2>3 DEF PermitInv
<1>4. CASE on
  <2>1. /\ Told(PendingCalls(u), "approved", "yes")
        /\ plan' = [p \in Plans |-> IF p \in AwaitingPlans(u) THEN "queued" ELSE plan[p]]
    BY <1>4 DEF Switch
  <2>2. /\ row' \in [Calls -> {"none", "pending", "approved", "denied", "expired"}]
        /\ answer' \in [Calls -> {"none", "yes", "no"}]
        /\ waiting' \subseteq waiting /\ Open' /\ AnswerFitsRow'
    BY <1>1, <2>1, ToldKeeps
  <2>3. waiting' = waiting \ PendingCalls(u)
    BY <2>1 DEF Told
  <2>4. \A p \in Plans : plan'[p] = IF p \in AwaitingPlans(u) THEN "queued" ELSE plan[p]
    BY <2>1
  <2>5. plan' \in [Plans -> {"none", "awaiting", "queued", "running"}]
    BY <1>1, <2>1 DEF ApprovalsOK
  <2>6. ApprovalsOK'
    BY <1>1, <2>2, <2>5 DEF ApprovalsOK
  <2>7. \A c \in waiting' : OwnerOf[c] # u
    BY <1>1, <2>3 DEF PendingCalls, ApprovalsOK, AnswerFitsRow
  <2>8. AwaitingPlans(u)' = {}
    BY <2>4 DEF AwaitingPlans
  <2>9. \A v \in Owners : v # u /\ AwaitingPlans(v) = {} => AwaitingPlans(v)' = {}
    BY <2>4 DEF AwaitingPlans
  <2>10. PolicyAnswers'
    BY <1>1, <1>2, <2>2, <2>7, <2>8, <2>9 DEF PolicyAnswers
  <2> QED BY <1>2, <2>2, <2>6, <2>10 DEF PermitInv
<1> QED BY <1>3, <1>4

(* The process dies with part of what the policy answers written down:     *)
(* nobody is told, and nobody waits any more.                              *)
LEMMA SwitchCutKeeps ==
  ASSUME PermitInv, NEW u \in Owners, SwitchCut(u)
  PROVE  PermitInv'
<1>1. ApprovalsOK /\ Open /\ AnswerFitsRow /\ auto \in [Owners -> BOOLEAN]
  BY DEF PermitInv
<1>2. PICK S \in SUBSET PendingCalls(u), T \in SUBSET AwaitingPlans(u) :
        /\ row' = Settled(S, "approved")
        /\ plan' = [p \in Plans |-> IF p \in T THEN "queued" ELSE plan[p]]
  BY DEF SwitchCut
<1>3. /\ auto' = [auto EXCEPT ![u] = TRUE] /\ cut' = TRUE /\ waiting' = {}
      /\ UNCHANGED <<answer, aborted>>
  BY DEF SwitchCut, SetExecutionSettings
<1>4. \A c \in Calls : row'[c] = IF c \in S /\ row[c] = "pending" THEN "approved" ELSE row[c]
  BY <1>2 DEF Settled
<1>5. ApprovalsOK'
  BY <1>1, <1>2, <1>3 DEF ApprovalsOK, Settled
<1>6. Open' /\ AnswerFitsRow'
  BY <1>1, <1>3, <1>4 DEF Open, AnswerFitsRow
<1>7. PolicyAnswers' /\ auto' \in [Owners -> BOOLEAN]
  BY <1>1, <1>3 DEF PolicyAnswers
<1> QED BY <1>5, <1>6, <1>7 DEF PermitInv

LEMMA RequestKeeps ==
  ASSUME PermitInv, NEW c \in Calls, Request(c)
  PROVE  PermitInv'
<1>1. ApprovalsOK /\ Open /\ AnswerFitsRow /\ PolicyAnswers /\ auto \in [Owners -> BOOLEAN]
  BY DEF PermitInv
<1>2. row[c] = "none" /\ answer[c] = "none" /\ c \notin waiting
      /\ UNCHANGED <<aborted, auto, plan, process, cut, count>>
  BY <1>1 DEF Request, AnswerFitsRow
<1>3. CASE c \in aborted \/ auto[OwnerOf[c]]
  <2>1. PICK to \in {"yes", "no"} : answer' = [answer EXCEPT ![c] = to]
    BY <1>3 DEF Request
  <2>2. UNCHANGED <<row, waiting>>
    BY <1>3 DEF Request
  <2>3. ApprovalsOK' /\ Open' /\ AnswerFitsRow'
    BY <1>1, <1>2, <2>1, <2>2 DEF ApprovalsOK, Open, AnswerFitsRow
  <2>4. PolicyAnswers'
    BY <1>1, <1>2, <2>2, PolicyKeeps
  <2> QED BY <1>1, <1>2, <2>3, <2>4 DEF PermitInv
<1>4. CASE ~(c \in aborted \/ auto[OwnerOf[c]])
  <2>1. row' = [row EXCEPT ![c] = "pending"] /\ waiting' = waiting \cup {c} /\ answer' = answer
    BY <1>4 DEF Request, CreateApproval
  <2>2. ApprovalsOK' /\ Open' /\ AnswerFitsRow'
    BY <1>1, <1>2, <2>1 DEF ApprovalsOK, Open, AnswerFitsRow
  <2>3. PolicyAnswers'
    BY <1>1, <1>2, <1>4, <2>1 DEF PolicyAnswers, AwaitingPlans
  <2> QED BY <1>1, <1>2, <2>2, <2>3 DEF PermitInv
<1> QED BY <1>3, <1>4

LEMMA NextPermit == PermitInv /\ [ApprovalsNext]_approvalVars => PermitInv'
<1> SUFFICES ASSUME PermitInv, [ApprovalsNext]_approvalVars PROVE PermitInv'
  OBVIOUS
<1>1. ApprovalsOK /\ Open /\ AnswerFitsRow /\ PolicyAnswers /\ auto \in [Owners -> BOOLEAN]
  BY DEF PermitInv
<1>2. ASSUME NEW S, NEW status \in {"approved", "denied", "expired"}, NEW to \in {"yes", "no"},
             status = "approved" <=> to = "yes", Told(S, status, to),
             aborted' \subseteq Calls, UNCHANGED <<auto, plan, cut>>
      PROVE  PermitInv'
  <2>1. /\ row' \in [Calls -> {"none", "pending", "approved", "denied", "expired"}]
        /\ answer' \in [Calls -> {"none", "yes", "no"}]
        /\ waiting' \subseteq waiting /\ Open' /\ AnswerFitsRow'
    BY <1>1, <1>2, ToldKeeps
  <2>2. ApprovalsOK'
    BY <1>1, <1>2, <2>1 DEF ApprovalsOK
  <2>3. PolicyAnswers'
    BY <1>1, <1>2, <2>1, PolicyKeeps
  <2> QED BY <1>1, <1>2, <2>1, <2>2, <2>3 DEF PermitInv
<1>3. ASSUME NEW c \in Calls, NEW ok \in BOOLEAN, Resolve(c, ok) PROVE PermitInv'
  BY <1>1, <1>2, <1>3 DEF Resolve, ApprovalsOK
<1>4. ASSUME NEW c \in Calls, Expire(c) PROVE PermitInv'
  BY <1>1, <1>2, <1>4 DEF Expire, ApprovalsOK
<1>5. ASSUME NEW c \in Calls, Abort(c) PROVE PermitInv'
  BY <1>1, <1>2, <1>5 DEF Abort, ApprovalsOK
<1>6. CASE Stop
  BY <1>2, <1>6 DEF Stop
<1>7. ASSUME plan' \in [Plans -> {"none", "awaiting", "queued", "running"}],
             waiting' \subseteq waiting, UNCHANGED <<row, answer, aborted, auto, cut>>,
             \A p \in Plans : plan'[p] = "awaiting" =>
                 plan[p] = "awaiting" \/ ~auto[OwnerOf[p]]
      PROVE  PermitInv'
  <2>1. ApprovalsOK' /\ Open' /\ AnswerFitsRow'
    BY <1>1, <1>7 DEF ApprovalsOK, Open, AnswerFitsRow
  <2>2. PolicyAnswers'
    BY <1>1, <1>7 DEF PolicyAnswers, AwaitingPlans
  <2> QED BY <1>1, <1>7, <2>1, <2>2 DEF PermitInv
<1>8. ASSUME NEW p \in Plans, AskPlan(p) \/ ConfirmPlan(p) PROVE PermitInv'
  BY <1>1, <1>7, <1>8 DEF AskPlan, ConfirmPlan, ApprovalsOK
<1>9. CASE Dies \/ Start \/ UNCHANGED approvalVars
  BY <1>1, <1>7, <1>9 DEF Dies, Start, approvalVars, ApprovalsOK
<1> QED BY <1>3, <1>4, <1>5, <1>6, <1>8, <1>9, RequestKeeps, SwitchKeeps, SwitchCutKeeps
        DEF ApprovalsNext

(* What a call was told is what its row says, however the user, the policy, *)
(* the timer, the run and stop race, and an account that approves           *)
(* everything leaves nothing waiting (RunApprovals,                         *)
(* updateExecutionSettings).                                                *)
THEOREM AnswersAgree == ApprovalsSpec => [](ApprovalsOK /\ AnswerFitsRow /\ PolicyAnswers)
<1>1. PermitInv => ApprovalsOK /\ AnswerFitsRow /\ PolicyAnswers
  BY DEF PermitInv
<1> QED BY InitPermit, NextPermit, <1>1, PTL DEF ApprovalsSpec
----------------------------------------------------------------------------
(***************************************************************************)
(* Credentials.  CredentialsInv adds what a counter knows of the attempts  *)
(* in its window (Counted), and what the tables hold.                      *)
(***************************************************************************)
(* The limits, windows and bounds are numbers, and nothing is counted in a  *)
(* window of no length.                                                     *)
CredentialLimits ==
    /\ FailureLimit \in Nat \ {0} /\ RegistrationLimit \in Nat \ {0}
    /\ FailureWindow \in Nat \ {0} /\ RegistrationWindow \in Nat \ {0}
    /\ SessionHours \in Nat /\ CodeLife \in Nat /\ MaxTokens \in Nat
    /\ LastInstant \in Nat \ {0}

Window == [count : Nat, resetAt : Nat]
TokenRow == [user : Nat, revoked : BOOLEAN, code : Nat]
CookieRow == [user : Nat, expires : Nat, stored : BOOLEAN]
CodeRow == [user : Nat, application : Applications, expires : Nat, stored : BOOLEAN]

(* A counter has counted what happened in its window, and nothing happened  *)
(* after the end of it.                                                     *)
Counted(times, window, length, limit) ==
    /\ times \in Seq(Nat) /\ window \in Window
    /\ window.count <= limit
    /\ \A i \in DOMAIN times : times[i] < window.resetAt
    /\ Cardinality(InWindow(times, window, length)) <= window.count

CountersInv ==
    /\ failures \in [Places -> Window] /\ registrations \in [Places -> Window]
    /\ misses \in [Places -> Seq(Nat)] /\ joins \in [Places -> Seq(Nat)]
    /\ \A p \in Places :
           /\ Counted(misses[p], failures[p], FailureWindow, FailureLimit)
           /\ Counted(joins[p], registrations[p], RegistrationWindow, RegistrationLimit)

(* Every account has a token, and a code that gave a token is used up.      *)
TablesInv ==
    /\ tokens \in Seq(TokenRow)
    /\ cookies \in Seq(CookieRow)
    /\ codes \in Seq(CodeRow)
    /\ accounts \in Nat /\ accounts <= Len(tokens) /\ Len(tokens) <= MaxTokens
    /\ \A t \in DOMAIN tokens : tokens[t].code # 0 =>
           tokens[t].code \in DOMAIN codes /\ ~codes[tokens[t].code].stored

CredentialsInv == CredentialsOK /\ TablesInv /\ OneTokenPerCode /\ CountersInv
----------------------------------------------------------------------------
LEMMA InWindowFinite ==
  ASSUME NEW times \in Seq(Nat), NEW window, NEW length
  PROVE  IsFiniteSet(InWindow(times, window, length))
<1>1. IsFiniteSet(1..Len(times))
  BY FS_Interval
<1>2. InWindow(times, window, length) \subseteq 1..Len(times)
  BY DEF InWindow
<1> QED BY <1>1, <1>2, FS_Subset

(* What is counted within the limits leaves the counter within them: a      *)
(* window that has ended is begun anew, and one that has not has room.      *)
LEMMA RecordedCounts ==
  ASSUME NEW times, NEW window, NEW length \in Nat \ {0}, NEW limit \in Nat \ {0},
         Counted(times, window, length, limit), Allowed(window, limit), now \in Nat
  PROVE  Counted(Append(times, now), Recorded(window, length), length, limit)
<1> DEFINE later == Append(times, now)
           counter == Recorded(window, length)
<1>1. /\ times \in Seq(Nat) /\ window \in Window /\ window.count \in Nat /\ window.resetAt \in Nat
      /\ window.count <= limit
      /\ Cardinality(InWindow(times, window, length)) <= window.count
      /\ \A i \in 1..Len(times) : times[i] < window.resetAt
  BY DEF Counted, Window
<1>2. /\ later \in Seq(Nat) /\ Len(later) = Len(times) + 1 /\ later[Len(times) + 1] = now
      /\ \A i \in 1..Len(times) : later[i] = times[i]
      /\ \A i \in 1..Len(times) : times[i] \in Nat
      /\ Len(times) \in Nat
      /\ DOMAIN later = 1..(Len(times) + 1)
  BY <1>1
<1>3. CASE window.resetAt <= now
  <2>1. counter = [count |-> 1, resetAt |-> now + length]
    BY <1>3 DEF Recorded
  <2>2. counter.count = 1 /\ counter.resetAt = now + length /\ counter \in Window
    BY <2>1 DEF Window
  <2>3. InWindow(later, counter, length) \subseteq {Len(times) + 1}
    BY <1>1, <1>2, <1>3, <2>2 DEF InWindow
  <2>4. Cardinality({Len(times) + 1}) = 1 /\ IsFiniteSet({Len(times) + 1})
    BY FS_Singleton
  <2>5. Cardinality(InWindow(later, counter, length)) <= 1
    BY <2>3, <2>4, FS_Subset
  <2>6. \A i \in DOMAIN later : later[i] < counter.resetAt
    BY <1>1, <1>2, <1>3, <2>2
  <2> QED BY <1>2, <2>2, <2>5, <2>6 DEF Counted
<1>4. CASE ~(window.resetAt <= now)
  <2>1. counter = [window EXCEPT !.count = @ + 1] /\ window.count < limit
    BY <1>1, <1>4 DEF Recorded, Allowed
  <2>2. /\ counter.count = window.count + 1 /\ counter.resetAt = window.resetAt
    BY <1>1, <2>1 DEF Window
  <2>3. counter \in Window
    BY <1>1, <2>1, <2>2 DEF Window
  <2>4. InWindow(later, counter, length) \subseteq InWindow(times, window, length) \cup {Len(times) + 1}
    BY <1>1, <1>2, <2>2 DEF InWindow
  <2> DEFINE before == InWindow(times, window, length)
  <2>5. IsFiniteSet(before) /\ Cardinality(before) \in Nat
    BY <1>1, InWindowFinite, FS_CardinalityType
  <2>6. IsFiniteSet(before \cup {Len(times) + 1})
        /\ Cardinality(before \cup {Len(times) + 1}) <= Cardinality(before) + 1
    <3>1. /\ IsFiniteSet(before \cup {Len(times) + 1})
          /\ Cardinality(before \cup {Len(times) + 1}) =
               IF Len(times) + 1 \in before THEN Cardinality(before) ELSE Cardinality(before) + 1
      BY <2>5, FS_AddElement
    <3> QED BY <2>5, <3>1
  <2>7. /\ Cardinality(InWindow(later, counter, length)) <= Cardinality(before \cup {Len(times) + 1})
        /\ IsFiniteSet(InWindow(later, counter, length))
    BY <2>4, <2>6, FS_Subset
  <2>8. /\ Cardinality(InWindow(later, counter, length)) \in Nat
        /\ Cardinality(before \cup {Len(times) + 1}) \in Nat
    BY <2>6, <2>7, FS_CardinalityType
  <2>9. Cardinality(InWindow(later, counter, length)) <= counter.count
    BY <1>1, <2>2, <2>5, <2>6, <2>7, <2>8
  <2>10. \A i \in DOMAIN later : later[i] < counter.resetAt
    BY <1>1, <1>2, <1>4, <2>2
  <2>11. counter.count <= limit
    BY <1>1, <2>1, <2>2
  <2> QED BY <1>2, <2>3, <2>9, <2>10, <2>11 DEF Counted
<1> QED BY <1>3, <1>4

LEMMA InitCredentials == ASSUME CredentialLimits, CredentialsInit PROVE CredentialsInv
<1> USE DEF CredentialLimits, CredentialsInit
<1>1. CredentialsOK /\ TablesInv /\ OneTokenPerCode
  BY DEF CredentialsOK, TablesInv, OneTokenPerCode
<1>2. NoWindow \in Window /\ NoWindow.count = 0
  BY DEF NoWindow, Window
<1>3. ASSUME NEW length \in Nat \ {0}, NEW limit \in Nat \ {0}
      PROVE  Counted(<<>>, NoWindow, length, limit)
  <2>1. InWindow(<<>>, NoWindow, length) = {}
    BY DEF InWindow
  <2>2. Cardinality({}) = 0
    BY FS_EmptySet
  <2>3. NoWindow.count <= limit /\ 0 <= NoWindow.count
    BY <1>2, <1>3
  <2>4. <<>> \in Seq(Nat) /\ DOMAIN <<>> = {}
    OBVIOUS
  <2> QED BY <1>2, <2>1, <2>2, <2>3, <2>4 DEF Counted
<1>4. CountersInv
  BY <1>2, <1>3 DEF CountersInv
<1> QED BY <1>1, <1>4 DEF CredentialsInv

LEMMA CountersKept ==
  ASSUME CredentialLimits, CountersInv, now \in Nat,
         NEW p \in Places,
         \/ UNCHANGED <<failures, misses>>
         \/ /\ Allowed(failures[p], FailureLimit)
            /\ failures' = [failures EXCEPT ![p] = Recorded(@, FailureWindow)]
            /\ misses' = [misses EXCEPT ![p] = Append(@, now)],
         \/ UNCHANGED <<registrations, joins>>
         \/ /\ Allowed(registrations[p], RegistrationLimit)
            /\ registrations' = [registrations EXCEPT ![p] = Recorded(@, RegistrationWindow)]
            /\ joins' = [joins EXCEPT ![p] = Append(@, now)]
  PROVE  CountersInv'
<1> USE DEF CredentialLimits
<1>1. /\ failures' \in [Places -> Window] /\ misses' \in [Places -> Seq(Nat)]
      /\ \A q \in Places : Counted(misses[q], failures[q], FailureWindow, FailureLimit)'
  <2>1. CASE UNCHANGED <<failures, misses>>
    BY <2>1 DEF CountersInv, Counted, InWindow
  <2>2. CASE /\ Allowed(failures[p], FailureLimit)
             /\ failures' = [failures EXCEPT ![p] = Recorded(@, FailureWindow)]
             /\ misses' = [misses EXCEPT ![p] = Append(@, now)]
    <3>1. Counted(Append(misses[p], now), Recorded(failures[p], FailureWindow),
                  FailureWindow, FailureLimit)
      BY <2>2, RecordedCounts DEF CountersInv
    <3>2. \A q \in Places : /\ failures'[q] = IF q = p THEN Recorded(failures[p], FailureWindow)
                                              ELSE failures[q]
                            /\ misses'[q] = IF q = p THEN Append(misses[p], now) ELSE misses[q]
      BY <2>2 DEF CountersInv
    <3>3. \A q \in Places : Counted(misses'[q], failures'[q], FailureWindow, FailureLimit)
      BY <3>1, <3>2 DEF CountersInv
    <3>4. failures' \in [Places -> Window] /\ misses' \in [Places -> Seq(Nat)]
      BY <2>2, <3>1 DEF CountersInv, Counted
    <3> QED BY <3>3, <3>4 DEF Counted, InWindow
  <2> QED BY <2>1, <2>2
<1>2. /\ registrations' \in [Places -> Window] /\ joins' \in [Places -> Seq(Nat)]
      /\ \A q \in Places : Counted(joins[q], registrations[q], RegistrationWindow, RegistrationLimit)'
  <2>1. CASE UNCHANGED <<registrations, joins>>
    BY <2>1 DEF CountersInv, Counted, InWindow
  <2>2. CASE /\ Allowed(registrations[p], RegistrationLimit)
             /\ registrations' = [registrations EXCEPT ![p] = Recorded(@, RegistrationWindow)]
             /\ joins' = [joins EXCEPT ![p] = Append(@, now)]
    <3>1. Counted(Append(joins[p], now), Recorded(registrations[p], RegistrationWindow),
                  RegistrationWindow, RegistrationLimit)
      BY <2>2, RecordedCounts DEF CountersInv
    <3>2. \A q \in Places :
             /\ registrations'[q] = IF q = p THEN Recorded(registrations[p], RegistrationWindow)
                                    ELSE registrations[q]
             /\ joins'[q] = IF q = p THEN Append(joins[p], now) ELSE joins[q]
      BY <2>2 DEF CountersInv
    <3>3. \A q \in Places : Counted(joins'[q], registrations'[q], RegistrationWindow, RegistrationLimit)
      BY <3>1, <3>2 DEF CountersInv
    <3>4. registrations' \in [Places -> Window] /\ joins' \in [Places -> Seq(Nat)]
      BY <2>2, <3>1 DEF CountersInv, Counted
    <3> QED BY <3>3, <3>4 DEF Counted, InWindow
  <2> QED BY <2>1, <2>2
<1> QED BY <1>1, <1>2 DEF CountersInv

(* Tables that only grow, and tokens and codes of which nothing but the     *)
(* state changes, keep what is said of them.                                *)
TablesAll == CredentialsOK /\ TablesInv /\ OneTokenPerCode

LEMMA RowsOfTables ==
  ASSUME TablesAll
  PROVE  /\ \A t \in DOMAIN tokens : tokens[t] \in TokenRow
         /\ \A t \in DOMAIN tokens : TokenUser(t) \in 0..accounts
         /\ \A c \in DOMAIN cookies : cookies[c].user \in 1..accounts
         /\ \A p \in Places : CookieUser(browser[p]) \in 0..accounts
         /\ \A p \in Places : Principals(p) \subseteq 0..accounts
<1>1. \A t \in DOMAIN tokens : tokens[t] \in TokenRow
  BY DEF TablesAll, TablesInv
<1>2. accounts \in Nat
  BY DEF TablesAll, TablesInv
<1>3. \A t \in DOMAIN tokens : TokenUser(t) \in 0..accounts
  BY <1>2 DEF TablesAll, CredentialsOK, TokenUser
<1>4. \A c \in DOMAIN cookies : cookies[c].user \in 1..accounts
  BY DEF TablesAll, CredentialsOK
<1>5. \A p \in Places : browser[p] = 0 \/ browser[p] \in DOMAIN cookies
  <2>1. browser \in [Places -> 0..Len(cookies)] /\ cookies \in Seq(CookieRow)
    BY DEF TablesAll, CredentialsOK, TablesInv
  <2> QED BY <2>1
<1>6. \A p \in Places : CookieUser(browser[p]) \in 0..accounts
  BY <1>2, <1>4, <1>5 DEF CookieUser
<1> QED BY <1>1, <1>3, <1>4, <1>6 DEF Principals

LEMMA TokenAdded ==
  ASSUME CredentialLimits, TablesAll, NEW user \in 1..accounts', NEW code \in Nat, IssueToken(user, code),
         accounts' \in {accounts, accounts + 1},
         code # 0 => code \in DOMAIN codes /\ codes[code].stored /\ codes[code].user = user
                     /\ codes' = [codes EXCEPT ![code].stored = FALSE],
         code = 0 => codes' = codes,
         \A t \in DOMAIN tokens : tokens[t].user \in 1..accounts'
  PROVE  /\ tokens' \in Seq(TokenRow)
         /\ accounts' \in Nat /\ accounts' <= Len(tokens') /\ Len(tokens') <= MaxTokens
         /\ \A t \in DOMAIN tokens' : tokens'[t].user \in 1..accounts' /\ tokens'[t].revoked \in BOOLEAN
         /\ \A t \in DOMAIN tokens' : tokens'[t].code # 0 =>
               tokens'[t].code \in DOMAIN codes' /\ ~codes'[tokens'[t].code].stored
         /\ OneTokenPerCode'
         /\ codes' \in Seq(CodeRow)
         /\ \A c \in DOMAIN codes' : codes'[c].user \in 1..accounts' /\ codes'[c].stored \in BOOLEAN
<1> DEFINE new == [user |-> user, revoked |-> FALSE, code |-> code]
<1>1. /\ tokens \in Seq(TokenRow) /\ codes \in Seq(CodeRow) /\ accounts \in Nat
      /\ accounts <= Len(tokens) /\ Len(tokens) <= MaxTokens
  BY DEF TablesAll, TablesInv
<1>2. tokens' = Append(tokens, new) /\ Len(tokens) < MaxTokens
  BY DEF IssueToken
<1>3. accounts' \in Nat /\ user \in Nat /\ new \in TokenRow
  BY <1>1 DEF TokenRow
<1>4. /\ tokens' \in Seq(TokenRow) /\ Len(tokens') = Len(tokens) + 1 /\ Len(tokens) \in Nat
      /\ \A t \in 1..Len(tokens) : tokens'[t] = tokens[t]
      /\ tokens'[Len(tokens) + 1] = new /\ DOMAIN tokens' = 1..(Len(tokens) + 1)
      /\ DOMAIN tokens = 1..Len(tokens)
  BY <1>1, <1>2, <1>3
<1>5. accounts' <= Len(tokens') /\ Len(tokens') <= MaxTokens
  BY <1>1, <1>2, <1>4 DEF CredentialLimits
<1>6. new.user = user /\ new.revoked \in BOOLEAN /\ new.code = code
  OBVIOUS
<1> HIDE DEF new
<1>7. \A t \in DOMAIN tokens' : tokens'[t].user \in 1..accounts' /\ tokens'[t].revoked \in BOOLEAN
  <2>1. \A t \in DOMAIN tokens : tokens[t].revoked \in BOOLEAN
    BY DEF TablesAll, CredentialsOK
  <2> QED BY <1>4, <1>6, <2>1
<1>8. /\ codes' \in Seq(CodeRow) /\ DOMAIN codes' = DOMAIN codes
      /\ \A c \in DOMAIN codes : /\ codes'[c].user = codes[c].user
                                 /\ codes'[c].stored \in BOOLEAN
                                 /\ ~codes[c].stored => ~codes'[c].stored
      /\ code # 0 => ~codes'[code].stored
  <2>1. CASE code = 0
    BY <1>1, <2>1 DEF TablesAll, CredentialsOK
  <2>2. CASE code # 0
    <3>1. code \in DOMAIN codes /\ codes' = [codes EXCEPT ![code].stored = FALSE]
      BY <2>2
    <3>2. \A c \in DOMAIN codes : codes[c] \in CodeRow
      BY <1>1
    <3>3. codes'[code] = [codes[code] EXCEPT !.stored = FALSE] /\ DOMAIN codes' = DOMAIN codes
          /\ \A c \in DOMAIN codes : c # code => codes'[c] = codes[c]
      BY <1>1, <3>1
    <3>4. codes'[code] \in CodeRow /\ codes'[code].user = codes[code].user /\ codes'[code].stored = FALSE
      BY <3>1, <3>2, <3>3 DEF CodeRow
    <3>5. codes' \in Seq(CodeRow)
      BY <1>1, <3>1, <3>2, <3>3, <3>4
    <3>6. \A c \in DOMAIN codes : codes[c].stored \in BOOLEAN
      BY DEF TablesAll, CredentialsOK
    <3> QED BY <3>1, <3>3, <3>4, <3>5, <3>6
  <2> QED BY <2>1, <2>2
<1>9. \A c \in DOMAIN codes' : codes'[c].user \in 1..accounts' /\ codes'[c].stored \in BOOLEAN
  BY <1>1, <1>8 DEF TablesAll, CredentialsOK
<1>10. \A t \in DOMAIN tokens : tokens[t].code # 0 =>
           tokens[t].code \in DOMAIN codes /\ ~codes[tokens[t].code].stored
  BY DEF TablesAll, TablesInv
<1>11. \A t \in DOMAIN tokens' : tokens'[t].code # 0 =>
               tokens'[t].code \in DOMAIN codes' /\ ~codes'[tokens'[t].code].stored
  BY <1>4, <1>6, <1>8, <1>10
<1>12. OneTokenPerCode'
  BY <1>4, <1>6, <1>8, <1>10 DEF TablesAll, OneTokenPerCode
<1> QED BY <1>3, <1>4, <1>5, <1>7, <1>8, <1>9, <1>11, <1>12

(* No row of the tables is lost, and of those that were there only whether  *)
(* they are revoked or stored changes.                                      *)
LEMMA TablesGrow ==
  ASSUME CredentialLimits, TablesAll,
         now' \in 1..LastInstant, accounts' = accounts,
         tokens' \in Seq(TokenRow), Len(tokens') = Len(tokens),
         \A t \in DOMAIN tokens : /\ tokens'[t].user = tokens[t].user
                                  /\ tokens'[t].code = tokens[t].code
                                  /\ tokens'[t].revoked \in BOOLEAN,
         codes' \in Seq(CodeRow), Len(codes') >= Len(codes),
         \A c \in DOMAIN codes : /\ codes'[c].user = codes[c].user
                                 /\ ~codes[c].stored => ~codes'[c].stored,
         \A c \in DOMAIN codes' : codes'[c].user \in 1..accounts /\ codes'[c].stored \in BOOLEAN,
         cookies' \in Seq(CookieRow),
         \A c \in DOMAIN cookies' : cookies'[c].user \in 1..accounts /\ cookies'[c].stored \in BOOLEAN,
         browser' \in [Places -> 0..Len(cookies')]
  PROVE  TablesAll'
<1>1. /\ tokens \in Seq(TokenRow) /\ codes \in Seq(CodeRow) /\ accounts \in Nat
      /\ accounts <= Len(tokens) /\ Len(tokens) <= MaxTokens
      /\ \A t \in DOMAIN tokens : tokens[t].code # 0 =>
             tokens[t].code \in DOMAIN codes /\ ~codes[tokens[t].code].stored
  BY DEF TablesAll, TablesInv
<1>2. DOMAIN tokens' = DOMAIN tokens /\ DOMAIN codes \subseteq DOMAIN codes'
  BY <1>1
<1>3. accounts \in 0..MaxTokens /\ \A t \in DOMAIN tokens : tokens[t].user \in 1..accounts
  BY DEF TablesAll, CredentialsOK
<1>4. CredentialsOK'
  BY <1>2, <1>3 DEF CredentialsOK
<1>5. TablesInv'
  BY <1>1, <1>2 DEF TablesInv
<1>6. OneTokenPerCode'
  <2>1. \A t \in DOMAIN tokens : tokens[t].code # 0 =>
           codes'[tokens[t].code].user = codes[tokens[t].code].user
    BY <1>1
  <2>2. OneTokenPerCode
    BY DEF TablesAll
  <2> QED BY <1>2, <2>1, <2>2 DEF OneTokenPerCode
<1> QED BY <1>4, <1>5, <1>6 DEF TablesAll

(* A session is added, and the browser that is told of it has it.           *)
LEMMA SessionAdded ==
  ASSUME CredentialLimits, TablesAll, now \in Nat, NEW p \in Places, NEW user \in Nat,
         CreateWebSession(p, user)
  PROVE  /\ cookies' \in Seq(CookieRow)
         /\ browser' \in [Places -> 0..Len(cookies')]
         /\ \A c \in DOMAIN cookies' :
                \/ c \in DOMAIN cookies /\ cookies'[c] = cookies[c]
                \/ cookies'[c].user = user /\ cookies'[c].stored \in BOOLEAN
<1> DEFINE new == [user |-> user, expires |-> now + SessionHours, stored |-> TRUE]
<1>1. cookies \in Seq(CookieRow) /\ browser \in [Places -> 0..Len(cookies)]
  BY DEF TablesAll, TablesInv, CredentialsOK
<1>2. new \in CookieRow /\ new.user = user /\ new.stored \in BOOLEAN
  BY DEF CookieRow, CredentialLimits
<1>3. cookies' = Append(cookies, new) /\ browser' = [browser EXCEPT ![p] = Len(cookies')]
  BY DEF CreateWebSession, PutWebSession
<1> HIDE DEF new
<1>4. /\ cookies' \in Seq(CookieRow) /\ Len(cookies') = Len(cookies) + 1 /\ Len(cookies) \in Nat
      /\ \A c \in 1..Len(cookies) : cookies'[c] = cookies[c]
      /\ cookies'[Len(cookies) + 1] = new /\ DOMAIN cookies' = 1..(Len(cookies) + 1)
      /\ DOMAIN cookies = 1..Len(cookies)
  BY <1>1, <1>2, <1>3
<1>5. browser' \in [Places -> 0..Len(cookies')]
  BY <1>1, <1>3, <1>4
<1> QED BY <1>2, <1>4, <1>5

LEMMA TablesStep ==
  ASSUME CredentialLimits, TablesAll, CredentialsNext
  PROVE  TablesAll'
<1>1. /\ tokens \in Seq(TokenRow) /\ codes \in Seq(CodeRow) /\ cookies \in Seq(CookieRow)
      /\ accounts \in Nat /\ now \in 1..LastInstant /\ now \in Nat
      /\ Len(tokens) \in Nat /\ Len(codes) \in Nat /\ Len(codes) >= Len(codes)
      /\ browser \in [Places -> 0..Len(cookies)]
  BY DEF TablesAll, TablesInv, CredentialsOK, CredentialLimits
<1>2. /\ \A t \in DOMAIN tokens : tokens[t].user \in 1..accounts /\ tokens[t].revoked \in BOOLEAN
      /\ \A c \in DOMAIN cookies : cookies[c].user \in 1..accounts /\ cookies[c].stored \in BOOLEAN
      /\ \A c \in DOMAIN codes : codes[c].user \in 1..accounts /\ codes[c].stored \in BOOLEAN
  BY DEF TablesAll, CredentialsOK
<1>3. /\ \A t \in DOMAIN tokens : TokenUser(t) \in 0..accounts
      /\ \A p \in Places : Principals(p) \subseteq 0..accounts
  BY RowsOfTables
<1>4. ASSUME NEW p \in Places, Register(p) PROVE TablesAll'
  <2>1. /\ accounts' = accounts + 1 /\ IssueToken(accounts', 0) /\ CreateWebSession(p, accounts')
        /\ UNCHANGED <<now, codes>>
    BY <1>4 DEF Register
  <2>2. accounts' \in 1..accounts' /\ accounts' \in Nat
    BY <1>1, <2>1
  <2>3. \A t \in DOMAIN tokens : tokens[t].user \in 1..accounts'
    BY <1>1, <1>2, <2>1
  <2>4. /\ tokens' \in Seq(TokenRow)
        /\ accounts' \in Nat /\ accounts' <= Len(tokens') /\ Len(tokens') <= MaxTokens
        /\ \A t \in DOMAIN tokens' : tokens'[t].user \in 1..accounts' /\ tokens'[t].revoked \in BOOLEAN
        /\ \A t \in DOMAIN tokens' : tokens'[t].code # 0 =>
               tokens'[t].code \in DOMAIN codes' /\ ~codes'[tokens'[t].code].stored
        /\ OneTokenPerCode'
        /\ codes' \in Seq(CodeRow)
        /\ \A c \in DOMAIN codes' : codes'[c].user \in 1..accounts' /\ codes'[c].stored \in BOOLEAN
    BY <2>1, <2>2, <2>3, TokenAdded
  <2>5. /\ cookies' \in Seq(CookieRow) /\ browser' \in [Places -> 0..Len(cookies')]
        /\ \A c \in DOMAIN cookies' :
                \/ c \in DOMAIN cookies /\ cookies'[c] = cookies[c]
                \/ cookies'[c].user = accounts' /\ cookies'[c].stored \in BOOLEAN
    BY <1>1, <2>1, <2>2, SessionAdded
  <2>6. \A c \in DOMAIN cookies' : cookies'[c].user \in 1..accounts' /\ cookies'[c].stored \in BOOLEAN
    BY <1>1, <1>2, <2>1, <2>2, <2>5
  <2>7. accounts' \in 0..MaxTokens
    <3>1. Len(tokens') \in Nat /\ MaxTokens \in Nat
      BY <2>4 DEF CredentialLimits
    <3> QED BY <2>4, <3>1
  <2>8. CredentialsOK'
    BY <1>1, <2>1, <2>4, <2>5, <2>6, <2>7 DEF CredentialsOK
  <2> QED BY <2>4, <2>5, <2>8 DEF TablesAll, TablesInv
<1>5. ASSUME NEW user \in 1..accounts, NEW code \in Nat, IssueToken(user, code),
             code # 0 => code \in DOMAIN codes /\ codes[code].stored /\ codes[code].user = user
                         /\ codes' = [codes EXCEPT ![code].stored = FALSE],
             code = 0 => codes' = codes,
             UNCHANGED <<now, accounts, cookies, browser>>
      PROVE  TablesAll'
  <2>1. user \in 1..accounts' /\ accounts' \in {accounts, accounts + 1}
        /\ \A t \in DOMAIN tokens : tokens[t].user \in 1..accounts'
    BY <1>2, <1>5
  <2>2. /\ tokens' \in Seq(TokenRow)
        /\ accounts' \in Nat /\ accounts' <= Len(tokens') /\ Len(tokens') <= MaxTokens
        /\ \A t \in DOMAIN tokens' : tokens'[t].user \in 1..accounts' /\ tokens'[t].revoked \in BOOLEAN
        /\ \A t \in DOMAIN tokens' : tokens'[t].code # 0 =>
               tokens'[t].code \in DOMAIN codes' /\ ~codes'[tokens'[t].code].stored
        /\ OneTokenPerCode'
        /\ codes' \in Seq(CodeRow)
        /\ \A c \in DOMAIN codes' : codes'[c].user \in 1..accounts' /\ codes'[c].stored \in BOOLEAN
    BY <1>5, <2>1, TokenAdded
  <2>3. accounts' \in 0..MaxTokens
    BY <1>5 DEF TablesAll, CredentialsOK
  <2>4. CredentialsOK'
    BY <1>1, <1>2, <1>5, <2>2, <2>3 DEF CredentialsOK
  <2> QED BY <1>1, <1>5, <2>2, <2>4 DEF TablesAll, TablesInv
<1>6. ASSUME NEW p \in Places, NEW t \in DOMAIN tokens, Login(p, t) PROVE TablesAll'
  <2>1. /\ TokenUser(t) \in 1..accounts /\ TokenUser(t) \in Nat
        /\ CreateWebSession(p, TokenUser(t))
        /\ UNCHANGED <<now, accounts, tokens, codes>>
    BY <1>1, <1>3, <1>6 DEF Login
  <2>2. /\ cookies' \in Seq(CookieRow) /\ browser' \in [Places -> 0..Len(cookies')]
        /\ \A c \in DOMAIN cookies' :
                \/ c \in DOMAIN cookies /\ cookies'[c] = cookies[c]
                \/ cookies'[c].user = TokenUser(t) /\ cookies'[c].stored \in BOOLEAN
    BY <1>1, <2>1, SessionAdded
  <2>3. \A c \in DOMAIN cookies' : cookies'[c].user \in 1..accounts /\ cookies'[c].stored \in BOOLEAN
    BY <1>2, <2>1, <2>2
  <2> QED BY <1>1, <1>2, <2>1, <2>2, <2>3, TablesGrow
<1>7. ASSUME NEW p \in Places, LoginFails(p) PROVE TablesAll'
  BY <1>1, <1>2, <1>7, TablesGrow DEF LoginFails
<1>8. ASSUME cookies' \in Seq(CookieRow), Len(cookies') = Len(cookies),
             \A c \in DOMAIN cookies : /\ cookies'[c].user = cookies[c].user
                                       /\ cookies'[c].stored \in BOOLEAN,
             browser' \in [Places -> 0..Len(cookies)], UNCHANGED <<now, accounts, tokens, codes>>
      PROVE  TablesAll'
  <2>1. DOMAIN cookies' = DOMAIN cookies
    BY <1>1, <1>8
  <2> QED BY <1>1, <1>2, <1>8, <2>1, TablesGrow
<1>9. ASSUME NEW p \in Places, Logout(p) PROVE TablesAll'
  <2> DEFINE c == browser[p]
             new == [cookies[c] EXCEPT !.stored = FALSE]
  <2>1. /\ c # 0 /\ cookies' = [cookies EXCEPT ![c] = new]
        /\ browser' = [browser EXCEPT ![p] = 0] /\ UNCHANGED <<now, accounts, tokens, codes>>
    BY <1>9 DEF Logout, DeleteWebSession
  <2>2. c \in DOMAIN cookies /\ cookies[c] \in CookieRow
    BY <1>1, <2>1
  <2>3. new \in CookieRow /\ new.user = cookies[c].user /\ new.stored \in BOOLEAN
    BY <2>2 DEF CookieRow
  <2> HIDE DEF new
  <2>4. cookies' \in Seq(CookieRow) /\ Len(cookies') = Len(cookies)
        /\ \A d \in DOMAIN cookies : cookies'[d] = IF d = c THEN new ELSE cookies[d]
    BY <1>1, <2>1, <2>2, <2>3
  <2>5. browser' \in [Places -> 0..Len(cookies)]
    BY <1>1, <2>1
  <2> QED BY <1>2, <1>8, <2>1, <2>3, <2>4, <2>5
<1>10. ASSUME NEW user \in 0..accounts, AddToken(user) PROVE TablesAll'
  BY <1>1, <1>5, <1>10 DEF AddToken
<1>11. ASSUME NEW user, NEW t \in DOMAIN tokens, RevokeToken(user, t) PROVE TablesAll'
  <2> DEFINE new == [tokens[t] EXCEPT !.revoked = TRUE]
  <2>1. tokens' = [tokens EXCEPT ![t] = new]
        /\ UNCHANGED <<now, accounts, cookies, browser, codes>>
    BY <1>11 DEF RevokeToken
  <2>2. tokens[t] \in TokenRow
    BY <1>1
  <2>3. new \in TokenRow /\ new.user = tokens[t].user /\ new.code = tokens[t].code
        /\ new.revoked \in BOOLEAN
    BY <2>2 DEF TokenRow
  <2> HIDE DEF new
  <2>4. tokens' \in Seq(TokenRow) /\ Len(tokens') = Len(tokens)
        /\ \A u \in DOMAIN tokens : tokens'[u] = IF u = t THEN new ELSE tokens[u]
    BY <1>1, <2>1, <2>3
  <2> QED BY <1>1, <1>2, <2>1, <2>3, <2>4, TablesGrow
<1>12. ASSUME NEW t \in DOMAIN tokens, NEW a \in Applications, Authorize(t, a) PROVE TablesAll'
  <2> DEFINE new == [user |-> TokenUser(t), application |-> a, expires |-> now + CodeLife,
                     stored |-> TRUE]
  <2>1. /\ TokenUser(t) \in 1..accounts /\ codes' = Append(codes, new)
        /\ UNCHANGED <<now, accounts, tokens, cookies, browser>>
    BY <1>1, <1>3, <1>12 DEF Authorize, PutCode
  <2>2. new \in CodeRow /\ new.user = TokenUser(t) /\ new.stored \in BOOLEAN
    BY <1>1, <2>1 DEF CodeRow, CredentialLimits
  <2> HIDE DEF new
  <2>3. /\ codes' \in Seq(CodeRow) /\ Len(codes') = Len(codes) + 1 /\ Len(codes) \in Nat
        /\ \A c \in 1..Len(codes) : codes'[c] = codes[c]
        /\ codes'[Len(codes) + 1] = new /\ DOMAIN codes' = 1..(Len(codes) + 1)
        /\ DOMAIN codes = 1..Len(codes)
    BY <1>1, <2>1, <2>2
  <2>4. \A c \in DOMAIN codes' : codes'[c].user \in 1..accounts /\ codes'[c].stored \in BOOLEAN
    BY <1>2, <2>1, <2>2, <2>3
  <2> QED BY <1>1, <1>2, <2>1, <2>3, <2>4, TablesGrow
<1>13. ASSUME NEW c \in DOMAIN codes, NEW a \in Applications, NEW proved \in BOOLEAN,
              Exchange(c, a, proved)
       PROVE  TablesAll'
  <2>1. /\ codes[c].stored /\ codes' = [codes EXCEPT ![c].stored = FALSE]
        /\ UNCHANGED <<now, accounts, cookies, browser>>
        /\ IssueToken(codes[c].user, c) \/ UNCHANGED tokens
    BY <1>13 DEF Exchange, ConsumeCode
  <2>2. CASE IssueToken(codes[c].user, c)
    <3>1. c \in Nat /\ c # 0 /\ codes[c].user \in 1..accounts
      BY <1>1, <1>2
    <3> QED BY <1>5, <2>1, <2>2, <3>1
  <2>3. CASE UNCHANGED tokens
    <3> DEFINE new == [codes[c] EXCEPT !.stored = FALSE]
    <3>1. codes' = [codes EXCEPT ![c] = new]
      BY <2>1
    <3>2. codes[c] \in CodeRow
      BY <1>1
    <3>3. new \in CodeRow /\ new.user = codes[c].user /\ new.stored = FALSE
      BY <3>2 DEF CodeRow
    <3> HIDE DEF new
    <3>4. codes' \in Seq(CodeRow) /\ Len(codes') = Len(codes) /\ DOMAIN codes' = DOMAIN codes
          /\ \A d \in DOMAIN codes : codes'[d] = IF d = c THEN new ELSE codes[d]
      BY <1>1, <3>1, <3>3
    <3>5. Len(codes') >= Len(codes) /\ tokens' = tokens
      BY <1>1, <2>3, <3>4
    <3> QED BY <1>1, <1>2, <2>1, <3>3, <3>4, <3>5, TablesGrow
  <2> QED BY <2>1, <2>2, <2>3
<1>14. CASE ClearExpired
  <2> DEFINE entry(c) == [cookies[c] EXCEPT !.stored = @ /\ cookies[c].expires >= now]
  <2>1. cookies' = [c \in DOMAIN cookies |-> entry(c)]
        /\ UNCHANGED <<now, accounts, tokens, browser, codes>>
    BY <1>14 DEF ClearExpired
  <2>2. \A c \in DOMAIN cookies : entry(c) \in CookieRow /\ entry(c).user = cookies[c].user
                                  /\ entry(c).stored \in BOOLEAN
    <3> TAKE c \in DOMAIN cookies
    <3>1. cookies[c] \in CookieRow
      BY <1>1
    <3>2. (cookies[c].stored /\ cookies[c].expires >= now) \in BOOLEAN
      OBVIOUS
    <3> QED BY <3>1, <3>2 DEF CookieRow
  <2> HIDE DEF entry
  <2>3. DOMAIN cookies = 1..Len(cookies) /\ Len(cookies) \in Nat
    BY <1>1
  <2>4. cookies' \in Seq(CookieRow) /\ Len(cookies') = Len(cookies)
    BY <2>1, <2>2, <2>3
  <2>5. \A c \in DOMAIN cookies : cookies'[c] = entry(c)
    BY <2>1
  <2> QED BY <1>1, <1>8, <2>1, <2>2, <2>4, <2>5
<1>15. CASE Passes
  BY <1>1, <1>2, <1>15, TablesGrow DEF Passes, CredentialLimits
<1> QED BY <1>1, <1>3, <1>4, <1>6, <1>7, <1>9, <1>10, <1>11, <1>12, <1>13, <1>14, <1>15
        DEF CredentialsNext

LEMMA CountersStep ==
  ASSUME CredentialLimits, CredentialsOK, CountersInv, CredentialsNext
  PROVE  CountersInv'
<1>1. now \in Nat
  BY DEF CredentialsOK, CredentialLimits
<1>2. ASSUME UNCHANGED <<failures, registrations, misses, joins>> PROVE CountersInv'
  BY <1>2 DEF CountersInv, Counted, InWindow
<1>3. ASSUME NEW p \in Places, Register(p) PROVE CountersInv'
  BY <1>1, <1>3, CountersKept DEF Register
<1>4. ASSUME NEW p \in Places, LoginFails(p) PROVE CountersInv'
  BY <1>1, <1>4, CountersKept DEF LoginFails
<1> QED BY <1>2, <1>3, <1>4
        DEF CredentialsNext, Login, Logout, AddToken, RevokeToken, Authorize, Exchange,
            ClearExpired, Passes

LEMMA NextCredentials ==
  ASSUME CredentialLimits, CredentialsInv, [CredentialsNext]_credentialVars
  PROVE  CredentialsInv'
<1>1. CASE CredentialsNext
  <2>1. TablesAll' /\ CountersInv'
    BY <1>1, TablesStep, CountersStep DEF CredentialsInv, TablesAll
  <2> QED BY <2>1 DEF CredentialsInv, TablesAll
<1>2. CASE UNCHANGED credentialVars
  BY <1>2 DEF credentialVars, CredentialsInv, CredentialsOK, TablesInv, OneTokenPerCode,
     CountersInv, Counted, InWindow
<1> QED BY <1>1, <1>2

LEMMA CredentialsPromise ==
  ASSUME CredentialLimits, CredentialsInv
  PROVE  CredentialsOK /\ OneTokenPerCode /\ AttemptsLimited
<1>1. ASSUME NEW times, NEW window, NEW length, NEW limit, limit \in Nat,
             Counted(times, window, length, limit)
      PROVE  Cardinality(InWindow(times, window, length)) <= limit
  <2>1. Cardinality(InWindow(times, window, length)) \in Nat /\ window.count \in Nat
    BY <1>1, InWindowFinite, FS_CardinalityType DEF Counted, Window
  <2> QED BY <1>1, <2>1 DEF Counted
<1>2. FailureLimit \in Nat /\ RegistrationLimit \in Nat
  BY DEF CredentialLimits
<1>3. AttemptsLimited
  BY <1>1, <1>2 DEF CredentialsInv, CountersInv, AttemptsLimited
<1> QED BY <1>3 DEF CredentialsInv

(* A code gives one token, of the account that authorized it, whatever is   *)
(* sent again, and no more logins fail and no more accounts are made in a   *)
(* window than the limits say (AuthService).                                *)
THEOREM CodesAndAttempts ==
  ASSUME CredentialLimits
  PROVE  CredentialsSpec => [](CredentialsOK /\ OneTokenPerCode /\ AttemptsLimited)
<1>1. CredentialsInit => CredentialsInv
  BY InitCredentials
<1>2. CredentialsInv /\ [CredentialsNext]_credentialVars => CredentialsInv'
  BY NextCredentials
<1>3. CredentialsInv => CredentialsOK /\ OneTokenPerCode /\ AttemptsLimited
  BY CredentialsPromise
<1> QED BY <1>1, <1>2, <1>3, PTL DEF CredentialsSpec
----------------------------------------------------------------------------
(***************************************************************************)
(* Optimization.  PlacesInv says how far a request is and what it has      *)
(* copied, UndoInv that what it has not taken back yet is all that is not  *)
(* as it was before, and CopyInv that a file is copied before it changes.  *)
(***************************************************************************)
SavedPath == [path : Paths, existed : BOOLEAN]
Contents == [Paths -> Nat]
ChangeRequest ==
    [kind : {"apply", "rollback"}, changes : Seq(Paths),
     at : {"copying", "writing", "validating", "undoing", "restoring", "done"},
     next : Nat, saved : Seq(SavedPath), row : Nat, before : Contents]
ApplicationRow ==
    [status : {"applied", "rolled_back", "failed"}, saved : Seq(SavedPath), before : Contents,
     left : Contents, untouched : BOOLEAN, by : Nat,
     rollback : {"not_requested", "completed", "failed"}]

OptimizationTypes ==
    /\ proposal \in {"none", "pending", "accepted", "rejected"}
    /\ files \in Contents /\ mixed \in BOOLEAN
    /\ requests \in Seq(ChangeRequest) /\ rows \in Seq(ApplicationRow)
    /\ backups \in Seq(Seq(Nat)) /\ Len(backups) = Len(requests)

(* Where a request is in its list of paths and in its copies.               *)
CopiesOf(x, saves) ==
    /\ x.kind = "apply" =>
        /\ x.row = 0 /\ Len(saves) = Len(x.saved) /\ x.at # "restoring"
        /\ \A i \in 1..Len(saves) : x.saved[i].existed <=> saves[i] # 0
    /\ x.at = "copying" => x.next \in 1..Len(x.changes) /\ Len(x.saved) = x.next - 1
    /\ x.at = "writing" => /\ x.next \in 1..Len(x.changes) /\ Len(x.saved) = x.next
                           /\ x.saved[x.next].path = x.changes[x.next]
    /\ x.at \in {"undoing", "restoring"} => x.next \in 1..(Len(x.saved) + 1)
    /\ x.kind = "rollback" => saves = <<>> /\ x.at \in {"restoring", "done"}

PlacesInv ==
    /\ \A q \in DOMAIN requests : CopiesOf(requests[q], backups[q])
    /\ \A q \in DOMAIN requests : requests[q].kind = "rollback" =>
           requests[q].row \in DOMAIN rows /\ requests[q].saved = rows[requests[q].row].saved
    /\ \A r \in DOMAIN rows :
           /\ rows[r].by \in DOMAIN requests
           /\ requests[rows[r].by].kind = "apply" /\ requests[rows[r].by].at = "done"
           /\ requests[rows[r].by].saved = rows[r].saved

(* When the first n of the saved paths have been put back, files is what it *)
(* was; the first copy of a path is what was there before.                  *)
PutBack(f, saved, n, before) ==
    \A p \in Paths : (\A i \in 1..n : saved[i].path # p) => f[p] = before[p]
FirstOf(saved, i) == \A j \in 1..(i - 1) : saved[j].path # saved[i].path
FirstIsBefore(saved, saves, before) ==
    \A i \in 1..Len(saved) : FirstOf(saved, i) => saves[i] = before[saved[i].path]
FirstWasAbsent(saved, before) ==
    \A i \in 1..Len(saved) : FirstOf(saved, i) /\ ~saved[i].existed => before[saved[i].path] = 0

Remaining(x) == IF x.at \in {"undoing", "restoring"} THEN Len(x.saved) + 1 - x.next ELSE Len(x.saved)

LastMoves == \A q \in UnderWay : q = Len(requests)
ApplyUndoes ==
    \A q \in UnderWay : requests[q].kind = "apply" =>
        /\ PutBack(files, requests[q].saved, Remaining(requests[q]), requests[q].before)
        /\ FirstIsBefore(requests[q].saved, backups[q], requests[q].before)
RowUndoes ==
    \A r \in DOMAIN rows : Alone(r) /\ rows[r].status = "applied" =>
        /\ PutBack(files, rows[r].saved, Len(rows[r].saved), rows[r].before)
        /\ FirstWasAbsent(rows[r].saved, rows[r].before)
RollbackUndoes ==
    \A q \in UnderWay : requests[q].kind = "rollback" /\ Alone(requests[q].row) =>
        /\ rows[requests[q].row].status = "applied"
        /\ PutBack(files, requests[q].saved, Remaining(requests[q]), rows[requests[q].row].before)
UndoInv == ~mixed => LastMoves /\ ApplyUndoes /\ RowUndoes /\ RollbackUndoes

(* The first copy of a path that exists at the beginning is its content.    *)
Saves(p, q, i) == requests[q].saved[i].path = p
CopyInv ==
    \A p \in Present :
        \/ files[p] = 1 /\ \A q \in DOMAIN backups : \A i \in DOMAIN backups[q] : ~Saves(p, q, i)
        \/ \E q \in DOMAIN backups : \E i \in DOMAIN backups[q] : Saves(p, q, i) /\ backups[q][i] = 1

OptInv == OptimizationTypes /\ PlacesInv /\ UndoInv /\ CopyInv /\ Undone
----------------------------------------------------------------------------
LEMMA SeqUpdate ==
  ASSUME NEW S, NEW f \in Seq(S), NEW i \in DOMAIN f, NEW v \in S
  PROVE  /\ [f EXCEPT ![i] = v] \in Seq(S) /\ Len([f EXCEPT ![i] = v]) = Len(f)
         /\ [f EXCEPT ![i] = v][i] = v
         /\ \A j \in DOMAIN f : j # i => [f EXCEPT ![i] = v][j] = f[j]
OBVIOUS

LEMMA SeqAppend ==
  ASSUME NEW S, NEW f \in Seq(S), NEW v \in S
  PROVE  /\ Append(f, v) \in Seq(S) /\ Len(Append(f, v)) = Len(f) + 1 /\ Len(f) \in Nat
         /\ DOMAIN Append(f, v) = 1..(Len(f) + 1) /\ DOMAIN f = 1..Len(f)
         /\ Append(f, v)[Len(f) + 1] = v
         /\ \A j \in 1..Len(f) : Append(f, v)[j] = f[j]
OBVIOUS

(* What a request is besides the places it moves through.                   *)
Same(x, y) == y.kind = x.kind /\ y.row = x.row /\ y.before = x.before /\ y.changes = x.changes

LEMMA ChangeAt ==
  ASSUME NEW x \in ChangeRequest, NEW y, NEW at, y = [x EXCEPT !.at = at],
         at \in {"copying", "writing", "validating", "undoing", "restoring", "done"}
  PROVE  y \in ChangeRequest /\ Same(x, y) /\ y.at = at /\ y.next = x.next /\ y.saved = x.saved
BY DEF ChangeRequest, Same

LEMMA ChangeNext ==
  ASSUME NEW x \in ChangeRequest, NEW y, NEW n \in Nat, y = [x EXCEPT !.next = n]
  PROVE  y \in ChangeRequest /\ Same(x, y) /\ y.at = x.at /\ y.next = n /\ y.saved = x.saved
BY DEF ChangeRequest, Same

LEMMA ChangeSaved ==
  ASSUME NEW x \in ChangeRequest, NEW y, NEW s \in Seq(SavedPath), y = [x EXCEPT !.saved = s]
  PROVE  y \in ChangeRequest /\ Same(x, y) /\ y.at = x.at /\ y.next = x.next /\ y.saved = s
BY DEF ChangeRequest, Same

PathsGiven == Present \subseteq Paths /\ ChangeLists \subseteq Seq(Paths)

LEMMA InitOptimization == ASSUME PathsGiven, OptimizationInit PROVE OptInv
<1> USE DEF OptimizationInit
<1>1. \A p \in Paths : Original(p) \in Nat
  BY DEF Original
<1>2. OptimizationTypes
  <2>1. files \in Contents
    BY <1>1 DEF Contents
  <2>2. backups = <<>> /\ requests = <<>> /\ rows = <<>>
    OBVIOUS
  <2>3. <<>> \in Seq(Seq(Nat)) /\ <<>> \in Seq(ChangeRequest) /\ <<>> \in Seq(ApplicationRow)
    OBVIOUS
  <2>4. backups \in Seq(Seq(Nat)) /\ requests \in Seq(ChangeRequest) /\ rows \in Seq(ApplicationRow)
        /\ Len(backups) = Len(requests)
    BY <2>2, <2>3
  <2>5. proposal = "none" /\ mixed = FALSE
    OBVIOUS
  <2> QED BY <2>1, <2>4, <2>5 DEF OptimizationTypes
<1>3. PlacesInv /\ Undone /\ UndoInv
  BY DEF PlacesInv, Undone, UndoInv, LastMoves, ApplyUndoes, RowUndoes, RollbackUndoes, UnderWay
<1>4. CopyInv
  BY DEF CopyInv, Original, PathsGiven
<1> QED BY <1>2, <1>3, <1>4 DEF OptInv

LEMMA RowTypes ==
  ASSUME OptimizationTypes
  PROVE  /\ \A q \in DOMAIN requests :
               /\ requests[q] \in ChangeRequest
               /\ requests[q].changes \in Seq(Paths) /\ requests[q].saved \in Seq(SavedPath)
               /\ requests[q].next \in Nat /\ requests[q].row \in Nat
               /\ requests[q].before \in Contents /\ requests[q].kind \in {"apply", "rollback"}
               /\ Len(requests[q].saved) \in Nat /\ backups[q] \in Seq(Nat)
         /\ \A r \in DOMAIN rows :
               /\ rows[r] \in ApplicationRow
               /\ rows[r].saved \in Seq(SavedPath) /\ rows[r].before \in Contents
               /\ rows[r].left \in Contents /\ rows[r].by \in Nat
         /\ DOMAIN requests = 1..Len(requests) /\ DOMAIN backups = DOMAIN requests
         /\ Len(requests) \in Nat /\ DOMAIN rows = 1..Len(rows) /\ Len(rows) \in Nat
<1>1. \A q \in DOMAIN requests : requests[q] \in ChangeRequest
  BY DEF OptimizationTypes
<1>2. \A r \in DOMAIN rows : rows[r] \in ApplicationRow
  BY DEF OptimizationTypes
<1>3. /\ DOMAIN requests = 1..Len(requests) /\ DOMAIN backups = DOMAIN requests
      /\ Len(requests) \in Nat /\ DOMAIN rows = 1..Len(rows) /\ Len(rows) \in Nat
  BY DEF OptimizationTypes
<1>4. \A q \in DOMAIN requests : backups[q] \in Seq(Nat)
  BY <1>3 DEF OptimizationTypes
<1> QED BY <1>1, <1>2, <1>3, <1>4 DEF ChangeRequest, ApplicationRow

(* One request moves to y; the others stay.                                 *)
Moves(q, y) ==
    /\ requests' = [requests EXCEPT ![q] = y] /\ y \in ChangeRequest
    /\ y.kind = requests[q].kind /\ y.row = requests[q].row /\ y.before = requests[q].before

LEMMA MovedRequests ==
  ASSUME OptimizationTypes, NEW q \in DOMAIN requests, NEW y, Moves(q, y)
  PROVE  /\ requests' \in Seq(ChangeRequest) /\ Len(requests') = Len(requests)
         /\ DOMAIN requests' = DOMAIN requests
         /\ \A o \in DOMAIN requests : requests'[o] = IF o = q THEN y ELSE requests[o]
BY DEF OptimizationTypes, Moves

(* What a step says of the rows: those that were there keep what they are    *)
(* of, and those it adds are of the request that moves.                     *)
RowsKept(q, y) ==
    /\ rows' \in Seq(ApplicationRow) /\ DOMAIN rows \subseteq DOMAIN rows'
    /\ \A r \in DOMAIN rows : /\ rows'[r].by = rows[r].by /\ rows'[r].saved = rows[r].saved
                              /\ rows'[r].before = rows[r].before
    /\ \A r \in DOMAIN rows' : r \notin DOMAIN rows =>
           /\ rows'[r].by = q /\ rows'[r].saved = y.saved /\ rows'[r].before = y.before
           /\ y.kind = "apply" /\ y.at = "done"

LEMMA PlacesKept ==
  ASSUME OptimizationTypes, PlacesInv, NEW q \in UnderWay, NEW y, Moves(q, y), RowsKept(q, y),
         DOMAIN backups' = DOMAIN backups,
         \A o \in DOMAIN backups : o # q => backups'[o] = backups[o],
         CopiesOf(y, backups'[q]), y.kind = "rollback" => y.saved = requests[q].saved
  PROVE  PlacesInv'
<1>1. q \in DOMAIN requests /\ requests[q].at # "done"
  BY DEF UnderWay
<1>2. /\ DOMAIN requests' = DOMAIN requests
      /\ \A o \in DOMAIN requests : requests'[o] = IF o = q THEN y ELSE requests[o]
  BY <1>1, MovedRequests
<1>3. DOMAIN backups = DOMAIN requests
  BY RowTypes
<1>4. \A o \in DOMAIN requests : CopiesOf(requests[o], backups[o])
  BY DEF PlacesInv
<1>5. \A o \in DOMAIN requests' : CopiesOf(requests'[o], backups'[o])
  BY <1>2, <1>3, <1>4
<1>6. \A o \in DOMAIN requests' : requests'[o].kind = "rollback" =>
           requests'[o].row \in DOMAIN rows' /\ requests'[o].saved = rows'[requests'[o].row].saved
  BY <1>2 DEF PlacesInv, RowsKept, Moves
<1>7. \A r \in DOMAIN rows' :
           /\ rows'[r].by \in DOMAIN requests'
           /\ requests'[rows'[r].by].kind = "apply" /\ requests'[rows'[r].by].at = "done"
           /\ requests'[rows'[r].by].saved = rows'[r].saved
  BY <1>1, <1>2 DEF PlacesInv, RowsKept, Moves
<1>8. \A o \in DOMAIN requests' : CopiesOf(requests[o], backups[o])'
  BY <1>5 DEF CopiesOf
<1> QED BY <1>6, <1>7, <1>8 DEF PlacesInv

(* A step of an apply: no row that was there is alone any more.             *)
LEMMA ApplyMoves ==
  ASSUME OptimizationTypes, PlacesInv, UndoInv, NEW q \in UnderWay, NEW y, Moves(q, y),
         RowsKept(q, y), requests[q].kind = "apply", mixed' = mixed,
         ~mixed /\ y.at # "done" =>
             /\ PutBack(files', y.saved, Remaining(y), y.before)
             /\ FirstIsBefore(y.saved, backups'[q], y.before),
         ~mixed => \A r \in DOMAIN rows' : r \notin DOMAIN rows /\ rows'[r].status = "applied" =>
             /\ PutBack(files', y.saved, Len(y.saved), y.before)
             /\ FirstWasAbsent(y.saved, y.before)
  PROVE  UndoInv'
<1> SUFFICES ASSUME ~mixed PROVE (LastMoves /\ ApplyUndoes /\ RowUndoes /\ RollbackUndoes)'
  BY DEF UndoInv
<1>1. q \in DOMAIN requests /\ requests[q].at # "done"
  BY DEF UnderWay
<1>2. /\ DOMAIN requests' = DOMAIN requests /\ Len(requests') = Len(requests)
      /\ \A o \in DOMAIN requests : requests'[o] = IF o = q THEN y ELSE requests[o]
  BY <1>1, MovedRequests
<1>3. q = Len(requests) /\ \A o \in UnderWay : o = q
  BY DEF UndoInv, LastMoves
<1>4. \A o \in UnderWay' : o = q
  BY <1>2, <1>3 DEF UnderWay
<1>5. y.kind = "apply" /\ y.row = 0
  BY <1>1 DEF Moves, PlacesInv, CopiesOf
<1>6. LastMoves'
  BY <1>2, <1>3, <1>4 DEF LastMoves
<1>7. q \in UnderWay' => y.at # "done" /\ requests'[q] = y
  BY <1>1, <1>2 DEF UnderWay
<1>8. ApplyUndoes'
  BY <1>4, <1>7 DEF ApplyUndoes, PutBack, FirstIsBefore, Remaining, FirstOf
<1>9. RollbackUndoes'
  BY <1>4, <1>5, <1>7 DEF RollbackUndoes
<1>10. \A r \in DOMAIN rows : r # 0 /\ rows[r].by \in DOMAIN requests /\ rows[r].by # q
  BY <1>1, RowTypes DEF PlacesInv
<1>11. \A r \in DOMAIN rows : q > rows'[r].by
  BY <1>3, <1>10, RowTypes DEF RowsKept
<1>12. \A r \in DOMAIN rows : ~Alone(r)'
  BY <1>1, <1>2, <1>5, <1>10, <1>11 DEF Alone
<1>13. RowUndoes'
  <2> SUFFICES ASSUME NEW r \in DOMAIN rows', r \notin DOMAIN rows, rows'[r].status = "applied"
               PROVE  /\ PutBack(files', rows'[r].saved, Len(rows'[r].saved), rows'[r].before)
                      /\ FirstWasAbsent(rows'[r].saved, rows'[r].before)
    BY <1>12 DEF RowUndoes, PutBack, FirstWasAbsent, FirstOf
  <2>1. rows'[r].saved = y.saved /\ rows'[r].before = y.before
    BY DEF RowsKept
  <2> QED BY <2>1
<1> QED BY <1>6, <1>8, <1>9, <1>13

(* A step of a rollback, which touches no path but those of its row.        *)
LEMMA RollbackMoves ==
  ASSUME OptimizationTypes, PlacesInv, UndoInv, NEW q \in UnderWay, NEW y, Moves(q, y),
         RowsKept(q, y), requests[q].kind = "rollback", y.saved = requests[q].saved, mixed' = mixed,
         DOMAIN rows' = DOMAIN rows,
         \A r \in DOMAIN rows : rows'[r].status = "applied" => rows[r].status = "applied",
         y.at # "done" => rows' = rows,
         \A p \in Paths : files'[p] = files[p] \/ \E i \in 1..Len(y.saved) : y.saved[i].path = p,
         y.at # "done" /\ PutBack(files, y.saved, Remaining(requests[q]), rows[y.row].before)
             /\ FirstWasAbsent(y.saved, rows[y.row].before) =>
                 PutBack(files', y.saved, Remaining(y), rows[y.row].before)
  PROVE  UndoInv'
<1> SUFFICES ASSUME ~mixed PROVE (LastMoves /\ ApplyUndoes /\ RowUndoes /\ RollbackUndoes)'
  BY DEF UndoInv
<1>1. q \in DOMAIN requests /\ requests[q].at # "done"
  BY DEF UnderWay
<1>2. /\ DOMAIN requests' = DOMAIN requests /\ Len(requests') = Len(requests)
      /\ \A o \in DOMAIN requests : requests'[o] = IF o = q THEN y ELSE requests[o]
  BY <1>1, MovedRequests
<1>3. q = Len(requests) /\ \A o \in UnderWay : o = q
  BY DEF UndoInv, LastMoves
<1>4. \A o \in UnderWay' : o = q
  BY <1>2, <1>3 DEF UnderWay
<1>5. y.kind = "rollback" /\ y.row = requests[q].row /\ y.row \in DOMAIN rows
      /\ y.saved = rows[y.row].saved
  BY <1>1 DEF Moves, PlacesInv
<1>6. LastMoves'
  BY <1>2, <1>3, <1>4 DEF LastMoves
<1>7. q \in UnderWay' => y.at # "done" /\ requests'[q] = y
  BY <1>1, <1>2 DEF UnderWay
<1>8. ApplyUndoes'
  BY <1>4, <1>5, <1>7 DEF ApplyUndoes
<1>9. \A o \in DOMAIN requests : requests'[o].row = requests[o].row
  BY <1>2, <1>5
<1>10. \A r \in DOMAIN rows : Alone(r)' <=> Alone(r)
  BY <1>2, <1>9 DEF Alone, RowsKept
<1>11. \A r \in DOMAIN rows : Alone(r) => r = y.row
  <2>1. \A r \in DOMAIN rows : rows[r].by \in DOMAIN requests /\ rows[r].by # q
    BY <1>1 DEF PlacesInv
  <2>2. \A r \in DOMAIN rows : q > rows[r].by
    BY <1>3, <2>1, RowTypes
  <2> QED BY <1>1, <1>5, <2>2 DEF Alone
<1>12. RowUndoes'
  <2> SUFFICES ASSUME NEW r \in DOMAIN rows, Alone(r), rows'[r].status = "applied"
               PROVE  /\ PutBack(files', rows[r].saved, Len(rows[r].saved), rows[r].before)
                      /\ FirstWasAbsent(rows[r].saved, rows[r].before)
    <3>1. \A r \in DOMAIN rows' : r \in DOMAIN rows /\ rows'[r].saved = rows[r].saved
                                  /\ rows'[r].before = rows[r].before
      BY DEF RowsKept
    <3>2. \A r \in DOMAIN rows' : Alone(r)' => Alone(r)
      BY <1>10, <3>1
    <3> QED BY <3>1, <3>2 DEF RowUndoes, PutBack, FirstWasAbsent, FirstOf
  <2>1. /\ PutBack(files, rows[r].saved, Len(rows[r].saved), rows[r].before)
        /\ FirstWasAbsent(rows[r].saved, rows[r].before)
    BY DEF UndoInv, RowUndoes
  <2> QED BY <1>5, <1>11, <2>1 DEF PutBack
<1>13. RollbackUndoes'
  <2> SUFFICES ASSUME q \in UnderWay', Alone(y.row)
               PROVE  /\ rows'[y.row].status = "applied"
                      /\ PutBack(files', y.saved, Remaining(y), rows'[y.row].before)
    BY <1>4, <1>5, <1>7, <1>10 DEF RollbackUndoes, PutBack, Remaining
  <2>1. /\ rows[y.row].status = "applied"
        /\ PutBack(files, y.saved, Remaining(requests[q]), rows[y.row].before)
    BY <1>5, <1>7 DEF UndoInv, RollbackUndoes
  <2>2. FirstWasAbsent(y.saved, rows[y.row].before)
    BY <1>5, <2>1 DEF UndoInv, RowUndoes
  <2> QED BY <1>7, <2>1, <2>2
<1> QED BY <1>6, <1>8, <1>12, <1>13

(* The parts of the invariant together, after a step of a request.          *)
LEMMA StepKeeps ==
  ASSUME OptInv, NEW q \in UnderWay, NEW y, Moves(q, y), RowsKept(q, y),
         files' \in Contents, mixed' = mixed, proposal' = proposal,
         backups' \in Seq(Seq(Nat)), Len(backups') = Len(backups),
         \A o \in DOMAIN backups : o # q => backups'[o] = backups[o],
         CopiesOf(y, backups'[q]), y.kind = "rollback" => y.saved = requests[q].saved,
         UndoInv', CopyInv',
         \A r \in DOMAIN rows' : rows'[r].status = "rolled_back" /\ rows'[r].untouched =>
             rows'[r].left = rows'[r].before
  PROVE  OptInv'
<1>1. q \in DOMAIN requests /\ OptimizationTypes /\ PlacesInv
  BY DEF UnderWay, OptInv
<1>2. DOMAIN backups' = DOMAIN backups
  BY <1>1 DEF OptimizationTypes
<1>3. PlacesInv'
  BY <1>1, <1>2, PlacesKept
<1>4. OptimizationTypes'
  BY <1>1, MovedRequests DEF OptimizationTypes, RowsKept
<1> QED BY <1>3, <1>4 DEF OptInv, Undone

(* What is written over has been copied.                                    *)
LEMMA CopiesStay ==
  ASSUME OptInv, NEW q \in UnderWay, NEW y, Moves(q, y), y.saved = requests[q].saved,
         backups' = backups,
         \A p \in Paths : files'[p] = files[p]
             \/ \E o \in DOMAIN backups : \E i \in DOMAIN backups[o] : Saves(p, o, i),
         PathsGiven
  PROVE  CopyInv'
<1>1. q \in DOMAIN requests /\ OptimizationTypes
  BY DEF UnderWay, OptInv
<1>2. DOMAIN backups = DOMAIN requests
  BY <1>1, RowTypes
<1>3. \A o \in DOMAIN requests : requests'[o].saved = requests[o].saved
  BY <1>1, MovedRequests
<1>4. \A p, o, i : o \in DOMAIN backups => (Saves(p, o, i)' <=> Saves(p, o, i))
  BY <1>2, <1>3 DEF Saves
<1> QED BY <1>4 DEF CopyInv, OptInv, PathsGiven

LEMMA CopyOneKeeps ==
  ASSUME PathsGiven, OptInv, NEW q \in UnderWay, CopyOne(q) PROVE OptInv'
<1> DEFINE x == requests[q]
           P == x.changes[x.next]
           s == [path |-> P, existed |-> files[P] # 0]
           y == [x EXCEPT !.at = "writing", !.saved = Append(@, s)]
<1>1. q \in DOMAIN requests /\ OptimizationTypes /\ PlacesInv /\ UndoInv /\ CopyInv /\ Undone
  BY DEF UnderWay, OptInv
<1>2. /\ x.at = "copying" /\ requests' = [requests EXCEPT ![q] = y]
      /\ backups' = [backups EXCEPT ![q] = Append(@, files[P])]
      /\ UNCHANGED <<proposal, files, rows, troubles, decisions, mixed>>
  BY DEF CopyOne, Path
<1>3. /\ x \in ChangeRequest /\ x.changes \in Seq(Paths) /\ x.saved \in Seq(SavedPath)
      /\ backups[q] \in Seq(Nat) /\ x.kind \in {"apply", "rollback"} /\ x.next \in Nat
      /\ DOMAIN backups = DOMAIN requests
  BY <1>1, RowTypes
<1>4. CopiesOf(x, backups[q])
  BY <1>1 DEF PlacesInv
<1>5. /\ x.kind = "apply" /\ x.row = 0 /\ x.next \in 1..Len(x.changes)
      /\ Len(x.saved) = x.next - 1 /\ Len(backups[q]) = Len(x.saved)
      /\ \A i \in 1..Len(backups[q]) : x.saved[i].existed <=> backups[q][i] # 0
  BY <1>2, <1>3, <1>4 DEF CopiesOf
<1>6. P \in Paths /\ files[P] \in Nat
  BY <1>1, <1>3, <1>5 DEF OptimizationTypes, Contents
<1>7. s \in SavedPath /\ s.path = P /\ (s.existed <=> files[P] # 0)
  BY <1>6 DEF SavedPath
<1> HIDE DEF s, P
<1>8. /\ y \in ChangeRequest /\ y.kind = x.kind /\ y.row = x.row /\ y.before = x.before
      /\ y.at = "writing" /\ y.next = x.next /\ y.changes = x.changes
      /\ y.saved = Append(x.saved, s)
  <2>1. Append(x.saved, s) \in Seq(SavedPath)
    BY <1>3, <1>7, SeqAppend
  <2> DEFINE z == [x EXCEPT !.at = "writing"]
  <2>2. z \in ChangeRequest /\ Same(x, z) /\ z.at = "writing" /\ z.next = x.next /\ z.saved = x.saved
    BY <1>3, ChangeAt
  <2>3. y = [z EXCEPT !.saved = Append(x.saved, s)]
    BY <2>2
  <2> HIDE DEF y, z, x
  <2>4. y \in ChangeRequest /\ Same(z, y) /\ y.at = z.at /\ y.next = z.next
        /\ y.saved = Append(x.saved, s)
    BY <2>1, <2>2, <2>3, ChangeSaved
  <2> QED BY <2>2, <2>4 DEF Same
<1>9. Moves(q, y)
  BY <1>2, <1>8 DEF Moves
<1> HIDE DEF y, x
<1>10. /\ Len(y.saved) = Len(x.saved) + 1 /\ Len(x.saved) \in Nat
       /\ y.saved[Len(x.saved) + 1] = s
       /\ \A i \in 1..Len(x.saved) : y.saved[i] = x.saved[i]
  BY <1>3, <1>7, <1>8
<1>11. /\ backups'[q] = Append(backups[q], files[P])
       /\ Len(backups'[q]) = Len(x.saved) + 1
       /\ backups'[q][Len(x.saved) + 1] = files[P]
       /\ \A i \in 1..Len(x.saved) : backups'[q][i] = backups[q][i]
       /\ backups'[q] \in Seq(Nat) /\ \A o \in DOMAIN backups : o # q => backups'[o] = backups[o]
  BY <1>1, <1>2, <1>3, <1>5, <1>6
<1>12. backups' \in Seq(Seq(Nat)) /\ Len(backups') = Len(backups)
  <2>1. backups \in Seq(Seq(Nat)) /\ q \in DOMAIN backups
    BY <1>1, <1>3 DEF OptimizationTypes
  <2>2. Append(backups[q], files[P]) \in Seq(Nat)
    BY <1>3, <1>6
  <2> QED BY <1>2, <2>1, <2>2, SeqUpdate
<1>13. y.saved[y.next].path = y.changes[y.next]
  <2>1. y.next = Len(x.saved) + 1
    BY <1>3, <1>5, <1>8
  <2> QED BY <1>7, <1>8, <1>10, <2>1 DEF P, x
<1>14. CopiesOf(y, backups'[q])
  <2>1. Len(backups'[q]) = Len(y.saved)
    BY <1>10, <1>11
  <2>2. ASSUME NEW i \in 1..Len(backups'[q]) PROVE y.saved[i].existed <=> backups'[q][i] # 0
    <3>1. CASE i \in 1..Len(x.saved)
      BY <1>5, <1>10, <1>11, <3>1
    <3>2. CASE i = Len(x.saved) + 1
      BY <1>7, <1>10, <1>11, <3>2
    <3> QED BY <1>10, <1>11, <3>1, <3>2
  <2>3. y.next \in 1..Len(y.changes) /\ Len(y.saved) = y.next
    BY <1>3, <1>5, <1>8, <1>10
  <2> QED BY <1>5, <1>8, <1>13, <2>1, <2>2, <2>3 DEF CopiesOf
<1>15. RowsKept(q, y)
  BY <1>1, <1>2 DEF RowsKept, OptimizationTypes
<1>16. ASSUME ~mixed
       PROVE  /\ PutBack(files', y.saved, Remaining(y), y.before)
              /\ FirstIsBefore(y.saved, backups'[q], y.before)
  <2>1. /\ PutBack(files, x.saved, Len(x.saved), x.before)
        /\ FirstIsBefore(x.saved, backups[q], x.before)
    BY <1>1, <1>2, <1>5, <1>16 DEF UndoInv, ApplyUndoes, Remaining, x
  <2>2. PutBack(files', y.saved, Len(x.saved) + 1, y.before)
    BY <1>2, <1>8, <1>10, <2>1 DEF PutBack
  <2>3. ASSUME NEW i \in 1..(Len(x.saved) + 1), FirstOf(y.saved, i)
        PROVE  backups'[q][i] = y.before[y.saved[i].path]
    <3>1. CASE i \in 1..Len(x.saved)
      <4>1. FirstOf(x.saved, i)
        BY <1>10, <2>3, <3>1 DEF FirstOf
      <4> QED BY <1>8, <1>10, <1>11, <2>1, <3>1, <4>1 DEF FirstIsBefore
    <3>2. CASE i = Len(x.saved) + 1
      <4>1. \A j \in 1..Len(x.saved) : x.saved[j].path # P
        BY <1>7, <1>10, <2>3, <3>2 DEF FirstOf
      <4>2. files[P] = x.before[P]
        BY <1>6, <2>1, <4>1 DEF PutBack
      <4> QED BY <1>7, <1>8, <1>10, <1>11, <3>2, <4>2
    <3> QED BY <1>10, <3>1, <3>2
  <2>4. Remaining(y) = Len(x.saved) + 1
    BY <1>8, <1>10 DEF Remaining
  <2> QED BY <1>10, <2>2, <2>3, <2>4 DEF FirstIsBefore
<1>17. UndoInv'
  <2>1. rows' = rows /\ mixed' = mixed /\ requests[q].kind = "apply"
    BY <1>2, <1>5 DEF x
  <2> QED BY <1>1, <1>9, <1>15, <1>16, <2>1, ApplyMoves
<1>18. CopyInv'
  <2>1. /\ \A o \in DOMAIN requests : o # q => requests'[o].saved = requests[o].saved
        /\ requests'[q].saved = y.saved
    BY <1>1, <1>9, MovedRequests
  <2>2. DOMAIN backups' = DOMAIN requests
    BY <1>3, <1>12 DEF OptimizationTypes
  <2> SUFFICES ASSUME NEW p \in Present
               PROVE \/ files[p] = 1 /\ \A o \in DOMAIN backups' : \A i \in DOMAIN backups'[o] : ~Saves(p, o, i)'
                     \/ \E o \in DOMAIN backups' : \E i \in DOMAIN backups'[o] : Saves(p, o, i)' /\ backups'[o][i] = 1
    BY <1>2 DEF CopyInv
  <2>3. DOMAIN backups'[q] = 1..(Len(x.saved) + 1) /\ DOMAIN backups[q] = 1..Len(x.saved)
    BY <1>3, <1>5, <1>11
  <2>n. PICK n \in Nat : n = Len(x.saved) + 1
    BY <1>10
  <2>a. \A i \in DOMAIN backups[q] :
           /\ i \in DOMAIN backups'[q] /\ backups'[q][i] = backups[q][i]
           /\ Saves(p, q, i)' <=> Saves(p, q, i)
    <3> TAKE i \in DOMAIN backups[q]
    <3>1. i \in 1..Len(x.saved) /\ i \in 1..(Len(x.saved) + 1)
      BY <1>10, <2>3
    <3>2. y.saved[i] = x.saved[i] /\ backups'[q][i] = backups[q][i]
      BY <1>10, <1>11, <3>1
    <3>3. requests'[q].saved[i] = requests[q].saved[i]
      BY <2>1, <3>2 DEF x
    <3> QED BY <2>3, <3>1, <3>2, <3>3 DEF Saves
  <2>b. \A o \in DOMAIN backups : \A i \in DOMAIN backups[o] : o # q =>
           /\ i \in DOMAIN backups'[o] /\ backups'[o][i] = backups[o][i]
           /\ Saves(p, o, i)' <=> Saves(p, o, i)
    BY <1>3, <1>11, <2>1 DEF Saves
  <2>4. \A o \in DOMAIN backups : \A i \in DOMAIN backups[o] :
           /\ i \in DOMAIN backups'[o] /\ backups'[o][i] = backups[o][i]
           /\ Saves(p, o, i)' <=> Saves(p, o, i)
    BY <2>a, <2>b
  <2>5. CASE \E o \in DOMAIN backups : \E i \in DOMAIN backups[o] : Saves(p, o, i) /\ backups[o][i] = 1
    BY <1>3, <2>2, <2>4, <2>5
  <2>6. CASE files[p] = 1 /\ \A o \in DOMAIN backups : \A i \in DOMAIN backups[o] : ~Saves(p, o, i)
    <3>1. CASE p = P
      <4>1. Saves(p, q, n)' /\ backups'[q][n] = 1 /\ n \in DOMAIN backups'[q]
        BY <1>7, <1>10, <1>11, <2>1, <2>3, <2>6, <2>n, <3>1 DEF Saves
      <4> QED BY <1>1, <2>2, <4>1
    <3>2. CASE p # P
      <4>1. \A i \in DOMAIN backups'[q] : i = n \/ i \in DOMAIN backups[q]
        BY <1>10, <2>3, <2>n
      <4>2. ~Saves(p, q, n)'
        BY <1>7, <1>10, <2>1, <2>n, <3>2 DEF Saves
      <4>a. \A o \in DOMAIN backups : \A i \in DOMAIN backups[o] : ~Saves(p, o, i)'
        BY <2>4, <2>6
      <4>3. \A o \in DOMAIN backups' : \A i \in DOMAIN backups'[o] : ~Saves(p, o, i)'
        BY <1>3, <1>11, <2>2, <4>1, <4>2, <4>a
      <4> QED BY <2>6, <4>3
    <3> QED BY <3>1, <3>2
  <2> QED BY <1>1, <2>5, <2>6 DEF CopyInv
<1>19. files' \in Contents /\ mixed' = mixed /\ proposal' = proposal /\ y.kind # "rollback"
  BY <1>1, <1>2, <1>5, <1>8 DEF OptimizationTypes
<1>20. \A r \in DOMAIN rows' : rows'[r].status = "rolled_back" /\ rows'[r].untouched =>
             rows'[r].left = rows'[r].before
  BY <1>1, <1>2 DEF Undone
<1> QED BY <1>9, <1>11, <1>12, <1>14, <1>15, <1>17, <1>18, <1>19, <1>20, StepKeeps

Ats == {"copying", "writing", "validating", "undoing", "restoring", "done"}

(* What a step of q starts from.                                            *)
LEMMA RequestFacts ==
  ASSUME OptInv, NEW q \in UnderWay
  PROVE  /\ q \in DOMAIN requests /\ requests[q].at # "done"
         /\ OptimizationTypes /\ PlacesInv /\ UndoInv /\ CopyInv /\ Undone
         /\ requests[q] \in ChangeRequest /\ requests[q].changes \in Seq(Paths)
         /\ requests[q].saved \in Seq(SavedPath) /\ Len(requests[q].saved) \in Nat
         /\ requests[q].next \in Nat /\ requests[q].kind \in {"apply", "rollback"}
         /\ backups[q] \in Seq(Nat) /\ DOMAIN backups = DOMAIN requests /\ q \in Nat
         /\ CopiesOf(requests[q], backups[q])
         /\ files \in Contents /\ requests[q].before \in Contents
         /\ rows \in Seq(ApplicationRow) /\ backups \in Seq(Seq(Nat))
<1>1. q \in DOMAIN requests /\ requests[q].at # "done"
  BY DEF UnderWay
<1>2. OptimizationTypes /\ PlacesInv /\ UndoInv /\ CopyInv /\ Undone
  BY DEF OptInv
<1>3. CopiesOf(requests[q], backups[q])
  BY <1>1, <1>2 DEF PlacesInv
<1>4. files \in Contents /\ rows \in Seq(ApplicationRow) /\ backups \in Seq(Seq(Nat))
  BY <1>2 DEF OptimizationTypes
<1> QED BY <1>1, <1>2, <1>3, <1>4, RowTypes

LEMMA AtMoves ==
  ASSUME OptInv, NEW q \in UnderWay, NEW at \in Ats, NEW y, y = [requests[q] EXCEPT !.at = at],
         Goes(q, at)
  PROVE  /\ Moves(q, y) /\ Same(requests[q], y) /\ y.at = at
         /\ y.next = requests[q].next /\ y.saved = requests[q].saved
<1>1. q \in DOMAIN requests /\ requests[q] \in ChangeRequest
  BY RequestFacts
<1>2. y \in ChangeRequest /\ Same(requests[q], y) /\ y.at = at /\ y.next = requests[q].next
      /\ y.saved = requests[q].saved
  BY <1>1, ChangeAt DEF Ats
<1>3. requests' = [requests EXCEPT ![q] = y]
  BY DEF Goes
<1> QED BY <1>2, <1>3 DEF Moves, Same

Becomes(q, y) == requests' = [requests EXCEPT ![q] = y]

LEMMA NextMoves ==
  ASSUME OptInv, NEW q \in UnderWay, NEW n \in Nat, NEW y, y = [requests[q] EXCEPT !.next = n],
         Becomes(q, y)
  PROVE  /\ Moves(q, y) /\ Same(requests[q], y) /\ y.at = requests[q].at
         /\ y.next = n /\ y.saved = requests[q].saved
<1>1. q \in DOMAIN requests /\ requests[q] \in ChangeRequest
  BY RequestFacts
<1>2. y \in ChangeRequest /\ Same(requests[q], y) /\ y.at = requests[q].at /\ y.next = n
      /\ y.saved = requests[q].saved
  BY <1>1, ChangeNext
<1> QED BY <1>2 DEF Moves, Same, Becomes

Placed(q, at, n) == requests' = [requests EXCEPT ![q].at = at, ![q].next = n]

LEMMA PlaceMoves ==
  ASSUME OptInv, NEW q \in UnderWay, NEW at \in Ats, NEW n \in Nat, Placed(q, at, n)
  PROVE  \E y : /\ Moves(q, y) /\ Same(requests[q], y) /\ y.at = at
                /\ y.next = n /\ y.saved = requests[q].saved
<1>1. q \in DOMAIN requests /\ requests[q] \in ChangeRequest
  BY RequestFacts
<1> DEFINE z == [requests[q] EXCEPT !.at = at]
           y == [z EXCEPT !.next = n]
<1>2. z \in ChangeRequest /\ Same(requests[q], z) /\ z.at = at /\ z.saved = requests[q].saved
  BY <1>1, ChangeAt DEF Ats
<1>3. requests' = [requests EXCEPT ![q] = y]
  BY DEF Placed
<1> HIDE DEF z
<1>4. y \in ChangeRequest /\ Same(z, y) /\ y.at = z.at /\ y.next = n /\ y.saved = z.saved
  BY <1>2, ChangeNext
<1> HIDE DEF y
<1> QED BY <1>2, <1>3, <1>4 DEF Moves, Same

(* The rows stay.                                                           *)
LEMMA RowsStay ==
  ASSUME OptInv, NEW q, NEW y, rows' = rows
  PROVE  /\ RowsKept(q, y)
         /\ \A r \in DOMAIN rows' : rows'[r].status = "rolled_back" /\ rows'[r].untouched =>
                rows'[r].left = rows'[r].before
BY DEF RowsKept, OptInv, OptimizationTypes, Undone

LEMMA WriteOneKeeps ==
  ASSUME PathsGiven, OptInv, NEW q \in UnderWay, WriteOne(q) PROVE OptInv'
<1>1. PICK x : x = requests[q]
  OBVIOUS
<1>2. PICK P : P = x.changes[x.next]
  OBVIOUS
<1>3. /\ x.at = "writing" /\ files' = [files EXCEPT ![P] = 10 * q + x.next]
      /\ IF x.next = Len(x.changes) THEN Goes(q, "validating")
         ELSE Placed(q, "copying", x.next + 1)
      /\ UNCHANGED <<proposal, backups, rows, troubles, decisions, mixed>>
  BY <1>1, <1>2 DEF WriteOne, Path, Placed
<1>4. /\ x \in ChangeRequest /\ x.changes \in Seq(Paths) /\ x.saved \in Seq(SavedPath)
      /\ x.next \in Nat /\ x.kind \in {"apply", "rollback"} /\ CopiesOf(x, backups[q])
  BY <1>1, RequestFacts
<1>5. /\ x.kind = "apply" /\ x.row = 0 /\ x.next \in 1..Len(x.changes) /\ Len(x.saved) = x.next
      /\ Len(backups[q]) = Len(x.saved) /\ x.saved[x.next].path = P
      /\ \A i \in 1..Len(backups[q]) : x.saved[i].existed <=> backups[q][i] # 0
  BY <1>2, <1>3, <1>4 DEF CopiesOf
<1>6. P \in Paths /\ files' \in Contents /\ \A p \in Paths : p # P => files'[p] = files[p]
  <2>1. P \in Paths
    BY <1>2, <1>4, <1>5
  <2>2. q \in Nat
    BY RequestFacts
  <2>3. 10 * q + x.next \in Nat
    BY <1>4, <2>2
  <2> QED BY <1>3, <2>1, <2>3, RequestFacts DEF Contents
<1>7. PICK y : /\ Moves(q, y) /\ Same(x, y) /\ y.saved = x.saved
               /\ \/ x.next = Len(x.changes) /\ y.at = "validating" /\ y.next = x.next
                  \/ x.next # Len(x.changes) /\ y.at = "copying" /\ y.next = x.next + 1
  <2>1. CASE x.next = Len(x.changes)
    <3>1. PICK z : z = [requests[q] EXCEPT !.at = "validating"]
      OBVIOUS
    <3>2. Goes(q, "validating") /\ "validating" \in Ats
      BY <1>3, <2>1 DEF Ats
    <3>3. Moves(q, z) /\ Same(x, z) /\ z.at = "validating" /\ z.next = x.next /\ z.saved = x.saved
      BY ONLY <1>1, <3>1, <3>2, OptInv, q \in UnderWay, AtMoves
    <3> QED BY <2>1, <3>3
  <2>2. CASE x.next # Len(x.changes)
    <3>1. Placed(q, "copying", x.next + 1) /\ x.next + 1 \in Nat /\ "copying" \in Ats
      BY <1>3, <1>4, <2>2 DEF Ats
    <3> QED BY ONLY <1>1, <2>2, <3>1, OptInv, q \in UnderWay, PlaceMoves
  <2> QED BY <2>1, <2>2
<1>8. y.kind = "apply" /\ y.row = 0 /\ y.before = x.before /\ y.changes = x.changes
  BY <1>5, <1>7 DEF Same
<1>9. Len(x.changes) \in Nat /\ Len(x.saved) \in Nat
  BY <1>4
<1>10. CopiesOf(y, backups'[q])
  BY <1>3, <1>4, <1>5, <1>7, <1>8, <1>9 DEF CopiesOf
<1>11. Remaining(y) = Len(x.saved) /\ Remaining(x) = Len(x.saved)
  BY <1>3, <1>7 DEF Remaining
<1>12. ASSUME ~mixed
       PROVE  /\ PutBack(files', y.saved, Remaining(y), y.before)
              /\ FirstIsBefore(y.saved, backups'[q], y.before)
  <2>1. /\ PutBack(files, x.saved, Len(x.saved), x.before)
        /\ FirstIsBefore(x.saved, backups[q], x.before)
    BY <1>1, <1>5, <1>11, <1>12, RequestFacts DEF UndoInv, ApplyUndoes
  <2>2. x.next \in 1..Len(x.saved)
    BY <1>5, <1>9
  <2> QED BY <1>3, <1>5, <1>6, <1>7, <1>8, <1>11, <2>1, <2>2 DEF PutBack
<1>13. UndoInv'
  BY <1>1, <1>3, <1>5, <1>7, <1>12, RowsStay, RequestFacts, ApplyMoves
<1>14. CopyInv'
  <2>1. x.next \in DOMAIN backups[q] /\ Saves(P, q, x.next) /\ q \in DOMAIN backups
    BY <1>1, <1>4, <1>5, <1>9, RequestFacts DEF Saves
  <2> QED BY <1>1, <1>3, <1>6, <1>7, <2>1, CopiesStay
<1> QED BY <1>3, <1>6, <1>7, <1>8, <1>10, <1>13, <1>14, RowsStay, RequestFacts, StepKeeps

LEMMA ApplyFailsKeeps ==
  ASSUME PathsGiven, OptInv, NEW q \in UnderWay, ApplyFails(q) PROVE OptInv'
<1>1. PICK x : x = requests[q]
  OBVIOUS
<1>3. /\ x.at \in {"copying", "writing", "validating"} /\ Placed(q, "undoing", 1)
      /\ UNCHANGED <<proposal, files, backups, rows, decisions, mixed>>
  BY <1>1 DEF ApplyFails, Placed
<1>4. /\ x.saved \in Seq(SavedPath) /\ Len(x.saved) \in Nat
      /\ x.kind \in {"apply", "rollback"} /\ CopiesOf(x, backups[q])
  BY <1>1, RequestFacts
<1>5. /\ x.kind = "apply" /\ x.row = 0 /\ Len(backups[q]) = Len(x.saved)
      /\ \A i \in 1..Len(backups[q]) : x.saved[i].existed <=> backups[q][i] # 0
  BY <1>3, <1>4 DEF CopiesOf
<1>6. PICK y : Moves(q, y) /\ Same(x, y) /\ y.saved = x.saved /\ y.at = "undoing" /\ y.next = 1
  <2>1. "undoing" \in Ats /\ 1 \in Nat
    BY DEF Ats
  <2> QED BY ONLY <1>1, <1>3, <2>1, OptInv, q \in UnderWay, PlaceMoves
<1>7. y.kind = "apply" /\ y.row = 0 /\ y.before = x.before
  BY <1>5, <1>6 DEF Same
<1>8. CopiesOf(y, backups'[q])
  BY <1>3, <1>4, <1>5, <1>6, <1>7 DEF CopiesOf
<1>9. Remaining(y) = Len(x.saved) /\ Remaining(x) = Len(x.saved)
  BY <1>3, <1>4, <1>6 DEF Remaining
<1>10. ASSUME ~mixed
       PROVE  /\ PutBack(files', y.saved, Remaining(y), y.before)
              /\ FirstIsBefore(y.saved, backups'[q], y.before)
  BY <1>1, <1>3, <1>5, <1>6, <1>7, <1>9, <1>10, RequestFacts DEF UndoInv, ApplyUndoes
<1>11. UndoInv'
  BY <1>1, <1>3, <1>5, <1>6, <1>10, RowsStay, RequestFacts, ApplyMoves
<1>12. CopyInv'
  BY <1>1, <1>3, <1>6, CopiesStay
<1> QED BY <1>3, <1>6, <1>7, <1>8, <1>11, <1>12, RowsStay, RequestFacts, StepKeeps

Statuses == {"applied", "rolled_back", "failed"}

(* The row that q adds.                                                     *)
AddsRow(q, status, n) ==
    /\ rows' \in Seq(ApplicationRow) /\ n \notin DOMAIN rows /\ DOMAIN rows' = DOMAIN rows \cup {n}
    /\ \A r \in DOMAIN rows : rows'[r] = rows[r]
    /\ rows'[n].by = q /\ rows'[n].saved = requests[q].saved
    /\ rows'[n].before = requests[q].before /\ rows'[n].left = files'
    /\ rows'[n].status = status /\ (rows'[n].untouched <=> ~mixed)

LEMMA RowAdded ==
  ASSUME OptInv, NEW q \in UnderWay, NEW status \in Statuses, AddApplication(q, status),
         files' \in Contents
  PROVE  \E n \in Nat \ {0} : AddsRow(q, status, n)
<1> DEFINE w == [status |-> status, saved |-> requests[q].saved, before |-> requests[q].before,
                 left |-> files', untouched |-> ~mixed, by |-> q,
                 rollback |-> CASE status = "applied" -> "not_requested"
                                [] status = "rolled_back" -> "completed"
                                [] OTHER -> "failed"]
<1>1. /\ rows \in Seq(ApplicationRow) /\ requests[q].saved \in Seq(SavedPath)
      /\ requests[q].before \in Contents /\ q \in Nat
  BY RequestFacts
<1>2. (CASE status = "applied" -> "not_requested" [] status = "rolled_back" -> "completed"
         [] OTHER -> "failed") \in {"not_requested", "completed", "failed"}
  BY DEF Statuses
<1>3. w \in ApplicationRow
  <2> DEFINE b == CASE status = "applied" -> "not_requested" [] status = "rolled_back" -> "completed"
                    [] OTHER -> "failed"
  <2>1. b \in {"not_requested", "completed", "failed"}
    BY <1>2
  <2>2. (~mixed) \in BOOLEAN
    OBVIOUS
  <2> HIDE DEF b
  <2> QED BY <1>1, <2>1, <2>2 DEF ApplicationRow, Statuses
<1>4. /\ w.by = q /\ w.saved = requests[q].saved /\ w.before = requests[q].before
      /\ w.left = files' /\ w.status = status /\ (w.untouched <=> ~mixed)
  OBVIOUS
<1>5. rows' = Append(rows, w)
  BY DEF AddApplication
<1> HIDE DEF w
<1>6. /\ rows' \in Seq(ApplicationRow) /\ Len(rows) \in Nat
      /\ DOMAIN rows' = 1..(Len(rows) + 1) /\ DOMAIN rows = 1..Len(rows)
      /\ rows'[Len(rows) + 1] = w /\ \A r \in 1..Len(rows) : rows'[r] = rows[r]
  BY <1>1, <1>3, <1>5, SeqAppend
<1>7. PICK n \in Nat \ {0} : n = Len(rows) + 1
  BY <1>6
<1>8. n \notin DOMAIN rows /\ DOMAIN rows' = DOMAIN rows \cup {n}
  BY <1>6, <1>7
<1>9. rows'[n] = w
  BY <1>6, <1>7
<1> QED BY <1>4, <1>6, <1>8, <1>9 DEF AddsRow

LEMMA ValidateKeeps ==
  ASSUME PathsGiven, OptInv, NEW q \in UnderWay, Validate(q) PROVE OptInv'
<1>1. PICK x : x = requests[q]
  OBVIOUS
<1>2. /\ x.at = "validating" /\ Goes(q, "done") /\ AddApplication(q, "applied")
      /\ UNCHANGED <<proposal, files, backups, troubles, decisions, mixed>>
  BY <1>1 DEF Validate
<1>3. /\ x.saved \in Seq(SavedPath) /\ Len(x.saved) \in Nat
      /\ x.kind \in {"apply", "rollback"} /\ CopiesOf(x, backups[q])
  BY <1>1, RequestFacts
<1>4. /\ x.kind = "apply" /\ x.row = 0 /\ Len(backups[q]) = Len(x.saved)
      /\ \A i \in 1..Len(backups[q]) : x.saved[i].existed <=> backups[q][i] # 0
  BY <1>2, <1>3 DEF CopiesOf
<1>5. PICK y : Moves(q, y) /\ Same(x, y) /\ y.saved = x.saved /\ y.at = "done" /\ y.next = x.next
  <2>1. PICK y : y = [requests[q] EXCEPT !.at = "done"]
    OBVIOUS
  <2>2. "done" \in Ats
    BY DEF Ats
  <2> QED BY ONLY <1>1, <1>2, <2>1, <2>2, OptInv, q \in UnderWay, AtMoves
<1>6. y.kind = "apply" /\ y.row = 0 /\ y.before = x.before
  BY <1>4, <1>5 DEF Same
<1>7. files' \in Contents /\ "applied" \in Statuses
  BY <1>2, RequestFacts DEF Statuses
<1>a. PICK n \in Nat \ {0} : AddsRow(q, "applied", n)
  BY <1>2, <1>7, RowAdded
<1>8. /\ rows' \in Seq(ApplicationRow) /\ n \notin DOMAIN rows /\ DOMAIN rows' = DOMAIN rows \cup {n}
      /\ \A r \in DOMAIN rows : rows'[r] = rows[r]
      /\ rows'[n].by = q /\ rows'[n].saved = requests[q].saved
      /\ rows'[n].before = requests[q].before /\ rows'[n].left = files'
      /\ rows'[n].status = "applied" /\ (rows'[n].untouched <=> ~mixed)
  BY <1>a DEF AddsRow
<1>9. RowsKept(q, y)
  BY <1>1, <1>5, <1>6, <1>8 DEF RowsKept
<1>10. CopiesOf(y, backups'[q])
  BY <1>2, <1>3, <1>4, <1>5, <1>6 DEF CopiesOf
<1>11. ASSUME ~mixed
       PROVE  PutBack(files', y.saved, Len(y.saved), y.before) /\ FirstWasAbsent(y.saved, y.before)
  <2>1. /\ PutBack(files, x.saved, Remaining(x), x.before)
        /\ FirstIsBefore(x.saved, backups[q], x.before)
    BY <1>1, <1>4, <1>11, RequestFacts DEF UndoInv, ApplyUndoes
  <2>2. Remaining(x) = Len(x.saved)
    BY <1>2 DEF Remaining
  <2>3. FirstWasAbsent(x.saved, x.before)
    BY <1>4, <2>1 DEF FirstWasAbsent, FirstIsBefore
  <2> QED BY <1>2, <1>5, <1>6, <2>1, <2>2, <2>3
<1>12. UndoInv'
  BY <1>1, <1>2, <1>4, <1>5, <1>9, <1>11, RequestFacts, ApplyMoves
<1>13. CopyInv'
  BY <1>1, <1>2, <1>5, CopiesStay
<1>14. \A r \in DOMAIN rows' : rows'[r].status = "rolled_back" /\ rows'[r].untouched =>
           rows'[r].left = rows'[r].before
  BY <1>8, RequestFacts DEF Undone
<1> QED BY <1>2, <1>5, <1>6, <1>7, <1>9, <1>10, <1>12, <1>13, <1>14, RequestFacts, StepKeeps

LEMMA UndoEndsKeeps ==
  ASSUME PathsGiven, OptInv, NEW q \in UnderWay, UndoEnds(q) PROVE OptInv'
<1>1. PICK x : x = requests[q]
  OBVIOUS
<1>2. PICK status \in Statuses :
        /\ x.at = "undoing" /\ Goes(q, "done") /\ AddApplication(q, status)
        /\ UNCHANGED <<proposal, files, backups, decisions, mixed>>
        /\ status # "applied" /\ (status = "rolled_back" => x.next > Len(x.saved))
  BY <1>1 DEF UndoEnds, Statuses
<1>3. /\ x.saved \in Seq(SavedPath) /\ Len(x.saved) \in Nat /\ x.before \in Contents
      /\ x.kind \in {"apply", "rollback"} /\ CopiesOf(x, backups[q]) /\ x.next \in Nat
  BY <1>1, RequestFacts
<1>4. /\ x.kind = "apply" /\ x.row = 0 /\ Len(backups[q]) = Len(x.saved)
      /\ \A i \in 1..Len(backups[q]) : x.saved[i].existed <=> backups[q][i] # 0
      /\ x.next \in 1..(Len(x.saved) + 1)
  BY <1>2, <1>3 DEF CopiesOf
<1>5. PICK y : Moves(q, y) /\ Same(x, y) /\ y.saved = x.saved /\ y.at = "done" /\ y.next = x.next
  <2>1. PICK y : y = [requests[q] EXCEPT !.at = "done"]
    OBVIOUS
  <2>2. "done" \in Ats
    BY DEF Ats
  <2> QED BY ONLY <1>1, <1>2, <2>1, <2>2, OptInv, q \in UnderWay, AtMoves
<1>6. y.kind = "apply" /\ y.row = 0 /\ y.before = x.before
  BY <1>4, <1>5 DEF Same
<1>7. files' \in Contents
  BY <1>2, RequestFacts
<1>a. PICK n \in Nat \ {0} : AddsRow(q, status, n)
  BY <1>2, <1>7, RowAdded
<1>8. /\ rows' \in Seq(ApplicationRow) /\ n \notin DOMAIN rows /\ DOMAIN rows' = DOMAIN rows \cup {n}
      /\ \A r \in DOMAIN rows : rows'[r] = rows[r]
      /\ rows'[n].by = q /\ rows'[n].saved = requests[q].saved
      /\ rows'[n].before = requests[q].before /\ rows'[n].left = files'
      /\ rows'[n].status = status /\ (rows'[n].untouched <=> ~mixed)
  BY <1>a DEF AddsRow
<1>9. RowsKept(q, y)
  BY <1>1, <1>5, <1>6, <1>8 DEF RowsKept
<1>10. CopiesOf(y, backups'[q])
  BY <1>2, <1>3, <1>4, <1>5, <1>6 DEF CopiesOf
<1>11. UndoInv'
  <2>1. \A r \in DOMAIN rows' : r \notin DOMAIN rows => rows'[r].status # "applied"
    BY <1>2, <1>8
  <2> QED BY <1>1, <1>2, <1>4, <1>5, <1>9, <2>1, RequestFacts, ApplyMoves
<1>12. CopyInv'
  BY <1>1, <1>2, <1>5, CopiesStay
<1>13. \A r \in DOMAIN rows' : rows'[r].status = "rolled_back" /\ rows'[r].untouched =>
           rows'[r].left = rows'[r].before
  <2>1. ASSUME status = "rolled_back", ~mixed PROVE files = x.before
    <3>1. PutBack(files, x.saved, Remaining(x), x.before)
      BY <1>1, <1>4, <2>1, RequestFacts DEF UndoInv, ApplyUndoes
    <3>2. Remaining(x) = 0
      BY <1>2, <1>3, <1>4, <2>1 DEF Remaining
    <3>3. \A p \in Paths : files[p] = x.before[p]
      BY <3>1, <3>2 DEF PutBack
    <3> QED BY <1>3, <3>3, RequestFacts DEF Contents
  <2> QED BY <1>1, <1>2, <1>8, <2>1, RequestFacts DEF Undone
<1> QED BY <1>2, <1>5, <1>6, <1>7, <1>9, <1>10, <1>11, <1>12, <1>13, RequestFacts, StepKeeps

LEMMA Reversed ==
  ASSUME NEW S, NEW s \in Seq(S), NEW i \in 1..Len(s)
  PROVE  Reverse(s)[i] = s[Len(s) + 1 - i] /\ Len(s) + 1 - i \in 1..Len(s)
<1>1. Len(s) \in Nat
  OBVIOUS
<1>2. Reverse(s)[i] = s[(Len(s) - i) + 1]
  BY DEF Reverse
<1>3. (Len(s) - i) + 1 = Len(s) + 1 - i /\ Len(s) + 1 - i \in 1..Len(s)
  BY <1>1
<1> QED BY <1>2, <1>3

LEMMA UndoOneKeeps ==
  ASSUME PathsGiven, OptInv, NEW q \in UnderWay, UndoOne(q) PROVE OptInv'
<1>1. PICK x : x = requests[q]
  OBVIOUS
<1>2. PICK k : k = Len(x.saved) + 1 - x.next
  OBVIOUS
<1>3. /\ x.saved \in Seq(SavedPath) /\ Len(x.saved) \in Nat /\ x.before \in Contents
      /\ x.kind \in {"apply", "rollback"} /\ CopiesOf(x, backups[q]) /\ x.next \in Nat
      /\ backups[q] \in Seq(Nat)
  BY <1>1, RequestFacts
<1>4. x.at = "undoing" /\ x.next <= Len(x.saved)
  BY <1>1 DEF UndoOne
<1>5. /\ x.kind = "apply" /\ x.row = 0 /\ Len(backups[q]) = Len(x.saved)
      /\ \A i \in 1..Len(backups[q]) : x.saved[i].existed <=> backups[q][i] # 0
      /\ x.next \in 1..(Len(x.saved) + 1)
  BY <1>3, <1>4 DEF CopiesOf
<1>6. x.next \in 1..Len(x.saved) /\ x.next \in 1..Len(backups[q])
  BY <1>3, <1>4, <1>5
<1>7. /\ UndoOrder(x.saved)[x.next] = x.saved[k] /\ UndoOrder(backups[q])[x.next] = backups[q][k]
      /\ k \in 1..Len(x.saved)
  <2>1. /\ Reverse(x.saved)[x.next] = x.saved[Len(x.saved) + 1 - x.next]
        /\ Len(x.saved) + 1 - x.next \in 1..Len(x.saved)
    BY ONLY <1>3, <1>6, Reversed
  <2>2. Reverse(backups[q])[x.next] = backups[q][Len(backups[q]) + 1 - x.next]
    BY ONLY <1>3, <1>6, Reversed
  <2> QED BY <1>2, <1>5, <2>1, <2>2 DEF UndoOrder
<1>8. PICK P : P = x.saved[k].path
  OBVIOUS
<1>9. PICK v : v = IF x.saved[k].existed THEN backups[q][k] ELSE 0
  OBVIOUS
<1>10. /\ files' = [files EXCEPT ![P] = v]
       /\ UNCHANGED <<proposal, backups, rows, troubles, decisions, mixed>>
  BY <1>1, <1>7, <1>8, <1>9 DEF UndoOne
<1>11. v = backups[q][k] /\ v \in Nat /\ P \in Paths
  <2>1. x.saved[k] \in SavedPath /\ backups[q][k] \in Nat
    BY <1>3, <1>5, <1>7
  <2> QED BY <1>5, <1>7, <1>8, <1>9, <2>1 DEF SavedPath
<1>12. files' \in Contents /\ files'[P] = v /\ \A p \in Paths : p # P => files'[p] = files[p]
  BY <1>10, <1>11, RequestFacts DEF Contents
<1>13. x.next + 1 \in Nat
  BY <1>3
<1>14. PICK y : y = [requests[q] EXCEPT !.next = x.next + 1]
  OBVIOUS
<1>15. Moves(q, y) /\ Same(x, y) /\ y.saved = x.saved /\ y.at = "undoing" /\ y.next = x.next + 1
  <2>1. Becomes(q, y)
    BY <1>1, <1>14 DEF UndoOne, Becomes
  <2> QED BY ONLY <1>1, <1>4, <1>13, <1>14, <2>1, OptInv, q \in UnderWay, NextMoves
<1>16. y.kind = "apply" /\ y.row = 0 /\ y.before = x.before
  BY <1>5, <1>15 DEF Same
<1>17. CopiesOf(y, backups'[q])
  BY <1>3, <1>5, <1>6, <1>10, <1>15, <1>16 DEF CopiesOf
<1>18. Remaining(x) = k /\ Remaining(y) = k - 1
  BY <1>2, <1>3, <1>4, <1>15 DEF Remaining
<1>19. ASSUME ~mixed
       PROVE  /\ PutBack(files', y.saved, Remaining(y), y.before)
              /\ FirstIsBefore(y.saved, backups'[q], y.before)
  <2>1. /\ PutBack(files, x.saved, k, x.before)
        /\ FirstIsBefore(x.saved, backups[q], x.before)
    BY <1>1, <1>5, <1>18, <1>19, RequestFacts DEF UndoInv, ApplyUndoes
  <2>2. ASSUME NEW p \in Paths, \A i \in 1..(k - 1) : x.saved[i].path # p
        PROVE  files'[p] = x.before[p]
    <3>1. CASE p = P
      <4>1. FirstOf(x.saved, k)
        BY <1>8, <2>2, <3>1 DEF FirstOf
      <4> QED BY <1>7, <1>8, <1>11, <1>12, <2>1, <3>1, <4>1 DEF FirstIsBefore
    <3>2. CASE p # P
      <4>1. \A i \in 1..k : x.saved[i].path # p
        BY <1>7, <1>8, <2>2, <3>2
      <4> QED BY <1>12, <2>1, <3>2, <4>1 DEF PutBack
    <3> QED BY <3>1, <3>2
  <2> QED BY <1>10, <1>15, <1>16, <1>18, <2>1, <2>2 DEF PutBack
<1>20. UndoInv'
  BY <1>1, <1>5, <1>10, <1>15, <1>19, RowsStay, RequestFacts, ApplyMoves
<1>21. CopyInv'
  <2>1. k \in DOMAIN backups[q] /\ Saves(P, q, k) /\ q \in DOMAIN backups
    BY <1>1, <1>3, <1>5, <1>7, <1>8, RequestFacts DEF Saves
  <2> QED BY <1>1, <1>10, <1>12, <1>15, <2>1, CopiesStay
<1> QED BY <1>10, <1>12, <1>15, <1>16, <1>17, <1>20, <1>21, RowsStay, RequestFacts, StepKeeps

(* A request begins; no other is under way unless they are mixed from here. *)
LEMMA BeginsKeeps ==
  ASSUME OptInv, NEW x \in ChangeRequest, Begins(x), files' = files, rows' = rows,
         proposal' = proposal, CopiesOf(x, <<>>), x.at # "done", x.before = files, x.next = 1,
         x.kind = "apply" => x.saved = <<>>,
         x.kind = "rollback" => /\ x.row \in DOMAIN rows /\ x.saved = rows[x.row].saved
                                /\ rows[x.row].status = "applied" /\ x.at = "restoring"
  PROVE  OptInv'
<1>1. /\ OptimizationTypes /\ PlacesInv /\ UndoInv /\ CopyInv /\ Undone
      /\ requests \in Seq(ChangeRequest) /\ backups \in Seq(Seq(Nat)) /\ Len(backups) = Len(requests)
  BY DEF OptInv, OptimizationTypes
<1>2. /\ requests' = Append(requests, x) /\ backups' = Append(backups, <<>>)
      /\ (mixed' <=> mixed \/ UnderWay # {})
  BY DEF Begins
<1>3. PICK n \in Nat \ {0} : n = Len(requests) + 1
  BY <1>1
<1>4. /\ requests' \in Seq(ChangeRequest) /\ Len(requests') = n /\ requests'[n] = x
      /\ DOMAIN requests' = DOMAIN requests \cup {n} /\ n \notin DOMAIN requests
      /\ \A q \in DOMAIN requests : requests'[q] = requests[q]
      /\ \A q \in DOMAIN requests : q \in Nat /\ q < n
  BY <1>1, <1>2, <1>3, SeqAppend
<1>5. <<>> \in Seq(Nat)
  OBVIOUS
<1>6. /\ backups' \in Seq(Seq(Nat)) /\ Len(backups') = n /\ backups'[n] = <<>>
      /\ DOMAIN backups' = DOMAIN requests' /\ DOMAIN backups = DOMAIN requests
      /\ \A q \in DOMAIN backups : backups'[q] = backups[q]
  BY <1>1, <1>2, <1>3, <1>4, <1>5, SeqAppend
<1>7. OptimizationTypes'
  <2>1. mixed' \in BOOLEAN
    BY DEF Begins
  <2> QED BY <1>1, <1>4, <1>6, <2>1 DEF OptimizationTypes
<1>8. PlacesInv'
  <2>1. \A q \in DOMAIN requests' : CopiesOf(requests'[q], backups'[q])
    BY <1>1, <1>4, <1>6 DEF PlacesInv
  <2>2. \A q \in DOMAIN requests' : CopiesOf(requests[q], backups[q])'
    BY <2>1 DEF CopiesOf
  <2>3. \A q \in DOMAIN requests' : requests'[q].kind = "rollback" =>
           requests'[q].row \in DOMAIN rows' /\ requests'[q].saved = rows'[requests'[q].row].saved
    BY <1>1, <1>4 DEF PlacesInv
  <2>4. \A r \in DOMAIN rows' :
           /\ rows'[r].by \in DOMAIN requests'
           /\ requests'[rows'[r].by].kind = "apply" /\ requests'[rows'[r].by].at = "done"
           /\ requests'[rows'[r].by].saved = rows'[r].saved
    BY <1>1, <1>4 DEF PlacesInv
  <2> QED BY <2>2, <2>3, <2>4 DEF PlacesInv
<1>9. UndoInv'
  <2> SUFFICES ASSUME ~mixed' PROVE (LastMoves /\ ApplyUndoes /\ RowUndoes /\ RollbackUndoes)'
    BY DEF UndoInv
  <2>1. ~mixed /\ UnderWay = {}
    BY <1>2
  <2>2. \A q \in UnderWay' : q = n
    BY <1>4, <2>1 DEF UnderWay
  <2>3. LastMoves'
    BY <1>4, <2>2 DEF LastMoves
  <2>4. \A r \in DOMAIN rows : Alone(r)' => Alone(r)
    BY <1>4 DEF Alone
  <2>5. RowUndoes'
    BY <1>1, <2>1, <2>4 DEF RowUndoes, UndoInv, PutBack, FirstWasAbsent, FirstOf
  <2>6. ApplyUndoes'
    <3>1. PutBack(files, <<>>, 0, files) /\ FirstIsBefore(<<>>, <<>>, files)
      BY DEF PutBack, FirstIsBefore
    <3>2. x.kind = "apply" => Remaining(x) = 0
      BY DEF Remaining, CopiesOf
    <3>3. x.kind = "apply" => /\ PutBack(files', x.saved, Remaining(x), x.before)
                              /\ FirstIsBefore(x.saved, backups'[n], x.before)
      BY <1>6, <3>1, <3>2
    <3> QED BY <1>4, <2>2, <3>3 DEF ApplyUndoes, PutBack, FirstIsBefore, Remaining, FirstOf
  <2>7. RollbackUndoes'
    <3>1. ASSUME x.kind = "rollback", Alone(x.row)
          PROVE  /\ rows[x.row].status = "applied"
                 /\ PutBack(files, x.saved, Remaining(x), rows[x.row].before)
      <4>1. PutBack(files, x.saved, Len(x.saved), rows[x.row].before)
        BY <1>1, <2>1, <3>1 DEF UndoInv, RowUndoes
      <4>2. Remaining(x) = Len(x.saved)
        BY <3>1 DEF Remaining, ChangeRequest
      <4> QED BY <3>1, <4>1, <4>2
    <3>2. x.kind = "rollback" => (Alone(x.row)' => Alone(x.row))
      BY <2>4
    <3> SUFFICES ASSUME n \in UnderWay', x.kind = "rollback", Alone(x.row)'
                 PROVE  /\ rows'[x.row].status = "applied"
                        /\ PutBack(files', x.saved, Remaining(x), rows'[x.row].before)
      BY <1>4, <2>2 DEF RollbackUndoes, PutBack, Remaining, Alone
    <3> QED BY <3>1, <3>2
  <2> QED BY <2>3, <2>5, <2>6, <2>7
<1>10. CopyInv'
  <2>1. \A p, i : \A o \in DOMAIN backups : Saves(p, o, i)' <=> Saves(p, o, i)
    BY <1>4, <1>6 DEF Saves
  <2>2. DOMAIN backups' = DOMAIN backups \cup {n} /\ DOMAIN backups'[n] = {}
    BY <1>4, <1>6
  <2> SUFFICES ASSUME NEW p \in Present
               PROVE \/ files[p] = 1 /\ \A o \in DOMAIN backups' : \A i \in DOMAIN backups'[o] : ~Saves(p, o, i)'
                     \/ \E o \in DOMAIN backups' : \E i \in DOMAIN backups'[o] : Saves(p, o, i)' /\ backups'[o][i] = 1
    BY DEF CopyInv
  <2>3. CASE \E o \in DOMAIN backups : \E i \in DOMAIN backups[o] : Saves(p, o, i) /\ backups[o][i] = 1
    BY <1>6, <2>1, <2>2, <2>3
  <2>4. CASE files[p] = 1 /\ \A o \in DOMAIN backups : \A i \in DOMAIN backups[o] : ~Saves(p, o, i)
    BY <1>6, <2>1, <2>2, <2>4
  <2> QED BY <1>1, <2>3, <2>4 DEF CopyInv
<1> QED BY <1>1, <1>7, <1>8, <1>9, <1>10 DEF OptInv, Undone

LEMMA ApplyKeeps ==
  ASSUME PathsGiven, OptInv, NEW granted, NEW changes \in ChangeLists, Apply(granted, changes)
  PROVE  OptInv'
<1> DEFINE x == [kind |-> "apply", changes |-> changes, at |-> "copying", next |-> 1,
                 saved |-> <<>>, row |-> 0, before |-> files]
<1>1. /\ Begins(x) /\ files' = files /\ rows' = rows /\ proposal' = proposal /\ changes # <<>>
  BY DEF Apply, Writable
<1>2. changes \in Seq(Paths) /\ <<>> \in Seq(SavedPath) /\ files \in Contents
  BY DEF PathsGiven, OptInv, OptimizationTypes
<1>3. x \in ChangeRequest
  BY <1>2 DEF ChangeRequest
<1>4. /\ x.kind = "apply" /\ x.changes = changes /\ x.at = "copying" /\ x.next = 1
      /\ x.saved = <<>> /\ x.row = 0 /\ x.before = files
  OBVIOUS
<1>5. 1 \in 1..Len(changes)
  BY <1>1, <1>2
<1> HIDE DEF x
<1>6. CopiesOf(x, <<>>)
  BY <1>4, <1>5 DEF CopiesOf
<1> QED BY <1>1, <1>3, <1>4, <1>6, BeginsKeeps

LEMMA RollbackKeeps ==
  ASSUME PathsGiven, OptInv, NEW r \in DOMAIN rows, Rollback(r) PROVE OptInv'
<1> DEFINE x == [kind |-> "rollback", changes |-> <<>>, at |-> "restoring", next |-> 1,
                 saved |-> rows[r].saved, row |-> r, before |-> files]
<1>1. /\ Begins(x) /\ files' = files /\ rows' = rows /\ proposal' = proposal
      /\ rows[r].status = "applied"
  BY DEF Rollback
<1>2. /\ <<>> \in Seq(Paths) /\ rows[r].saved \in Seq(SavedPath) /\ r \in Nat /\ files \in Contents
      /\ Len(rows[r].saved) \in Nat
  BY RowTypes DEF OptInv, OptimizationTypes
<1>3. x \in ChangeRequest
  BY <1>2 DEF ChangeRequest
<1>4. /\ x.kind = "rollback" /\ x.at = "restoring" /\ x.next = 1
      /\ x.saved = rows[r].saved /\ x.row = r /\ x.before = files
  OBVIOUS
<1> HIDE DEF x
<1>5. CopiesOf(x, <<>>)
  BY <1>2, <1>4 DEF CopiesOf
<1> QED BY <1>1, <1>3, <1>4, <1>5, BeginsKeeps

(* What a step of a rollback starts from.                                   *)
LEMMA RollbackFacts ==
  ASSUME OptInv, NEW q \in UnderWay, requests[q].at = "restoring"
  PROVE  /\ requests[q].kind = "rollback" /\ backups[q] = <<>>
         /\ requests[q].row \in DOMAIN rows /\ requests[q].saved = rows[requests[q].row].saved
         /\ requests[q].next \in 1..(Len(requests[q].saved) + 1)
         /\ \A k \in 1..Len(requests[q].saved) :
                \E o \in DOMAIN backups : k \in DOMAIN backups[o] /\ Saves(requests[q].saved[k].path, o, k)
<1>1. PICK x : x = requests[q]
  OBVIOUS
<1>2. /\ x.kind \in {"apply", "rollback"} /\ CopiesOf(x, backups[q]) /\ PlacesInv
      /\ q \in DOMAIN requests /\ DOMAIN backups = DOMAIN requests /\ OptimizationTypes
  BY <1>1, RequestFacts
<1>3. x.kind = "rollback" /\ backups[q] = <<>> /\ x.next \in 1..(Len(x.saved) + 1)
  BY <1>1, <1>2 DEF CopiesOf
<1>4. x.row \in DOMAIN rows /\ x.saved = rows[x.row].saved
  BY <1>1, <1>2, <1>3 DEF PlacesInv
<1>5. PICK o \in DOMAIN requests : o = rows[x.row].by /\ requests[o].kind = "apply"
                                   /\ requests[o].saved = x.saved
  BY <1>2, <1>4 DEF PlacesInv
<1>6. backups[o] \in Seq(Nat) /\ Len(backups[o]) = Len(x.saved)
  <2>1. CopiesOf(requests[o], backups[o])
    BY <1>2 DEF PlacesInv
  <2>2. backups[o] \in Seq(Nat)
    BY <1>2, RowTypes
  <2> QED BY <1>5, <2>1, <2>2 DEF CopiesOf
<1>7. \A k \in 1..Len(x.saved) : k \in DOMAIN backups[o] /\ Saves(x.saved[k].path, o, k)
  BY <1>5, <1>6 DEF Saves
<1> QED BY <1>1, <1>2, <1>3, <1>4, <1>7

LEMMA RestoreOneKeeps ==
  ASSUME PathsGiven, OptInv, NEW q \in UnderWay, RestoreOne(q) PROVE OptInv'
<1>1. PICK x : x = requests[q]
  OBVIOUS
<1>2. PICK k : k = Len(x.saved) + 1 - x.next
  OBVIOUS
<1>3. /\ x.saved \in Seq(SavedPath) /\ Len(x.saved) \in Nat /\ x.next \in Nat
      /\ x.at = "restoring" /\ x.next <= Len(x.saved)
  BY <1>1, RequestFacts DEF RestoreOne
<1>4. /\ x.kind = "rollback" /\ backups[q] = <<>> /\ x.row \in DOMAIN rows
      /\ x.saved = rows[x.row].saved /\ x.next \in 1..(Len(x.saved) + 1)
  BY <1>1, <1>3, RollbackFacts
<1>5. x.next \in 1..Len(x.saved)
  BY <1>3, <1>4
<1>6. Reverse(x.saved)[x.next] = x.saved[k] /\ k \in 1..Len(x.saved)
  <2>1. /\ Reverse(x.saved)[x.next] = x.saved[Len(x.saved) + 1 - x.next]
        /\ Len(x.saved) + 1 - x.next \in 1..Len(x.saved)
    BY ONLY <1>3, <1>5, Reversed
  <2> QED BY <1>2, <2>1
<1>7. PICK P : P = x.saved[k].path
  OBVIOUS
<1>8. /\ files' = [files EXCEPT ![P] = 0] /\ ~x.saved[k].existed
      /\ UNCHANGED <<proposal, backups, rows, troubles, decisions, mixed>>
  BY <1>1, <1>6, <1>7 DEF RestoreOne
<1>9. P \in Paths
  <2>1. x.saved[k] \in SavedPath
    BY <1>3, <1>6
  <2> QED BY <1>7, <2>1 DEF SavedPath
<1>10. files' \in Contents /\ files'[P] = 0 /\ \A p \in Paths : p # P => files'[p] = files[p]
  BY <1>8, <1>9, RequestFacts DEF Contents
<1>11. x.next + 1 \in Nat
  BY <1>3
<1>12. PICK y : y = [requests[q] EXCEPT !.next = x.next + 1]
  OBVIOUS
<1>13. Moves(q, y) /\ Same(x, y) /\ y.saved = x.saved /\ y.at = "restoring" /\ y.next = x.next + 1
  <2>1. Becomes(q, y)
    BY <1>1, <1>12 DEF RestoreOne, Becomes
  <2> QED BY ONLY <1>1, <1>3, <1>11, <1>12, <2>1, OptInv, q \in UnderWay, NextMoves
<1>14. y.kind = "rollback" /\ y.row = x.row /\ y.before = x.before
  BY <1>4, <1>13 DEF Same
<1>15. CopiesOf(y, backups'[q])
  BY <1>3, <1>4, <1>5, <1>8, <1>13, <1>14 DEF CopiesOf
<1>16. Remaining(x) = k /\ Remaining(y) = k - 1
  BY <1>2, <1>3, <1>13 DEF Remaining
<1>17. ASSUME PutBack(files, y.saved, Remaining(x), rows[y.row].before),
              FirstWasAbsent(y.saved, rows[y.row].before)
       PROVE  PutBack(files', y.saved, Remaining(y), rows[y.row].before)
  <2> SUFFICES ASSUME NEW p \in Paths, \A i \in 1..(k - 1) : x.saved[i].path # p
               PROVE  files'[p] = rows[x.row].before[p]
    BY <1>13, <1>14, <1>16 DEF PutBack
  <2>1. CASE p = P
    <3>1. FirstOf(x.saved, k)
      BY <1>7, <2>1 DEF FirstOf
    <3> QED BY <1>6, <1>7, <1>8, <1>10, <1>13, <1>14, <1>17, <2>1, <3>1 DEF FirstWasAbsent
  <2>2. CASE p # P
    <3>1. \A i \in 1..k : x.saved[i].path # p
      BY <1>6, <1>7, <2>2
    <3> QED BY <1>10, <1>13, <1>14, <1>16, <1>17, <2>2, <3>1 DEF PutBack
  <2> QED BY <2>1, <2>2
<1>18. UndoInv'
  <2>1. \A p \in Paths : files'[p] = files[p] \/ \E i \in 1..Len(y.saved) : y.saved[i].path = p
    BY <1>6, <1>7, <1>10, <1>13
  <2>2. RowsKept(q, y) /\ OptimizationTypes /\ PlacesInv /\ UndoInv
    BY <1>8, RowsStay, RequestFacts
  <2>3. PutBack(files, y.saved, Remaining(requests[q]), rows[y.row].before)
            /\ FirstWasAbsent(y.saved, rows[y.row].before) =>
                PutBack(files', y.saved, Remaining(y), rows[y.row].before)
    BY <1>1, <1>17
  <2>4. /\ rows' = rows /\ mixed' = mixed /\ requests[q].kind = "rollback"
        /\ y.saved = requests[q].saved
    BY <1>1, <1>4, <1>8, <1>13
  <2> QED BY <1>13, <2>1, <2>2, <2>3, <2>4, RollbackMoves
<1>19. CopyInv'
  <2>1. \E o \in DOMAIN backups : \E i \in DOMAIN backups[o] : Saves(P, o, i)
    BY <1>1, <1>3, <1>6, <1>7, RollbackFacts
  <2> QED BY <1>1, <1>8, <1>10, <1>13, <2>1, CopiesStay
<1> QED BY <1>1, <1>8, <1>10, <1>13, <1>14, <1>15, <1>18, <1>19, RowsStay, RequestFacts, StepKeeps

(* The row r as an update leaves it.                                        *)
UpdatesRow(r, status, left, untouched) ==
    /\ rows' \in Seq(ApplicationRow) /\ DOMAIN rows' = DOMAIN rows
    /\ \A o \in DOMAIN rows : o # r => rows'[o] = rows[o]
    /\ rows'[r].by = rows[r].by /\ rows'[r].saved = rows[r].saved
    /\ rows'[r].before = rows[r].before
    /\ rows'[r].status = status /\ rows'[r].left = left /\ rows'[r].untouched = untouched

LEMMA RowUpdated ==
  ASSUME OptInv, NEW r \in DOMAIN rows, NEW status \in Statuses,
         NEW rollback \in {"not_requested", "completed", "failed"}, NEW left \in Contents,
         NEW untouched \in BOOLEAN,
         UpdateOptimizationApplication(r, status, rollback, left, untouched)
  PROVE  UpdatesRow(r, status, left, untouched)
<1> DEFINE w == [rows[r] EXCEPT !.status = status, !.rollback = rollback, !.left = left,
                                !.untouched = untouched]
<1>1. rows \in Seq(ApplicationRow) /\ rows[r] \in ApplicationRow
  BY DEF OptInv, OptimizationTypes
<1>2. w \in ApplicationRow /\ w.by = rows[r].by /\ w.saved = rows[r].saved /\ w.before = rows[r].before
      /\ w.status = status /\ w.left = left /\ w.untouched = untouched
  BY <1>1 DEF ApplicationRow, Statuses
<1>3. rows' = [rows EXCEPT ![r] = w]
  BY DEF UpdateOptimizationApplication
<1> HIDE DEF w
<1> QED BY <1>1, <1>2, <1>3, SeqUpdate DEF UpdatesRow

(* A rollback ends, with what it says of its row.                           *)
LEMMA RestoredKeeps ==
  ASSUME PathsGiven, OptInv, NEW q \in UnderWay, requests[q].at = "restoring", Goes(q, "done"),
         files' = files, backups' = backups, mixed' = mixed, proposal' = proposal,
         NEW status \in Statuses, NEW left \in Contents, NEW untouched \in BOOLEAN,
         UpdatesRow(requests[q].row, status, left, untouched),
         status = "applied" => rows[requests[q].row].status = "applied",
         status = "rolled_back" /\ untouched => left = rows[requests[q].row].before
  PROVE  OptInv'
<1>1. PICK x : x = requests[q]
  OBVIOUS
<1>2. /\ x.kind = "rollback" /\ backups[q] = <<>> /\ x.row \in DOMAIN rows
      /\ x.saved = rows[x.row].saved
  BY <1>1, RollbackFacts
<1>3. PICK y : Moves(q, y) /\ Same(x, y) /\ y.saved = x.saved /\ y.at = "done" /\ y.next = x.next
  <2>1. PICK y : y = [requests[q] EXCEPT !.at = "done"]
    OBVIOUS
  <2>2. "done" \in Ats
    BY DEF Ats
  <2> QED BY ONLY <1>1, <2>1, <2>2, OptInv, q \in UnderWay, Goes(q, "done"), AtMoves
<1>4. y.kind = "rollback" /\ y.row = x.row /\ y.before = x.before
  BY <1>2, <1>3 DEF Same
<1>5. CopiesOf(y, backups'[q])
  BY <1>2, <1>3, <1>4 DEF CopiesOf
<1>6. /\ rows' \in Seq(ApplicationRow) /\ DOMAIN rows' = DOMAIN rows
      /\ \A o \in DOMAIN rows : o # x.row => rows'[o] = rows[o]
      /\ rows'[x.row].by = rows[x.row].by /\ rows'[x.row].saved = rows[x.row].saved
      /\ rows'[x.row].before = rows[x.row].before
      /\ rows'[x.row].status = status /\ rows'[x.row].left = left
      /\ rows'[x.row].untouched = untouched
  BY <1>1 DEF UpdatesRow
<1>7. RowsKept(q, y)
  BY <1>6 DEF RowsKept
<1>8. UndoInv'
  <2>1. \A r \in DOMAIN rows : rows'[r].status = "applied" => rows[r].status = "applied"
    BY <1>1, <1>6
  <2>2. \A p \in Paths : files'[p] = files[p]
    OBVIOUS
  <2> QED BY <1>1, <1>2, <1>3, <1>6, <1>7, <2>1, <2>2, RequestFacts, RollbackMoves
<1>9. CopyInv'
  BY <1>1, <1>3, CopiesStay
<1>10. \A r \in DOMAIN rows' : rows'[r].status = "rolled_back" /\ rows'[r].untouched =>
           rows'[r].left = rows'[r].before
  BY <1>1, <1>6, RequestFacts DEF Undone
<1>11. files' \in Contents /\ backups' \in Seq(Seq(Nat)) /\ Len(backups') = Len(backups)
  BY RequestFacts
<1> QED BY <1>1, <1>3, <1>5, <1>7, <1>8, <1>9, <1>10, <1>11, StepKeeps

LEMMA RestoreFailsKeeps ==
  ASSUME PathsGiven, OptInv, NEW q \in UnderWay, RestoreFails(q) PROVE OptInv'
<1>1. PICK r : r = requests[q].row
  OBVIOUS
<1>2. /\ requests[q].at = "restoring" /\ Goes(q, "done") /\ files' = files /\ backups' = backups
      /\ mixed' = mixed /\ proposal' = proposal
      /\ UpdateOptimizationApplication(r, rows[r].status, "failed", rows[r].left, rows[r].untouched)
  BY <1>1 DEF RestoreFails
<1>3. r \in DOMAIN rows
  BY <1>1, <1>2, RollbackFacts
<1>4. /\ rows[r] \in ApplicationRow /\ rows[r].status \in Statuses /\ rows[r].left \in Contents
      /\ rows[r].untouched \in BOOLEAN
  <2>1. rows[r] \in ApplicationRow
    BY <1>3, RowTypes DEF OptInv
  <2> QED BY <2>1 DEF ApplicationRow, Statuses
<1>5. UpdatesRow(r, rows[r].status, rows[r].left, rows[r].untouched)
  BY <1>2, <1>3, <1>4, RowUpdated
<1>6. rows[r].status = "rolled_back" /\ rows[r].untouched => rows[r].left = rows[r].before
  BY <1>3 DEF OptInv, Undone
<1> QED BY <1>1, <1>2, <1>4, <1>5, <1>6, RestoredKeeps

LEMMA RollbackEndsKeeps ==
  ASSUME PathsGiven, OptInv, NEW q \in UnderWay, RollbackEnds(q) PROVE OptInv'
<1>1. PICK x : x = requests[q]
  OBVIOUS
<1>u. PICK u \in BOOLEAN : u = (~mixed /\ Alone(x.row))
  OBVIOUS
<1>2. /\ x.at = "restoring" /\ x.next > Len(x.saved)
      /\ Goes(q, "done") /\ files' = files /\ backups' = backups
      /\ mixed' = mixed /\ proposal' = proposal
      /\ UpdateOptimizationApplication(x.row, "rolled_back", "completed", files, u)
  BY <1>1, <1>u DEF RollbackEnds
<1>3. /\ x.row \in DOMAIN rows /\ x.kind = "rollback" /\ x.next \in 1..(Len(x.saved) + 1)
      /\ x.saved \in Seq(SavedPath)
  BY <1>1, <1>2, RollbackFacts, RequestFacts
<1>4. files \in Contents /\ "rolled_back" \in Statuses /\ rows[x.row].before \in Contents
  BY <1>3, RequestFacts, RowTypes DEF Statuses
<1>5. UpdatesRow(x.row, "rolled_back", files, u)
  BY <1>2, <1>3, <1>4, <1>u, RowUpdated
<1>6. ASSUME u PROVE files = rows[x.row].before
  <2>1. ~mixed /\ Alone(x.row)
    BY <1>6, <1>u
  <2>2. PutBack(files, x.saved, Remaining(x), rows[x.row].before)
    BY <1>1, <1>3, <2>1, RequestFacts DEF UndoInv, RollbackUndoes
  <2>3. Remaining(x) = 0
    BY <1>2, <1>3 DEF Remaining
  <2>4. \A p \in Paths : files[p] = rows[x.row].before[p]
    BY <2>2, <2>3 DEF PutBack
  <2> QED BY <1>4, <2>4 DEF Contents
<1> QED BY <1>1, <1>2, <1>4, <1>5, <1>6, <1>u, RestoredKeeps

LEMMA DecisionKeeps ==
  ASSUME OptInv, UNCHANGED <<files, backups, requests, rows, mixed>>,
         proposal' \in {"none", "pending", "accepted", "rejected"}
  PROVE  OptInv'
<1>1. OptimizationTypes'
  BY DEF OptInv, OptimizationTypes
<1>2. PlacesInv'
  BY DEF OptInv, PlacesInv, CopiesOf
<1>3. UnderWay' = UnderWay /\ \A r : Alone(r)' <=> Alone(r)
  BY DEF UnderWay, Alone
<1>4. LastMoves' <=> LastMoves
  BY <1>3 DEF LastMoves
<1>5. ApplyUndoes' <=> ApplyUndoes
  BY <1>3 DEF ApplyUndoes, PutBack, FirstIsBefore, FirstOf, Remaining
<1>6. RowUndoes' <=> RowUndoes
  BY <1>3 DEF RowUndoes, PutBack, FirstWasAbsent, FirstOf
<1>7. RollbackUndoes' <=> RollbackUndoes
  BY <1>3 DEF RollbackUndoes, PutBack, Remaining, Alone, UnderWay
<1>8. UndoInv'
  BY <1>4, <1>5, <1>6, <1>7 DEF OptInv, UndoInv
<1>9. CopyInv' /\ Undone'
  BY DEF OptInv, CopyInv, Saves, Undone
<1> QED BY <1>1, <1>2, <1>8, <1>9 DEF OptInv

LEMMA CrashKeeps == ASSUME OptInv, Crash PROVE OptInv'
<1>1. /\ requests' = [q \in DOMAIN requests |-> [requests[q] EXCEPT !.at = "done"]]
      /\ mixed' = TRUE /\ UNCHANGED <<proposal, files, backups, rows, decisions>>
  BY DEF Crash
<1>2. OptimizationTypes /\ PlacesInv /\ CopyInv /\ Undone
  BY DEF OptInv
<1>3. DOMAIN requests = 1..Len(requests) /\ Len(requests) \in Nat /\ DOMAIN backups = DOMAIN requests
      /\ \A q \in DOMAIN requests : requests[q] \in ChangeRequest
  BY <1>2, RowTypes
<1>4. DOMAIN requests' = DOMAIN requests
  BY <1>1
<1>5. ASSUME NEW q \in DOMAIN requests
      PROVE  /\ requests'[q] \in ChangeRequest /\ Same(requests[q], requests'[q])
             /\ requests'[q].at = "done" /\ requests'[q].saved = requests[q].saved
  <2>1. PICK y : y = [requests[q] EXCEPT !.at = "done"]
    OBVIOUS
  <2>2. requests'[q] = y
    BY <1>1, <2>1
  <2>3. y \in ChangeRequest /\ Same(requests[q], y) /\ y.at = "done" /\ y.saved = requests[q].saved
    BY <1>3, <2>1, ChangeAt
  <2> QED BY <2>2, <2>3
<1>6. requests' \in Seq(ChangeRequest) /\ Len(requests') = Len(requests)
  <2>1. requests' \in [1..Len(requests) -> ChangeRequest]
    BY <1>1, <1>3, <1>5
  <2> QED BY <1>3, <2>1
<1>7. OptimizationTypes'
  BY <1>1, <1>2, <1>6 DEF OptimizationTypes
<1>8. PlacesInv'
  <2>1. \A q \in DOMAIN requests' : CopiesOf(requests'[q], backups'[q])
    BY <1>1, <1>2, <1>4, <1>5 DEF PlacesInv, CopiesOf, Same
  <2>2. \A q \in DOMAIN requests' : CopiesOf(requests[q], backups[q])'
    BY <2>1 DEF CopiesOf
  <2>3. \A q \in DOMAIN requests' : requests'[q].kind = "rollback" =>
           requests'[q].row \in DOMAIN rows' /\ requests'[q].saved = rows'[requests'[q].row].saved
    BY <1>1, <1>2, <1>4, <1>5 DEF PlacesInv, Same
  <2>4. \A r \in DOMAIN rows' :
           /\ rows'[r].by \in DOMAIN requests'
           /\ requests'[rows'[r].by].kind = "apply" /\ requests'[rows'[r].by].at = "done"
           /\ requests'[rows'[r].by].saved = rows'[r].saved
    BY <1>1, <1>2, <1>4, <1>5 DEF PlacesInv, Same
  <2> QED BY <2>2, <2>3, <2>4 DEF PlacesInv
<1>9. UndoInv'
  BY <1>1 DEF UndoInv
<1>10. CopyInv'
  <2>1. \A p, i : \A o \in DOMAIN backups : Saves(p, o, i)' <=> Saves(p, o, i)
    BY <1>3, <1>5 DEF Saves
  <2> QED BY <1>1, <1>2, <2>1 DEF CopyInv
<1> QED BY <1>1, <1>2, <1>7, <1>8, <1>9, <1>10 DEF OptInv, Undone

LEMMA NextOptimization ==
  ASSUME PathsGiven, OptInv, [OptimizationNext]_optimizationVars PROVE OptInv'
<1>1. CASE Generate
  BY <1>1, DecisionKeeps DEF Generate, AddOptimizationProposal
<1>2. CASE Decision
  BY <1>2, DecisionKeeps DEF Decision, Decide, UpdateOptimizationProposal
<1>3. CASE Crash
  BY <1>3, CrashKeeps
<1>4. CASE Application
  BY <1>4, ApplyKeeps DEF Application
<1>5. ASSUME NEW q \in UnderWay,
             CopyOne(q) \/ WriteOne(q) \/ Validate(q) \/ ApplyFails(q) \/ UndoOne(q) \/ UndoEnds(q)
             \/ RestoreOne(q) \/ RestoreFails(q) \/ RollbackEnds(q)
      PROVE  OptInv'
  BY <1>5, CopyOneKeeps, WriteOneKeeps, ValidateKeeps, ApplyFailsKeeps, UndoOneKeeps, UndoEndsKeeps,
     RestoreOneKeeps, RestoreFailsKeeps, RollbackEndsKeeps
<1>6. ASSUME NEW r \in DOMAIN rows, Rollback(r) PROVE OptInv'
  BY <1>6, RollbackKeeps
<1>7. CASE UNCHANGED optimizationVars
  BY <1>7, DecisionKeeps DEF optimizationVars, OptInv, OptimizationTypes
<1> QED BY <1>1, <1>2, <1>3, <1>4, <1>5, <1>6, <1>7 DEF OptimizationNext

(* What the invariant promises.                                             *)
LEMMA OptimizationPromise ==
  ASSUME PathsGiven, OptInv PROVE OptimizationOK /\ Undone /\ OriginalsKept
<1>1. OptimizationTypes /\ PlacesInv /\ CopyInv /\ Undone
  BY DEF OptInv
<1>2. OptimizationOK
  BY <1>1 DEF OptimizationOK, OptimizationTypes, PlacesInv, CopiesOf, Contents, UnderWay
<1>3. OriginalsKept
  BY <1>1 DEF OriginalsKept, CopyInv, Saves
<1> QED BY <1>1, <1>2, <1>3

(* An application of changes that says it was taken back, by itself or on   *)
(* request, left every file as it had found it unless other requests or a   *)
(* crash came between, and the first content of a file is never lost        *)
(* (apply, rollback: runtime-optimization-execution.ts).                    *)
THEOREM ChangesUndone ==
  ASSUME PathsGiven PROVE OptimizationSpec => [](OptimizationOK /\ Undone /\ OriginalsKept)
<1>1. OptimizationSpec => []OptInv
  BY InitOptimization, NextOptimization, PTL DEF OptimizationSpec
<1>2. OptInv => OptimizationOK /\ Undone /\ OriginalsKept
  BY OptimizationPromise
<1> QED BY <1>1, <1>2, PTL
----------------------------------------------------------------------------
(***************************************************************************)
(* SkillPackages.  ApprovedInv follows a content from the request that     *)
(* approves it to the registry; QuietInv and CurrentInv say what one       *)
(* request at a time leaves behind and what the watcher still has to read. *)
(***************************************************************************)
SkillRequest ==
    {w \in [kind : {"install", "enable", "disable", "reject"}, id : Nat,
            at : {"write", "clean", "copy", "clear", "name", "discard", "record", "scan", "serve"},
            content : 0..MaxContents, old : 0..MaxContents] :
        /\ w.kind = "install" <=> w.at \in {"write", "clean"}
        /\ w.kind = "install" => w.content # 0
        /\ w.at \in {"copy", "name"} => w.kind = "enable"
        /\ w.at = "discard" => w.kind = "reject"}

SkillTypes ==
    /\ package \in [content : 0..MaxContents,
                    status : {"none", "staged", "enabled", "disabled", "rejected"}]
    /\ stages \subseteq 1..MaxContents /\ copies \subseteq 1..MaxContents
    /\ managed \in 0..MaxContents /\ registry \in 0..MaxContents
    /\ work \subseteq SkillRequest /\ IsFiniteSet(work)
    /\ watch \in [timer : BOOLEAN, reads : SUBSET (0..MaxContents)]
    /\ muddled \in BOOLEAN
    /\ happened \in [contents : 0..MaxContents, requests : Nat, crashes : Nat]
    /\ Cardinality(work) <= happened.requests

(* Everything below the root, on its way there or read from there.          *)
ApprovedInv ==
    /\ approved \cap Extreme = {}
    /\ copies \cup {managed, registry} \cup watch.reads \subseteq approved \cup {0}
    /\ \A w \in work : w.kind # "install" => w.content \in approved \cup {0}

(* Where the one request under way is, and what it has left behind it.      *)
Staging == stages \subseteq {package.content}
RowSays ==
    /\ package.status = "enabled" => managed = package.content
    /\ package.status \in {"disabled", "rejected"} => managed = 0
    /\ package.status = "rejected" => stages = {}
Place(w) ==
    /\ w.at # "clean" => Staging
    /\ w.at \notin {"clear", "name"} => copies = {}
    /\ w.at = "clear" => copies = IF w.kind = "enable" THEN {w.content} ELSE {}
    /\ w.at = "name" => copies = {w.content}
    /\ w.kind = "enable" /\ w.at \in {"copy", "clear", "name"} => w.content = package.content
    /\ w.at = "write" => w.old = package.content
    /\ w.at = "clean" => /\ stages \subseteq {w.content, w.old} /\ package.content = w.content
                         /\ package.status = "staged"
    /\ w.at = "discard" => managed = 0
    /\ w.at = "record" => /\ managed = IF w.kind = "enable" THEN package.content ELSE 0
                          /\ w.kind = "reject" => stages = {}
    /\ w.at \in {"scan", "serve"} => RowSays
    /\ w.at = "serve" => w.content = managed

QuietInv ==
    /\ \A v, w \in work : v = w
    /\ work = {} => copies = {} /\ Staging /\ RowSays
    /\ \A w \in work : Place(w)

(* Unless the timer is set, what a refresh has read is what is there.       *)
CurrentInv ==
    ~watch.timer =>
        /\ watch.reads \subseteq Found
        /\ watch.reads = {} /\ (\A w \in work : w.kind = "install") => registry = managed

SkillsInv == SkillTypes /\ ApprovedInv /\ (~muddled => QuietInv /\ CurrentInv)

SkillLimits == MaxContents \in Nat

LEMMA InitSkills == ASSUME SkillLimits, SkillsInit PROVE SkillsInv
<1> USE DEF SkillsInit, SkillLimits
<1>1. SkillTypes
  <2>1. work = {} /\ IsFiniteSet({}) /\ Cardinality({}) = 0
    BY FS_EmptySet
  <2>2. package \in [content : 0..MaxContents,
                     status : {"none", "staged", "enabled", "disabled", "rejected"}]
    BY DEF NoPackage
  <2>3. watch \in [timer : BOOLEAN, reads : SUBSET (0..MaxContents)]
    OBVIOUS
  <2>4. happened \in [contents : 0..MaxContents, requests : Nat, crashes : Nat] /\ happened.requests = 0
    OBVIOUS
  <2>5. stages = {} /\ copies = {} /\ managed = 0 /\ registry = 0 /\ 0 \in 0..MaxContents
    OBVIOUS
  <2>6. muddled \in BOOLEAN
    OBVIOUS
  <2> HIDE DEF SkillsInit
  <2> QED BY <2>1, <2>2, <2>3, <2>4, <2>5, <2>6 DEF SkillTypes
<1>2. ApprovedInv
  BY DEF ApprovedInv
<1>3. QuietInv /\ CurrentInv
  BY DEF QuietInv, CurrentInv, Staging, RowSays, NoPackage
<1> QED BY <1>1, <1>2, <1>3 DEF SkillsInv

(* The requests under way after one of them moved, ended or began.          *)
WorkOf(asked, n) == asked \subseteq SkillRequest /\ IsFiniteSet(asked) /\ Cardinality(asked) <= n

LEMMA RequestReplaced ==
  ASSUME SkillTypes, NEW w \in work, NEW y \in SkillRequest
  PROVE  WorkOf((work \ {w}) \cup {y}, happened.requests)
<1>1. /\ IsFiniteSet(work) /\ Cardinality(work) <= happened.requests
      /\ happened.requests \in Nat /\ work \subseteq SkillRequest
  BY DEF SkillTypes
<1>2. /\ IsFiniteSet(work \ {w}) /\ Cardinality(work \ {w}) = Cardinality(work) - 1
      /\ Cardinality(work) \in Nat
  BY <1>1, FS_RemoveElement, FS_CardinalityType
<1>3. /\ IsFiniteSet((work \ {w}) \cup {y})
      /\ Cardinality((work \ {w}) \cup {y}) = Cardinality(work \ {w})
         \/ Cardinality((work \ {w}) \cup {y}) = Cardinality(work \ {w}) + 1
  BY <1>2, FS_AddElement
<1> QED BY <1>1, <1>2, <1>3 DEF WorkOf

LEMMA RequestEnds ==
  ASSUME SkillTypes, NEW w \in work
  PROVE  WorkOf(work \ {w}, happened.requests)
<1>1. /\ IsFiniteSet(work) /\ Cardinality(work) <= happened.requests
      /\ happened.requests \in Nat /\ work \subseteq SkillRequest
  BY DEF SkillTypes
<1>2. /\ IsFiniteSet(work \ {w}) /\ Cardinality(work \ {w}) = Cardinality(work) - 1
      /\ Cardinality(work) \in Nat
  BY <1>1, FS_RemoveElement, FS_CardinalityType
<1> QED BY <1>1, <1>2 DEF WorkOf

LEMMA RequestAdded ==
  ASSUME SkillTypes, NEW y \in SkillRequest
  PROVE  WorkOf(work \cup {y}, happened.requests + 1)
<1>1. /\ IsFiniteSet(work) /\ Cardinality(work) <= happened.requests
      /\ happened.requests \in Nat /\ work \subseteq SkillRequest /\ Cardinality(work) \in Nat
  BY FS_CardinalityType DEF SkillTypes
<1>2. /\ IsFiniteSet(work \cup {y})
      /\ Cardinality(work \cup {y}) = Cardinality(work)
         \/ Cardinality(work \cup {y}) = Cardinality(work) + 1
  BY <1>1, FS_AddElement
<1> QED BY <1>1, <1>2 DEF WorkOf

LEMMA RequestPlaces ==
  ASSUME NEW w \in SkillRequest
  PROVE  /\ w.kind \in {"install", "enable", "disable", "reject"} /\ w.id \in Nat
         /\ w.at \in {"write", "clean", "copy", "clear", "name", "discard", "record", "scan", "serve"}
         /\ w.content \in 0..MaxContents /\ w.old \in 0..MaxContents
         /\ (w.kind = "install" <=> w.at \in {"write", "clean"})
         /\ (w.kind = "install" => w.content # 0)
         /\ (w.at \in {"copy", "name"} => w.kind = "enable")
         /\ (w.at = "discard" => w.kind = "reject")
BY DEF SkillRequest

(* A request w that has come to y.                                          *)
Comes(w, y, at) ==
    /\ y \in SkillRequest /\ y.kind = w.kind /\ y.content = w.content /\ y.old = w.old /\ y.at = at
    /\ work' = (work \ {w}) \cup {y} /\ WorkOf(work', happened.requests)

LEMMA RequestComes ==
  ASSUME SkillTypes, NEW w \in work, NEW at, RequestGoes(w, at),
         at \in {"write", "clean", "copy", "clear", "name", "discard", "record", "scan", "serve"},
         w.kind = "install" <=> at \in {"write", "clean"},
         at \in {"copy", "name"} => w.kind = "enable", at = "discard" => w.kind = "reject"
  PROVE  \E y : Comes(w, y, at)
<1>1. w \in SkillRequest
  BY DEF SkillTypes
<1>2. PICK y : y = [w EXCEPT !.at = at]
  OBVIOUS
<1>3. y \in SkillRequest /\ y.kind = w.kind /\ y.content = w.content /\ y.old = w.old /\ y.at = at
  BY <1>1, <1>2 DEF SkillRequest
<1>4. work' = (work \ {w}) \cup {y}
  BY <1>2 DEF RequestGoes
<1> QED BY <1>3, <1>4, RequestReplaced DEF Comes

LEMMA StateParts ==
  ASSUME SkillTypes
  PROVE  /\ package.content \in 0..MaxContents
         /\ package.status \in {"none", "staged", "enabled", "disabled", "rejected"}
         /\ watch.timer \in BOOLEAN /\ watch.reads \subseteq 0..MaxContents
         /\ happened.contents \in 0..MaxContents /\ happened.requests \in Nat /\ happened.crashes \in Nat
         /\ work \subseteq SkillRequest
BY DEF SkillTypes

(* A request begins: it is the only one, unless they are muddled from here. *)
LEMMA BeginKeeps ==
  ASSUME SkillLimits, SkillsInv, NEW y \in SkillRequest, RequestBegins(y),
         UNCHANGED <<package, stages, managed, copies, registry, watch>>,
         approved \subseteq approved', approved' \cap Extreme = {},
         y.kind # "install" => y.content \in approved' \cup {0},
         happened' \in [contents : 0..MaxContents, requests : Nat, crashes : Nat],
         happened'.requests = happened.requests + 1,
         copies = {} /\ Staging /\ RowSays => Place(y)
  PROVE  SkillsInv'
<1>1. SkillTypes /\ ApprovedInv /\ (~muddled => QuietInv /\ CurrentInv)
  BY DEF SkillsInv
<1>2. work' = work \cup {y} /\ (muddled' <=> muddled \/ work # {}) /\ muddled' \in BOOLEAN
  BY DEF RequestBegins
<1>3. WorkOf(work', happened'.requests)
  BY <1>1, <1>2, RequestAdded
<1>4. SkillTypes'
  BY <1>1, <1>2, <1>3 DEF SkillTypes, WorkOf
<1>5. ApprovedInv'
  BY <1>1, <1>2 DEF ApprovedInv
<1>6. ASSUME ~muddled' PROVE QuietInv' /\ CurrentInv'
  <2>1. work = {} /\ ~muddled /\ work' = {y}
    BY <1>2, <1>6
  <2>2. Place(y)'
    BY <1>1, <2>1 DEF QuietInv, Place, Staging, RowSays
  <2>3. QuietInv'
    BY <2>1, <2>2 DEF QuietInv
  <2>4. CurrentInv'
    BY <1>1, <2>1 DEF CurrentInv, Found
  <2> QED BY <2>3, <2>4
<1> QED BY <1>4, <1>5, <1>6 DEF SkillsInv

LEMMA InstallKeeps == ASSUME SkillLimits, SkillsInv, Install PROVE SkillsInv'
<1>1. SkillTypes /\ ApprovedInv
  BY DEF SkillsInv
<1>2. /\ happened.contents \in 0..MaxContents /\ happened.requests \in Nat /\ happened.crashes \in Nat
      /\ package.content \in 0..MaxContents /\ happened.contents < MaxContents
      /\ happened \in [contents : 0..MaxContents, requests : Nat, crashes : Nat]
  BY <1>1, StateParts DEF Install, SkillTypes
<1>3. PICK y : y = [kind |-> "install", id |-> happened.requests, at |-> "write",
                    content |-> happened.contents + 1, old |-> package.content]
  OBVIOUS
<1>4. happened.contents + 1 \in 0..MaxContents /\ happened.contents + 1 # 0
  BY <1>2 DEF SkillLimits
<1>5. y \in SkillRequest /\ y.kind = "install" /\ y.at = "write" /\ y.old = package.content
  BY <1>2, <1>3, <1>4 DEF SkillRequest
<1>6. RequestBegins(y) /\ UNCHANGED <<package, stages, managed, copies, registry, watch, approved>>
  BY <1>3 DEF Install
<1>7. /\ happened' \in [contents : 0..MaxContents, requests : Nat, crashes : Nat]
      /\ happened'.requests = happened.requests + 1
  <2>1. PICK c \in 0..MaxContents : c = happened.contents + 1
    BY <1>4
  <2>2. PICK n \in Nat : n = happened.requests + 1
    BY <1>2
  <2>3. happened' = [happened EXCEPT !.contents = c, !.requests = n]
    BY <2>1, <2>2 DEF Install
  <2> QED BY <1>2, <2>2, <2>3
<1>8. copies = {} /\ Staging /\ RowSays => Place(y)
  BY <1>5 DEF Place
<1> QED BY <1>1, <1>5, <1>6, <1>7, <1>8, BeginKeeps DEF ApprovedInv

LEMMA EnableKeeps == ASSUME SkillLimits, SkillsInv, Enable PROVE SkillsInv'
<1>1. SkillTypes /\ ApprovedInv
  BY DEF SkillsInv
<1>2. /\ happened.requests \in Nat /\ package.content \in 0..MaxContents /\ package.content # 0
      /\ package.content \notin Extreme /\ approved' = approved \cup {package.content}
      /\ happened \in [contents : 0..MaxContents, requests : Nat, crashes : Nat]
  BY <1>1, StateParts DEF Enable, SkillTypes, ExtremeRisk
<1>3. PICK y : y = [kind |-> "enable", id |-> happened.requests, at |-> "copy",
                    content |-> package.content, old |-> 0]
  OBVIOUS
<1>4. y \in SkillRequest /\ y.kind = "enable" /\ y.at = "copy" /\ y.content = package.content
  BY <1>2, <1>3 DEF SkillRequest, SkillLimits
<1>5. RequestBegins(y) /\ UNCHANGED <<package, stages, managed, copies, registry, watch>>
  BY <1>3 DEF Enable
<1>6. /\ happened' \in [contents : 0..MaxContents, requests : Nat, crashes : Nat]
      /\ happened'.requests = happened.requests + 1
  BY <1>2 DEF Enable
<1>7. copies = {} /\ Staging /\ RowSays => Place(y)
  BY <1>4 DEF Place
<1>8. approved' \cap Extreme = {} /\ y.content \in approved'
  BY <1>1, <1>2, <1>4 DEF ApprovedInv
<1> QED BY <1>2, <1>4, <1>5, <1>6, <1>7, <1>8, BeginKeeps

LEMMA WithdrawKeeps ==
  ASSUME SkillLimits, SkillsInv, NEW kind \in {"disable", "reject"}, Withdraw(kind)
  PROVE  SkillsInv'
<1>1. SkillTypes /\ ApprovedInv
  BY DEF SkillsInv
<1>2. /\ happened.requests \in Nat /\ 0 \in 0..MaxContents
      /\ happened \in [contents : 0..MaxContents, requests : Nat, crashes : Nat]
  BY <1>1, StateParts DEF SkillTypes, SkillLimits
<1>3. PICK y : y = [kind |-> kind, id |-> happened.requests, at |-> "clear", content |-> 0, old |-> 0]
  OBVIOUS
<1>4. y \in SkillRequest /\ y.kind = kind /\ y.at = "clear" /\ y.content = 0
  BY <1>2, <1>3 DEF SkillRequest
<1>5. RequestBegins(y) /\ UNCHANGED <<package, stages, managed, copies, registry, watch, approved>>
  BY <1>3 DEF Withdraw
<1>6. /\ happened' \in [contents : 0..MaxContents, requests : Nat, crashes : Nat]
      /\ happened'.requests = happened.requests + 1
  BY <1>2 DEF Withdraw
<1>7. copies = {} /\ Staging /\ RowSays => Place(y)
  BY <1>4 DEF Place
<1> QED BY <1>1, <1>4, <1>5, <1>6, <1>7, BeginKeeps DEF ApprovedInv

(* What a step of w starts from.                                            *)
LEMMA StepFacts ==
  ASSUME SkillsInv, NEW w \in work
  PROVE  /\ SkillTypes /\ ApprovedInv /\ w \in SkillRequest
         /\ ~muddled => QuietInv /\ CurrentInv /\ Place(w) /\ work = {w}
         /\ w.kind # "install" => w.content \in approved \cup {0}
BY DEF SkillsInv, SkillTypes, QuietInv, ApprovedInv

(* A request goes on and leaves the root as it is.                          *)
LEMMA ComesKeeps ==
  ASSUME SkillsInv, NEW w \in work, NEW y, NEW at, Comes(w, y, at),
         UNCHANGED <<managed, copies, registry, watch, approved, muddled, happened>>,
         package' \in [content : 0..MaxContents,
                       status : {"none", "staged", "enabled", "disabled", "rejected"}],
         stages' \subseteq 1..MaxContents, ~muddled => Place(y)'
  PROVE  SkillsInv'
<1>1. /\ SkillTypes /\ ApprovedInv /\ w \in SkillRequest
      /\ ~muddled => QuietInv /\ CurrentInv /\ Place(w) /\ work = {w}
  BY StepFacts
<1>2. /\ y \in SkillRequest /\ y.kind = w.kind /\ y.content = w.content
      /\ work' = (work \ {w}) \cup {y} /\ WorkOf(work', happened.requests)
  BY DEF Comes
<1>3. SkillTypes'
  BY <1>1, <1>2 DEF SkillTypes, WorkOf
<1>4. ApprovedInv'
  BY <1>1, <1>2 DEF ApprovedInv
<1>5. ASSUME ~muddled PROVE QuietInv' /\ CurrentInv'
  <2>1. work' = {y} /\ work = {w}
    BY <1>1, <1>2, <1>5
  <2>2. QuietInv'
    BY <1>5, <2>1 DEF QuietInv
  <2>3. CurrentInv'
    BY <1>1, <1>2, <1>5, <2>1 DEF CurrentInv, Found
  <2> QED BY <2>2, <2>3
<1> QED BY <1>3, <1>4, <1>5 DEF SkillsInv

(* A request ends: as it should, or with an error.                          *)
LEMMA EndKeeps ==
  ASSUME SkillsInv, NEW w \in work, Ends(w),
         UNCHANGED <<managed, approved, happened>>, muddled' \in BOOLEAN, ~muddled' => ~muddled,
         package' \in [content : 0..MaxContents,
                       status : {"none", "staged", "enabled", "disabled", "rejected"}],
         stages' \subseteq 1..MaxContents, registry' \in {registry, w.content},
         registry' = registry \/ w.kind # "install",
         copies' \subseteq 1..MaxContents, copies' \subseteq approved,
         watch' \in [timer : BOOLEAN, reads : SUBSET (0..MaxContents)], watch'.reads = watch.reads,
         ~muddled' => /\ (copies = {} /\ Staging /\ RowSays)' /\ copies = {} /\ watch' = watch
                      /\ registry' = IF w.kind = "install" THEN registry ELSE managed
  PROVE  SkillsInv'
<1>1. /\ SkillTypes /\ ApprovedInv /\ w \in SkillRequest
      /\ ~muddled => QuietInv /\ CurrentInv /\ Place(w) /\ work = {w}
      /\ w.kind # "install" => w.content \in approved \cup {0}
  BY StepFacts
<1>2. work' = work \ {w} /\ WorkOf(work', happened.requests) /\ w.content \in 0..MaxContents
  BY <1>1, RequestEnds, RequestPlaces DEF Ends
<1>3. SkillTypes'
  BY <1>1, <1>2 DEF SkillTypes, WorkOf
<1>4. ApprovedInv'
  BY <1>1, <1>2 DEF ApprovedInv
<1>5. ASSUME ~muddled' PROVE QuietInv' /\ CurrentInv'
  <2>1. work' = {} /\ work = {w}
    BY <1>1, <1>2, <1>5
  <2>2. QuietInv'
    BY <1>5, <2>1 DEF QuietInv
  <2>3. CurrentInv'
    BY <1>1, <1>5, <2>1 DEF CurrentInv, Found
  <2> QED BY <2>2, <2>3
<1> QED BY <1>3, <1>4, <1>5 DEF SkillsInv

LEMMA StagedKeeps == ASSUME SkillLimits, SkillsInv, NEW w \in work, Staged(w) PROVE SkillsInv'
<1>1. /\ SkillTypes /\ ApprovedInv /\ w \in SkillRequest
      /\ ~muddled => QuietInv /\ CurrentInv /\ Place(w) /\ work = {w}
  BY StepFacts
<1>2. /\ w.kind = "install" /\ w.at = "write" /\ stages' = stages \cup {w.content}
      /\ package' = [content |-> w.content, status |-> "staged"]
      /\ UNCHANGED <<managed, copies, registry, watch, approved, muddled, happened>>
  BY DEF Staged
<1>3. w.content \in 0..MaxContents /\ w.content # 0 /\ stages \subseteq 1..MaxContents
  BY <1>1, <1>2, RequestPlaces DEF SkillTypes
<1>4. /\ package' \in [content : 0..MaxContents,
                       status : {"none", "staged", "enabled", "disabled", "rejected"}]
      /\ package'.content = w.content /\ package'.status = "staged"
  BY <1>2, <1>3
<1>5. stages' \subseteq 1..MaxContents
  <2>1. w.content \in 1..MaxContents
    BY <1>3 DEF SkillLimits
  <2> QED BY <1>2, <1>3, <2>1
<1>6. ~muddled => copies = {} /\ stages \subseteq {w.old}
  BY <1>1, <1>2 DEF Place, Staging
<1>7. CASE w.old = 0
  <2>1. Ends(w)
    BY <1>7 DEF Staged
  <2>2. ~muddled => stages = {}
    BY <1>3, <1>6, <1>7
  <2>3. ~muddled => (copies = {} /\ Staging /\ RowSays)'
    BY <1>2, <1>4, <1>6, <2>2 DEF Staging, RowSays
  <2>4. /\ copies' \subseteq 1..MaxContents /\ copies' \subseteq approved /\ muddled' \in BOOLEAN
        /\ watch' \in [timer : BOOLEAN, reads : SUBSET (0..MaxContents)]
    BY <1>1, <1>2 DEF SkillTypes, ApprovedInv
  <2> QED BY <1>2, <1>4, <1>5, <1>6, <2>1, <2>3, <2>4, EndKeeps
<1>8. CASE w.old # 0
  <2>1. RequestGoes(w, "clean")
    BY <1>8 DEF Staged
  <2>2. PICK y : Comes(w, y, "clean")
    BY <1>1, <1>2, <2>1, RequestComes
  <2>3. y.kind = "install" /\ y.at = "clean" /\ y.content = w.content /\ y.old = w.old
    BY <1>2, <2>2 DEF Comes
  <2>4. ~muddled => Place(y)'
    BY <1>2, <1>4, <1>6, <2>3 DEF Place
  <2> QED BY <1>2, <1>4, <1>5, <2>2, <2>4, ComesKeeps
<1> QED BY <1>7, <1>8

LEMMA InstallFailsKeep ==
  ASSUME SkillLimits, SkillsInv, NEW w \in work, WriteFails(w) \/ RemovalFails(w)
  PROVE  SkillsInv'
<1>1. SkillTypes /\ ApprovedInv
  BY StepFacts
<1>2. /\ Ends(w) /\ muddled' = TRUE /\ stages' \subseteq stages
      /\ UNCHANGED <<package, managed, copies, registry, watch, approved, happened>>
  BY DEF WriteFails, RemovalFails
<1>3. muddled' /\ muddled' \in BOOLEAN
  BY <1>2
<1> QED BY <1>1, <1>2, <1>3, EndKeeps DEF SkillTypes, ApprovedInv

LEMMA OldRemovedKeeps == ASSUME SkillLimits, SkillsInv, NEW w \in work, OldRemoved(w) PROVE SkillsInv'
<1>1. /\ SkillTypes /\ ApprovedInv /\ w \in SkillRequest
      /\ ~muddled => QuietInv /\ CurrentInv /\ Place(w) /\ work = {w}
  BY StepFacts
<1>2. /\ w.kind = "install" /\ w.at = "clean" /\ stages' = stages \ {w.old} /\ Ends(w)
      /\ UNCHANGED <<package, managed, copies, registry, watch, approved, muddled, happened>>
  BY DEF OldRemoved
<1>3. ~muddled => (copies = {} /\ Staging /\ RowSays)'
  BY <1>1, <1>2 DEF Place, Staging, RowSays
<1>4. ~muddled => copies = {}
  BY <1>1, <1>2 DEF Place
<1>5. /\ copies' \subseteq 1..MaxContents /\ copies' \subseteq approved /\ muddled' \in BOOLEAN
      /\ watch' \in [timer : BOOLEAN, reads : SUBSET (0..MaxContents)]
      /\ stages' \subseteq 1..MaxContents
      /\ package' \in [content : 0..MaxContents,
                       status : {"none", "staged", "enabled", "disabled", "rejected"}]
  <2>1. copies \subseteq approved
    BY <1>1 DEF SkillTypes, ApprovedInv
  <2>2. muddled \in BOOLEAN /\ copies \subseteq 1..MaxContents /\ stages \subseteq 1..MaxContents
    BY <1>1 DEF SkillTypes
  <2>3. /\ watch \in [timer : BOOLEAN, reads : SUBSET (0..MaxContents)]
        /\ package \in [content : 0..MaxContents,
                        status : {"none", "staged", "enabled", "disabled", "rejected"}]
    BY <1>1 DEF SkillTypes
  <2> QED BY <1>2, <2>1, <2>2, <2>3
<1> QED BY <1>2, <1>3, <1>4, <1>5, EndKeeps

LEMMA CopyFailsKeeps == ASSUME SkillLimits, SkillsInv, NEW w \in work, CopyFails(w) PROVE SkillsInv'
<1>1. /\ SkillTypes /\ ApprovedInv /\ w \in SkillRequest
      /\ w.kind # "install" => w.content \in approved \cup {0}
  BY StepFacts
<1>2. /\ w.kind = "enable" /\ Ends(w) /\ muddled' = TRUE
      /\ watch' = [watch EXCEPT !.timer = TRUE]
      /\ UNCHANGED <<package, stages, managed, registry, approved, happened>>
      /\ copies' = copies \/ (w.content \in stages /\ copies' = copies \cup {w.content})
  BY DEF CopyFails, Watched
<1>3. /\ watch' \in [timer : BOOLEAN, reads : SUBSET (0..MaxContents)] /\ watch'.reads = watch.reads
  BY <1>1, <1>2 DEF SkillTypes
<1>4. copies' \subseteq 1..MaxContents /\ copies' \subseteq approved
  BY <1>1, <1>2 DEF SkillTypes, ApprovedInv, SkillLimits
<1>5. muddled' /\ muddled' \in BOOLEAN
  BY <1>2
<1> QED BY <1>1, <1>2, <1>3, <1>4, <1>5, EndKeeps DEF SkillTypes

LEMMA NameTakenKeeps == ASSUME SkillLimits, SkillsInv, NEW w \in work, NameTaken(w) PROVE SkillsInv'
<1>1. SkillTypes /\ ApprovedInv
  BY StepFacts
<1>2. /\ Ends(w) /\ muddled' = TRUE
      /\ UNCHANGED <<package, stages, managed, copies, registry, watch, approved, happened>>
  BY DEF NameTaken
<1>3. muddled' /\ muddled' \in BOOLEAN
  BY <1>2
<1> QED BY <1>1, <1>2, <1>3, EndKeeps DEF SkillTypes, ApprovedInv

LEMMA ServedKeeps == ASSUME SkillLimits, SkillsInv, NEW w \in work, Served(w) PROVE SkillsInv'
<1>1. /\ SkillTypes /\ ApprovedInv /\ w \in SkillRequest
      /\ ~muddled => QuietInv /\ CurrentInv /\ Place(w) /\ work = {w}
  BY StepFacts
<1>2. /\ w.at = "serve" /\ registry' = w.content /\ Ends(w)
      /\ UNCHANGED <<package, stages, managed, copies, watch, approved, muddled, happened>>
  BY DEF Served
<1>3. w.kind # "install"
  BY <1>1, <1>2, RequestPlaces
<1>4. ~muddled => copies = {} /\ Staging /\ RowSays /\ w.content = managed
  BY <1>1, <1>2 DEF Place
<1>5. ~muddled => (copies = {} /\ Staging /\ RowSays)'
  BY <1>2, <1>4 DEF Staging, RowSays
<1> QED BY <1>1, <1>2, <1>3, <1>4, <1>5, EndKeeps DEF SkillTypes, ApprovedInv

LEMMA DiscardedKeeps == ASSUME SkillLimits, SkillsInv, NEW w \in work, Discarded(w) PROVE SkillsInv'
<1>1. /\ SkillTypes /\ ApprovedInv /\ w \in SkillRequest
      /\ ~muddled => QuietInv /\ CurrentInv /\ Place(w) /\ work = {w}
  BY StepFacts
<1>2. /\ w.at = "discard" /\ stages' = stages \ {package.content} /\ RequestGoes(w, "record")
      /\ UNCHANGED <<package, managed, copies, registry, watch, approved, muddled, happened>>
  BY DEF Discarded
<1>3. w.kind = "reject"
  BY <1>1, <1>2, RequestPlaces
<1>4. PICK y : Comes(w, y, "record")
  BY <1>1, <1>2, <1>3, RequestComes
<1>5. y.kind = "reject" /\ y.at = "record"
  BY <1>3, <1>4 DEF Comes
<1>6. ~muddled => Place(y)'
  BY <1>1, <1>2, <1>5 DEF Place, Staging
<1> QED BY <1>1, <1>2, <1>4, <1>6, ComesKeeps DEF SkillTypes

LEMMA StatusRecordedKeeps ==
  ASSUME SkillLimits, SkillsInv, NEW w \in work, StatusRecorded(w) PROVE SkillsInv'
<1>1. /\ SkillTypes /\ ApprovedInv /\ w \in SkillRequest
      /\ ~muddled => QuietInv /\ CurrentInv /\ Place(w) /\ work = {w}
  BY StepFacts
<1>2. PICK s : s = CASE w.kind = "enable" -> "enabled" [] w.kind = "disable" -> "disabled"
                     [] OTHER -> "rejected"
  OBVIOUS
<1>3. /\ w.at = "record" /\ package' = [package EXCEPT !.status = s] /\ RequestGoes(w, "scan")
      /\ UNCHANGED <<stages, managed, copies, registry, watch, approved, muddled, happened>>
  BY <1>2 DEF StatusRecorded
<1>4. w.kind \in {"enable", "disable", "reject"}
  BY <1>1, <1>3, RequestPlaces
<1>5. /\ s \in {"enabled", "disabled", "rejected"}
      /\ s = "enabled" <=> w.kind = "enable"
      /\ s = "rejected" => w.kind = "reject"
  BY <1>2, <1>4
<1>6. /\ package' \in [content : 0..MaxContents,
                       status : {"none", "staged", "enabled", "disabled", "rejected"}]
      /\ package'.content = package.content /\ package'.status = s
  BY <1>1, <1>3, <1>5 DEF SkillTypes
<1>7. PICK y : Comes(w, y, "scan")
  BY <1>1, <1>3, <1>4, RequestComes
<1>8. y.at = "scan"
  BY <1>7 DEF Comes
<1>9. ~muddled => Place(y)'
  BY <1>1, <1>3, <1>5, <1>6, <1>8 DEF Place, Staging, RowSays
<1> QED BY <1>1, <1>3, <1>6, <1>7, <1>9, ComesKeeps DEF SkillTypes

(* A request changes what is below the root, and the watcher hears of it.   *)
LEMMA RootKeeps ==
  ASSUME SkillsInv, NEW w \in work, NEW y, NEW at, Comes(w, y, at), w.kind # "install", Watched,
         UNCHANGED <<package, stages, registry, approved, muddled, happened>>,
         managed' \in 0..MaxContents, copies' \subseteq 1..MaxContents,
         copies' \cup {managed'} \subseteq approved \cup {0}, ~muddled => Place(y)'
  PROVE  SkillsInv'
<1>1. /\ SkillTypes /\ ApprovedInv /\ w \in SkillRequest
      /\ ~muddled => QuietInv /\ CurrentInv /\ Place(w) /\ work = {w}
  BY StepFacts
<1>2. /\ y \in SkillRequest /\ y.kind = w.kind /\ y.content = w.content
      /\ work' = (work \ {w}) \cup {y} /\ WorkOf(work', happened.requests)
  BY DEF Comes
<1>3. /\ watch' \in [timer : BOOLEAN, reads : SUBSET (0..MaxContents)]
      /\ watch'.reads = watch.reads /\ watch'.timer
  BY <1>1 DEF SkillTypes, Watched
<1>4. SkillTypes'
  BY <1>1, <1>2, <1>3 DEF SkillTypes, WorkOf
<1>5. ApprovedInv'
  BY <1>1, <1>2, <1>3 DEF ApprovedInv
<1>6. ASSUME ~muddled PROVE QuietInv' /\ CurrentInv'
  <2>1. work' = {y}
    BY <1>1, <1>2, <1>6
  <2>2. QuietInv'
    BY <1>6, <2>1 DEF QuietInv
  <2>3. CurrentInv'
    BY <1>3 DEF CurrentInv
  <2> QED BY <2>2, <2>3
<1> QED BY <1>4, <1>5, <1>6 DEF SkillsInv

LEMMA CopiedKeeps == ASSUME SkillLimits, SkillsInv, NEW w \in work, Copied(w) PROVE SkillsInv'
<1>1. /\ SkillTypes /\ ApprovedInv /\ w \in SkillRequest
      /\ ~muddled => QuietInv /\ CurrentInv /\ Place(w) /\ work = {w}
      /\ w.kind # "install" => w.content \in approved \cup {0}
  BY StepFacts
<1>2. /\ w.kind = "enable" /\ w.at = "copy" /\ w.content \in stages
      /\ copies' = copies \cup {w.content} /\ RequestGoes(w, "clear") /\ Watched
      /\ UNCHANGED <<package, stages, managed, registry, approved, muddled, happened>>
  BY DEF Copied
<1>3. PICK y : Comes(w, y, "clear")
  BY <1>1, <1>2, RequestComes
<1>4. y.at = "clear" /\ y.kind = "enable" /\ y.content = w.content
  BY <1>2, <1>3 DEF Comes
<1>5. ~muddled => Place(y)'
  BY <1>1, <1>2, <1>4 DEF Place, Staging
<1> QED BY <1>1, <1>2, <1>3, <1>5, RootKeeps DEF SkillTypes, ApprovedInv

LEMMA ClearedKeeps == ASSUME SkillLimits, SkillsInv, NEW w \in work, Cleared(w) PROVE SkillsInv'
<1>1. /\ SkillTypes /\ ApprovedInv /\ w \in SkillRequest
      /\ ~muddled => QuietInv /\ CurrentInv /\ Place(w) /\ work = {w}
  BY StepFacts
<1>2. PICK at : at = IF w.kind = "enable" THEN "name" ELSE IF w.kind = "reject" THEN "discard" ELSE "record"
  OBVIOUS
<1>3. /\ w.at = "clear" /\ managed' = 0 /\ RequestGoes(w, at) /\ Watched
      /\ UNCHANGED <<package, stages, copies, registry, approved, muddled, happened>>
  BY <1>2 DEF Cleared
<1>4. w.kind \in {"enable", "disable", "reject"}
  BY <1>1, <1>3, RequestPlaces
<1>5. PICK y : Comes(w, y, at)
  BY <1>1, <1>2, <1>3, <1>4, RequestComes
<1>6. y.at = at /\ y.kind = w.kind /\ y.content = w.content
  BY <1>5 DEF Comes
<1>7. ~muddled => Place(y)'
  BY <1>1, <1>2, <1>3, <1>4, <1>6 DEF Place, Staging
<1> QED BY <1>1, <1>3, <1>4, <1>5, <1>7, RootKeeps DEF SkillTypes, ApprovedInv, SkillLimits

LEMMA NamedKeeps == ASSUME SkillLimits, SkillsInv, NEW w \in work, Named(w) PROVE SkillsInv'
<1>1. /\ SkillTypes /\ ApprovedInv /\ w \in SkillRequest
      /\ ~muddled => QuietInv /\ CurrentInv /\ Place(w) /\ work = {w}
      /\ w.kind # "install" => w.content \in approved \cup {0}
  BY StepFacts
<1>2. /\ w.kind = "enable" /\ w.at = "name" /\ managed' = w.content
      /\ copies' = copies \ {w.content} /\ RequestGoes(w, "record") /\ Watched
      /\ UNCHANGED <<package, stages, registry, approved, muddled, happened>>
  BY DEF Named
<1>3. PICK y : Comes(w, y, "record")
  BY <1>1, <1>2, RequestComes
<1>4. y.at = "record" /\ y.kind = "enable" /\ w.content \in 0..MaxContents
  BY <1>1, <1>2, <1>3, RequestPlaces DEF Comes
<1>5. ~muddled => Place(y)'
  BY <1>1, <1>2, <1>4 DEF Place, Staging
<1> QED BY <1>1, <1>2, <1>3, <1>4, <1>5, RootKeeps DEF SkillTypes, ApprovedInv

(* What a scan finds has been approved, and is in its place when no request *)
(* is at work on it.                                                        *)
LEMMA FoundFacts ==
  ASSUME SkillTypes, ApprovedInv, NEW f \in Found
  PROVE  /\ f \in 0..MaxContents /\ f \in approved \cup {0}
         /\ copies = {} => f = managed
BY DEF Found, SkillTypes, ApprovedInv

LEMMA ScannedKeeps == ASSUME SkillLimits, SkillsInv, NEW w \in work, Scanned(w) PROVE SkillsInv'
<1>1. /\ SkillTypes /\ ApprovedInv /\ w \in SkillRequest
      /\ ~muddled => QuietInv /\ CurrentInv /\ Place(w) /\ work = {w}
  BY StepFacts
<1>2. PICK f \in Found : work' = (work \ {w}) \cup {[w EXCEPT !.at = "serve", !.content = f]}
  BY DEF Scanned
<1>3. /\ w.at = "scan"
      /\ UNCHANGED <<package, stages, managed, copies, registry, watch, approved, muddled, happened>>
  BY DEF Scanned
<1>4. f \in 0..MaxContents /\ f \in approved \cup {0} /\ (copies = {} => f = managed)
  BY <1>1, FoundFacts
<1>5. w.kind # "install"
  BY <1>1, <1>3, RequestPlaces
<1>6. PICK y : y = [w EXCEPT !.at = "serve", !.content = f]
  OBVIOUS
<1>7. y \in SkillRequest /\ y.kind = w.kind /\ y.at = "serve" /\ y.content = f
  <2>1. PICK z : z = [w EXCEPT !.at = "serve"]
    OBVIOUS
  <2>2. y = [z EXCEPT !.content = f]
    BY <1>6, <2>1
  <2>3. z \in SkillRequest /\ z.kind = w.kind /\ z.at = "serve"
    BY <1>1, <1>5, <2>1 DEF SkillRequest
  <2> QED BY <1>4, <1>5, <2>2, <2>3 DEF SkillRequest
<1>8. work' = (work \ {w}) \cup {y} /\ WorkOf(work', happened.requests)
  BY <1>1, <1>2, <1>6, <1>7, RequestReplaced
<1>9. SkillTypes'
  BY <1>1, <1>3, <1>8 DEF SkillTypes, WorkOf
<1>10. ApprovedInv'
  BY <1>1, <1>3, <1>4, <1>7, <1>8 DEF ApprovedInv
<1>11. ASSUME ~muddled PROVE QuietInv' /\ CurrentInv'
  <2>1. work' = {y} /\ work = {w}
    BY <1>1, <1>8, <1>11
  <2>2. Place(y)'
    BY <1>1, <1>3, <1>4, <1>7, <1>11 DEF Place, Staging, RowSays
  <2>3. QuietInv'
    BY <2>1, <2>2 DEF QuietInv
  <2>4. CurrentInv'
    BY <1>1, <1>3, <1>5, <1>7, <1>11, <2>1 DEF CurrentInv, Found
  <2> QED BY <2>3, <2>4
<1> QED BY <1>3, <1>9, <1>10, <1>11 DEF SkillsInv
----------------------------------------------------------------------------
(* The places of requests and what the row says do not look at the registry *)
(* or the watcher.                                                          *)
LEMMA QuietStays ==
  ASSUME QuietInv, UNCHANGED <<package, stages, managed, copies, work>> PROVE QuietInv'
BY DEF QuietInv, Place, Staging, RowSays

LEMMA WatchScansKeeps == ASSUME SkillLimits, SkillsInv, WatchScans PROVE SkillsInv'
<1>1. SkillTypes /\ ApprovedInv /\ (~muddled => QuietInv /\ CurrentInv)
  BY DEF SkillsInv
<1>2. PICK f \in Found : watch' = [timer |-> FALSE, reads |-> watch.reads \cup {f}]
  BY DEF WatchScans
<1>3. /\ watch.timer /\ (muddled' <=> muddled \/ watch.reads # {}) /\ muddled' \in BOOLEAN
      /\ UNCHANGED <<package, stages, managed, copies, registry, work, approved, happened>>
  BY DEF WatchScans
<1>4. f \in 0..MaxContents /\ f \in approved \cup {0}
  BY <1>1, FoundFacts
<1>5. /\ watch'.reads = watch.reads \cup {f}
      /\ watch' \in [timer : BOOLEAN, reads : SUBSET (0..MaxContents)]
  BY <1>1, <1>2, <1>4, StateParts
<1>6. SkillTypes'
  BY <1>1, <1>3, <1>5 DEF SkillTypes
<1>7. ApprovedInv'
  BY <1>1, <1>3, <1>4, <1>5 DEF ApprovedInv
<1>8. ASSUME ~muddled' PROVE QuietInv' /\ CurrentInv'
  <2>1. QuietInv'
    BY <1>1, <1>3, <1>8, QuietStays
  <2>2. Found' = Found /\ watch'.reads = {f}
    BY <1>3, <1>5, <1>8 DEF Found
  <2> QED BY <2>1, <2>2 DEF CurrentInv
<1> QED BY <1>6, <1>7, <1>8 DEF SkillsInv

LEMMA WatchEndsKeeps ==
  ASSUME SkillLimits, SkillsInv, NEW f \in watch.reads, WatchServes(f) \/ WatchFails(f)
  PROVE  SkillsInv'
<1>1. SkillTypes /\ ApprovedInv /\ (~muddled => QuietInv /\ CurrentInv)
  BY DEF SkillsInv
<1>2. /\ watch' = [watch EXCEPT !.reads = @ \ {f}]
      /\ UNCHANGED <<package, stages, managed, copies, work, approved, muddled, happened>>
      /\ registry' = f \/ (registry' = registry /\ f \notin Found)
  BY DEF WatchServes, WatchFails
<1>3. f \in 0..MaxContents /\ f \in approved \cup {0}
  BY <1>1, StateParts DEF ApprovedInv
<1>4. /\ watch'.timer = watch.timer /\ watch'.reads = watch.reads \ {f}
      /\ watch' \in [timer : BOOLEAN, reads : SUBSET (0..MaxContents)]
  BY <1>1, <1>2 DEF SkillTypes
<1>5. SkillTypes'
  BY <1>1, <1>2, <1>3, <1>4 DEF SkillTypes
<1>6. ApprovedInv'
  BY <1>1, <1>2, <1>3, <1>4 DEF ApprovedInv
<1>7. ASSUME ~muddled PROVE QuietInv' /\ CurrentInv'
  <2>1. QuietInv'
    BY <1>1, <1>2, <1>7, QuietStays
  <2>2. CurrentInv'
    <3>1. SUFFICES ASSUME ~watch.timer
                   PROVE  /\ watch'.reads \subseteq Found'
                          /\ (\A w \in work : w.kind = "install") => registry' = managed'
      BY <1>2, <1>4 DEF CurrentInv
    <3>2. f \in Found /\ Found' = Found /\ watch.reads \subseteq Found
      BY <1>1, <1>2, <1>7, <3>1 DEF CurrentInv, Found
    <3>3. ASSUME \A w \in work : w.kind = "install" PROVE copies = {}
      <4>1. \A w \in work : w.at \in {"write", "clean"}
        BY <1>1, <3>3, RequestPlaces DEF SkillTypes
      <4> QED BY <1>1, <1>7, <4>1 DEF QuietInv, Place
    <3>4. copies = {} => f = managed
      BY <1>1, <3>2, FoundFacts
    <3> QED BY <1>2, <1>4, <3>2, <3>3, <3>4
  <2> QED BY <2>1, <2>2
<1> QED BY <1>2, <1>5, <1>6, <1>7 DEF SkillsInv

LEMMA SkillsRestartKeeps == ASSUME SkillLimits, SkillsInv, Restart PROVE SkillsInv'
<1>1. SkillTypes /\ ApprovedInv /\ (~muddled => QuietInv /\ CurrentInv)
  BY DEF SkillsInv
<1>2. /\ happened' = [happened EXCEPT !.crashes = @ + 1] /\ registry' \in Found
      /\ (muddled' <=> muddled \/ work # {}) /\ muddled' \in BOOLEAN
      /\ work' = {} /\ watch' = [timer |-> FALSE, reads |-> {}]
      /\ UNCHANGED <<package, stages, managed, copies, approved>>
  BY DEF Restart
<1>3. registry' \in 0..MaxContents /\ registry' \in approved \cup {0}
      /\ (copies = {} => registry' = managed)
  BY <1>1, <1>2, FoundFacts
<1>4. /\ happened' \in [contents : 0..MaxContents, requests : Nat, crashes : Nat]
      /\ happened'.requests \in Nat
  BY <1>1, <1>2 DEF SkillTypes
<1>5. SkillTypes'
  BY <1>1, <1>2, <1>3, <1>4, FS_EmptySet DEF SkillTypes
<1>6. ApprovedInv'
  BY <1>1, <1>2, <1>3 DEF ApprovedInv
<1>7. ASSUME ~muddled' PROVE QuietInv' /\ CurrentInv'
  <2>1. copies = {} /\ Staging /\ RowSays
    BY <1>1, <1>2, <1>7 DEF QuietInv
  <2>2. QuietInv'
    BY <1>2, <2>1 DEF QuietInv, Staging, RowSays
  <2> QED BY <1>2, <1>3, <2>1, <2>2 DEF CurrentInv
<1> QED BY <1>5, <1>6, <1>7 DEF SkillsInv

LEMMA NextSkills ==
  ASSUME SkillLimits, SkillsInv, [SkillsNext]_skillVars PROVE SkillsInv'
<1>1. CASE UNCHANGED skillVars
  BY <1>1 DEF skillVars, SkillsInv, SkillTypes, ApprovedInv, QuietInv, Place, Staging, RowSays,
              CurrentInv, Found
<1>2. CASE Install \/ Enable \/ WatchScans \/ Restart
  BY <1>2, InstallKeeps, EnableKeeps, WatchScansKeeps, SkillsRestartKeeps
<1>3. ASSUME NEW kind \in {"disable", "reject"}, Withdraw(kind) PROVE SkillsInv'
  BY <1>3, WithdrawKeeps
<1>4. ASSUME NEW w \in work,
             \/ Staged(w) \/ WriteFails(w) \/ OldRemoved(w) \/ RemovalFails(w)
             \/ Copied(w) \/ CopyFails(w) \/ Cleared(w) \/ Named(w) \/ NameTaken(w)
             \/ Discarded(w) \/ StatusRecorded(w) \/ Scanned(w) \/ Served(w)
      PROVE  SkillsInv'
  BY <1>4, StagedKeeps, InstallFailsKeep, OldRemovedKeeps, CopiedKeeps, CopyFailsKeeps, ClearedKeeps,
     NamedKeeps, NameTakenKeeps, DiscardedKeeps, StatusRecordedKeeps, ScannedKeeps, ServedKeeps
<1>5. ASSUME NEW f \in watch.reads, WatchServes(f) \/ WatchFails(f) PROVE SkillsInv'
  BY <1>5, WatchEndsKeeps
<1> QED BY <1>1, <1>2, <1>3, <1>4, <1>5 DEF SkillsNext

LEMMA SkillsPromise ==
  ASSUME SkillLimits, SkillsInv
  PROVE  SkillsOK /\ ServedApproved /\ RowTellsRoot /\ RegistryCurrent
<1>1. SkillTypes /\ ApprovedInv /\ (~muddled => QuietInv /\ CurrentInv)
  BY DEF SkillsInv
<1>2. SkillsOK
  BY <1>1 DEF SkillsOK, SkillTypes
<1>3. ServedApproved
  BY <1>1 DEF ServedApproved, Given, ApprovedInv, ExtremeRisk
<1>4. RowTellsRoot
  BY <1>1 DEF RowTellsRoot, QuietInv, RowSays
<1>5. RegistryCurrent
  BY <1>1 DEF RegistryCurrent, CurrentInv
<1> QED BY <1>2, <1>3, <1>4, <1>5

(* Agents are only ever given skills that their owner asked to enable and   *)
(* the inspection let through, the row of a package tells what is below the *)
(* root between requests, and what is served is what is there once the      *)
(* watcher has caught up (setStatus, install: skill-packages.ts; refresh:   *)
(* skills.ts).                                                              *)
THEOREM PackagesServed ==
  ASSUME SkillLimits
  PROVE  SkillsSpec => [](SkillsOK /\ ServedApproved /\ RowTellsRoot /\ RegistryCurrent)
<1>1. SkillsSpec => []SkillsInv
  BY InitSkills, NextSkills, PTL DEF SkillsSpec
<1>2. SkillsInv => SkillsOK /\ ServedApproved /\ RowTellsRoot /\ RegistryCurrent
  BY SkillsPromise
<1> QED BY <1>1, <1>2, PTL
=============================================================================
