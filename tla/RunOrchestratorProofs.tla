------------------------ MODULE RunOrchestratorProofs ------------------------
(***************************************************************************)
(* Proofs about RunOrchestrator, for any sessions, any finite set of       *)
(* operations, any assignment of operations to sessions and any limit.     *)
(*                                                                         *)
(* The inductive invariant IInv has two halves: QueueInv relates a         *)
(* session's record to the operations of the session, SemInv relates the   *)
(* semaphore to the operations that use it.  Every queue is described by   *)
(* one notion, "q lists the set S": every member of S, once.               *)
(*                                                                         *)
(* At the end it is shown that RunOrchestrator implements SessionQueues.   *)
(* Only what an action does to the queues and to the operation that runs   *)
(* is seen from outside: pump is shown once to settle the sessions it is   *)
(* given and to leave the others alone, and every action is a step of the  *)
(* queue of one session, a settling of all of them, or unseen.             *)
(***************************************************************************)
EXTENDS MCRunOrchestrator, FiniteSetTheorems, SequenceTheorems, TLAPS

Lists(q, S) ==
    /\ q \in Seq(Entries)
    /\ \A i \in 1..Len(q) : q[i] \in S
    /\ \A i, j \in 1..Len(q) : q[i] = q[j] => i = j
    /\ \A e \in S : \E i \in 1..Len(q) : q[i] = e

PendingOf(s, ph) == {e \in EntriesOf(s) : ph[e] = "pending"}
At(place) == {e \in Entries : phase[e] = place}

(* A record in the middle of a synchronous stretch: its fields agree with  *)
(* the operations of its session, except that it may still have to be      *)
(* pumped.  Pump is given such a record and leaves one.                    *)
Shape(k, pend, run, ph) ==
    /\ k \subseteq Sessions
    /\ pend \in [Sessions -> Seq(Entries)]
    /\ run \in [Sessions -> BOOLEAN]
    /\ ph \in [Entries -> Phases]
    /\ \A s \in Sessions : Lists(pend[s], PendingOf(s, ph))
    /\ \A s \in Sessions : run[s] <=> \E e \in EntriesOf(s) : ph[e] \in Executing
    /\ \A s \in Sessions : run[s] \/ pend[s] # <<>> => s \in k
    /\ \A e, f \in Entries :
          ph[e] \in Executing /\ ph[f] \in Executing /\ SessionOf[e] = SessionOf[f] => e = f

QueueInv ==
    /\ Shape(known, pending, running, phase)
    /\ paused \in [Sessions -> BOOLEAN]
    /\ admitted \in [Entries -> 0..MaxAdmissions]
    /\ drain \in {"none", "waiting", "resolved"}
    /\ WorkConserving

SemInv ==
    /\ active \in Nat
    /\ Lists(waiting, At("waiting"))
    /\ PermitsCounted
    /\ NoIdlePermit

IInv == QueueInv /\ SemInv
----------------------------------------------------------------------------
(* Queues                                                                  *)

(* An empty queue lists nothing, and only an empty queue does. *)
LEMMA ListsEmpty ==
  ASSUME NEW q, NEW S, Lists(q, S)
  PROVE  q = <<>> <=> S = {}
BY EmptySeq DEF Lists

(* enqueue: an operation that is not listed is appended. *)
LEMMA ListsAppend ==
  ASSUME NEW q, NEW S, Lists(q, S), NEW e \in Entries, e \notin S
  PROVE  Lists(Append(q, e), S \cup {e})
<1> DEFINE r == Append(q, e)
<1>1. /\ r \in Seq(Entries) /\ Len(r) = Len(q) + 1 /\ Len(q) \in Nat
      /\ \A i \in 1..Len(q) : r[i] = q[i]
      /\ r[Len(q) + 1] = e
  BY AppendProperties, LenProperties DEF Lists
<1>2. \A i \in 1..Len(r) : i \in 1..Len(q) \/ i = Len(q) + 1
  BY <1>1
<1>3. \A i \in 1..Len(q) : i \in 1..Len(r)
  BY <1>1
<1>4. Len(q) + 1 \in 1..Len(r)
  BY <1>1
<1> HIDE DEF r
<1>5. \A i \in 1..Len(r) : r[i] \in S \cup {e}
  BY <1>1, <1>2 DEF Lists
<1>6. \A i, j \in 1..Len(r) : r[i] = r[j] => i = j
  BY <1>1, <1>2 DEF Lists
<1>7. \A f \in S \cup {e} : \E i \in 1..Len(r) : r[i] = f
  BY <1>1, <1>3, <1>4 DEF Lists
<1> QED BY <1>1, <1>5, <1>6, <1>7 DEF Lists, r

(* enqueueFirst and prioritize: it is put in front. *)
LEMMA ListsCons ==
  ASSUME NEW q, NEW S, Lists(q, S), NEW e \in Entries, e \notin S
  PROVE  Lists(<<e>> \o q, S \cup {e})
<1> DEFINE r == <<e>> \o q
<1>1. /\ r \in Seq(Entries) /\ Len(r) = Len(q) + 1 /\ Len(q) \in Nat
      /\ \A i \in 1..Len(q) : r[i + 1] = q[i]
      /\ r[1] = e
  BY ConcatProperties, LenProperties DEF Lists
<1>2. \A i \in 1..Len(r) : i = 1 \/ (i - 1 \in 1..Len(q) /\ r[i] = q[i - 1])
  BY <1>1
<1>3. \A i \in 1..Len(q) : i + 1 \in 1..Len(r)
  BY <1>1
<1>4. 1 \in 1..Len(r)
  BY <1>1
<1>5. \A i \in 1..Len(r) : r[i] \in S \cup {e}
  BY <1>1, <1>2 DEF Lists
<1>6. ASSUME NEW i \in 1..Len(r), NEW j \in 1..Len(r), r[i] = r[j]
      PROVE  i = j
  <2>1. CASE i = 1 /\ j = 1
    BY <2>1
  <2>2. CASE i # 1 /\ j # 1
    BY <1>1, <1>2, <1>6, <2>2 DEF Lists
  <2>3. CASE i = 1 /\ j # 1
    BY <1>1, <1>2, <1>6, <2>3 DEF Lists
  <2>4. CASE i # 1 /\ j = 1
    BY <1>1, <1>2, <1>6, <2>4 DEF Lists
  <2> QED BY <2>1, <2>2, <2>3, <2>4
<1>7. \A f \in S \cup {e} : \E i \in 1..Len(r) : r[i] = f
  BY <1>1, <1>3, <1>4 DEF Lists
<1> HIDE DEF r
<1> QED BY <1>1, <1>5, <1>6, <1>7 DEF Lists, r

(* pump and release: the first entry is taken. *)
LEMMA ListsTail ==
  ASSUME NEW q, NEW S, Lists(q, S), q # <<>>
  PROVE  /\ Head(q) \in S
         /\ Lists(Tail(q), S \ {Head(q)})
<1> DEFINE r == Tail(q)
<1>1. /\ r \in Seq(Entries) /\ Len(r) = Len(q) - 1 /\ Len(q) \in Nat \ {0}
      /\ \A i \in 1..Len(r) : r[i] = q[i + 1]
      /\ Head(q) = q[1]
  BY HeadTailProperties, LenProperties, EmptySeq DEF Lists
<1>2. \A i \in 1..Len(r) : i + 1 \in 1..Len(q) /\ i + 1 # 1
  BY <1>1
<1>3. \A i \in 1..Len(q) : i = 1 \/ (i - 1 \in 1..Len(r) /\ q[i] = r[i - 1])
  BY <1>1
<1>4. 1 \in 1..Len(q)
  BY <1>1
<1>5. \A i \in 1..Len(r) : r[i] \in S \ {Head(q)}
  BY <1>1, <1>2, <1>4 DEF Lists
<1>6. \A i, j \in 1..Len(r) : r[i] = r[j] => i = j
  BY <1>1, <1>2 DEF Lists
<1>7. \A e \in S \ {Head(q)} : \E i \in 1..Len(r) : r[i] = e
  <2>1. ASSUME NEW e \in S \ {Head(q)}
        PROVE  \E i \in 1..Len(r) : r[i] = e
    <3>1. PICK i \in 1..Len(q) : q[i] = e
      BY DEF Lists
    <3>2. i # 1
      BY <1>1, <3>1
    <3>3. i - 1 \in 1..Len(r) /\ q[i] = r[i - 1]
      BY <1>3, <3>2
    <3> QED BY <3>1, <3>3
  <2> QED BY <2>1
<1> HIDE DEF r
<1> QED BY <1>1, <1>4, <1>5, <1>6, <1>7 DEF Lists, r

(* remove and prioritize: the i-th entry is taken. *)
LEMMA ListsWithout ==
  ASSUME NEW q, NEW S, Lists(q, S), NEW i \in 1..Len(q)
  PROVE  Lists(Without(q, i), S \ {q[i]})
<1> DEFINE front == SubSeq(q, 1, i - 1)
           back == SubSeq(q, i + 1, Len(q))
           r == front \o back
<1>1. q \in Seq(Entries) /\ Len(q) \in Nat /\ i \in Int
  BY LenProperties DEF Lists
<1>2. /\ front \in Seq(Entries) /\ Len(front) = i - 1
      /\ \A j \in 1..(i - 1) : front[j] = q[j]
  BY <1>1
<1>3. /\ back \in Seq(Entries) /\ Len(back) = Len(q) - i
      /\ \A j \in 1..(Len(q) - i) : back[j] = q[j + i]
  BY <1>1
<1> HIDE DEF front, back
<1>4. /\ r \in Seq(Entries)
      /\ Len(r) = Len(q) - 1
      /\ \A j \in 1..Len(r) : r[j] = IF j < i THEN q[j] ELSE q[j + 1]
  <2>1. /\ r \in Seq(Entries) /\ Len(r) = Len(front) + Len(back)
        /\ \A j \in 1..(Len(front) + Len(back)) :
              r[j] = IF j <= Len(front) THEN front[j] ELSE back[j - Len(front)]
    BY <1>2, <1>3, ConcatProperties
  <2> HIDE DEF r
  <2>2. Len(r) = Len(q) - 1
    BY <1>1, <1>2, <1>3, <2>1
  <2>3. ASSUME NEW j \in 1..(Len(q) - 1), j < i
        PROVE  r[j] = q[j]
    <3>1. j \in 1..(Len(front) + Len(back)) /\ j <= Len(front)
      BY <1>1, <1>2, <1>3, <2>3
    <3>2. r[j] = front[j]
      BY <2>1, <3>1
    <3>3. front[j] = q[j]
      BY <1>2, <3>1
    <3> QED BY <3>2, <3>3
  <2>4. ASSUME NEW j \in 1..(Len(q) - 1), ~(j < i)
        PROVE  r[j] = q[j + 1]
    <3>1. r[j] = back[j - (i - 1)]
      <4>1. j \in 1..(Len(front) + Len(back)) /\ ~(j <= Len(front))
        BY <1>1, <1>2, <1>3, <2>4
      <4>2. r[j] = back[j - Len(front)]
        BY <2>1, <4>1
      <4> QED BY <1>2, <4>2
    <3>2. j - (i - 1) \in 1..(Len(q) - i) /\ (j - (i - 1)) + i = j + 1
      BY <1>1, <2>4
    <3> QED BY <1>3, <3>1, <3>2
  <2> QED BY <2>1, <2>2, <2>3, <2>4
<1> HIDE DEF r
<1>5. \A j \in 1..Len(r) : r[j] \in S \ {q[i]}
  BY <1>1, <1>4 DEF Lists
<1>6. \A j, k \in 1..Len(r) : r[j] = r[k] => j = k
  BY <1>1, <1>4 DEF Lists
<1>7. ASSUME NEW e \in S \ {q[i]}
      PROVE  \E j \in 1..Len(r) : r[j] = e
  <2>1. PICK k \in 1..Len(q) : q[k] = e
    BY DEF Lists
  <2>2. CASE k < i
    BY <1>1, <1>4, <2>1, <2>2
  <2>3. CASE k > i
    <3>1. k - 1 \in 1..Len(r) /\ r[k - 1] = q[(k - 1) + 1]
      BY <1>1, <1>4, <2>3
    <3> QED BY <1>1, <2>1, <3>1
  <2> QED BY <1>1, <2>1, <2>2, <2>3
<1>8. r = Without(q, i)
  BY DEF r, front, back, Without
<1> QED BY <1>4, <1>5, <1>6, <1>7, <1>8 DEF Lists

(* reorder: a list without repetitions of as many of the pending entries   *)
(* lists them all.                                                         *)
LEMMA ListsReorder ==
  ASSUME NEW q, NEW S, Lists(q, S),
         NEW order \in [1..Len(q) -> Entries],
         \A i, j \in 1..Len(q) : order[i] = order[j] => i = j,
         \A i \in 1..Len(q) : order[i] \in S
  PROVE  Lists(order, S)
<1>1. q \in Seq(Entries) /\ Len(q) \in Nat
  BY LenProperties DEF Lists
<1>2. order \in Seq(Entries) /\ Len(order) = Len(q)
  BY <1>1
<1>3. q \in Bijection(1..Len(q), S)
  <2>1. q \in [1..Len(q) -> S]
    <3>1. q \in [1..Len(q) -> Entries]
      BY <1>1
    <3> QED BY <3>1 DEF Lists
  <2>2. \A i, j \in 1..Len(q) : q[i] = q[j] => i = j
    BY DEF Lists
  <2>3. \A e \in S : \E i \in 1..Len(q) : q[i] = e
    BY DEF Lists
  <2> QED BY <2>1, <2>2, <2>3 DEF Bijection, Injection, Surjection, IsInjective
<1>4. IsFiniteSet(1..Len(q)) /\ Cardinality(1..Len(q)) = Len(q)
  <2>1. Cardinality(1..Len(q)) = IF 1 > Len(q) THEN 0 ELSE Len(q) - 1 + 1
    BY <1>1, FS_Interval
  <2> QED BY <1>1, <2>1, FS_Interval
<1>5. IsFiniteSet(S) /\ Cardinality(S) = Len(q)
  BY <1>3, <1>4, FS_Bijection DEF ExistsBijection
<1> DEFINE R == {order[i] : i \in 1..Len(q)}
<1>6. order \in Bijection(1..Len(q), R)
  BY DEF Bijection, Injection, Surjection, IsInjective
<1>7. IsFiniteSet(R) /\ Cardinality(R) = Len(q)
  BY <1>4, <1>6, FS_Bijection DEF ExistsBijection
<1>8. R = S
  BY <1>5, <1>7, FS_Subset
<1> QED BY <1>2, <1>8 DEF Lists
----------------------------------------------------------------------------
(* pump                                                                    *)

(* Every operation belongs to a session. *)
LEMMA SessionOfType == \A e \in Entries : SessionOf[e] \in Sessions
BY SessionOfAssumption

(* pump leaves well-formed records when it is given well-formed records.   *)
LEMMA PumpKeepsShape ==
  ASSUME NEW T, NEW k, NEW pend, NEW run, NEW pau, NEW ph,
         Shape(k, pend, run, ph), Pump(T, k, pend, run, pau, ph)
  PROVE  Shape(known', pending', running', phase')
<1> DEFINE able    == {s \in T \cap k : ~run[s] /\ ~pau[s]}
           started == {s \in able : pend[s] # <<>>}
           first(s) == Head(pend[s])
           Moved(e) == SessionOf[e] \in started /\ e = first(SessionOf[e])
<1>1. /\ k \subseteq Sessions
      /\ pend \in [Sessions -> Seq(Entries)]
      /\ run \in [Sessions -> BOOLEAN]
      /\ ph \in [Entries -> Phases]
      /\ \A s \in Sessions : Lists(pend[s], PendingOf(s, ph))
  BY DEF Shape
<1>2. /\ \A s \in Sessions : run[s] <=> \E e \in EntriesOf(s) : ph[e] \in Executing
      /\ \A s \in Sessions : run[s] \/ pend[s] # <<>> => s \in k
      /\ \A e, f \in Entries :
            ph[e] \in Executing /\ ph[f] \in Executing /\ SessionOf[e] = SessionOf[f] => e = f
  BY DEF Shape
<1>3. /\ known' = k \ (able \ started)
      /\ pending' = [s \in Sessions |-> IF s \in started THEN Tail(pend[s]) ELSE pend[s]]
      /\ running' = [s \in Sessions |-> s \in started \/ run[s]]
      /\ phase' = [e \in Entries |-> IF Moved(e) THEN "gate" ELSE ph[e]]
  BY DEF Pump
<1>4. ASSUME NEW s \in started
      PROVE  /\ s \in Sessions /\ s \in k /\ ~run[s] /\ ~pau[s]
             /\ first(s) \in PendingOf(s, ph)
             /\ Lists(Tail(pend[s]), PendingOf(s, ph) \ {first(s)})
             /\ first(s) \in Entries /\ SessionOf[first(s)] = s /\ ph[first(s)] = "pending"
  <2>1. s \in Sessions /\ s \in k /\ ~run[s] /\ ~pau[s] /\ pend[s] # <<>>
    BY <1>1
  <2>2. first(s) \in PendingOf(s, ph) /\ Lists(Tail(pend[s]), PendingOf(s, ph) \ {first(s)})
    BY <1>1, <2>1, ListsTail
  <2> QED BY <2>1, <2>2 DEF PendingOf, EntriesOf
<1>5. \A s \in able \ started : s \in Sessions /\ pend[s] = <<>> /\ ~run[s]
  BY <1>1
<1>6. \A s \in k \ able : s \in known'
  BY <1>3
<1>7. \A s \in Sessions : s \in k /\ ~(s \in able \ started) => s \in known'
  BY <1>3
<1>8. \A s \in able : pend[s] # <<>> => s \in started
  OBVIOUS
<1>9. \A s \in able : ~run[s]
  OBVIOUS
<1> HIDE DEF able, started, first
<1>10. /\ known' \subseteq Sessions
       /\ pending' \in [Sessions -> Seq(Entries)]
       /\ running' \in [Sessions -> BOOLEAN]
       /\ phase' \in [Entries -> Phases]
  <2>1. \A s \in started : Tail(pend[s]) \in Seq(Entries)
    BY <1>4 DEF Lists
  <2>2. "gate" \in Phases
    BY DEF Phases
  <2> QED BY <1>1, <1>3, <2>1, <2>2
<1>11. ASSUME NEW s \in Sessions
       PROVE  Lists(pending'[s], PendingOf(s, phase'))
  <2>1. CASE s \in started
    <3>1. pending'[s] = Tail(pend[s])
      BY <1>3, <2>1
    <3>2. PendingOf(s, phase') = PendingOf(s, ph) \ {first(s)}
      BY <1>3, <2>1 DEF PendingOf, EntriesOf
    <3> QED BY <1>4, <2>1, <3>1, <3>2
  <2>2. CASE s \notin started
    <3>1. pending'[s] = pend[s]
      BY <1>3, <2>2
    <3>2. PendingOf(s, phase') = PendingOf(s, ph)
      BY <1>3, <2>2 DEF PendingOf, EntriesOf
    <3> QED BY <1>1, <3>1, <3>2
  <2> QED BY <2>1, <2>2
<1>12. ASSUME NEW s \in Sessions
       PROVE  running'[s] <=> \E e \in EntriesOf(s) : phase'[e] \in Executing
  <2>1. CASE s \in started
    <3>1. first(s) \in EntriesOf(s) /\ phase'[first(s)] = "gate"
      BY <1>3, <1>4, <2>1 DEF EntriesOf
    <3>2. running'[s]
      BY <1>3, <2>1
    <3> QED BY <3>1, <3>2 DEF Executing
  <2>2. CASE s \notin started
    <3>1. \A e \in EntriesOf(s) : phase'[e] = ph[e]
      BY <1>3, <2>2 DEF EntriesOf
    <3>2. running'[s] = run[s]
      BY <1>1, <1>3, <2>2
    <3> QED BY <1>2, <3>1, <3>2
  <2> QED BY <2>1, <2>2
<1>13. ASSUME NEW s \in Sessions, running'[s] \/ pending'[s] # <<>>
       PROVE  s \in known'
  <2>1. CASE s \in started
    BY <1>4, <1>7, <2>1
  <2>2. CASE s \notin started
    <3>1. s \in k /\ (run[s] \/ pend[s] # <<>>)
      BY <1>1, <1>2, <1>3, <1>13, <2>2
    <3>2. s \notin able
      BY <1>8, <1>9, <2>2, <3>1
    <3> QED BY <1>6, <3>1, <3>2
  <2> QED BY <2>1, <2>2
<1>14. ASSUME NEW e \in Entries, NEW f \in Entries,
              phase'[e] \in Executing, phase'[f] \in Executing, SessionOf[e] = SessionOf[f]
       PROVE  e = f
  <2>1. \A g \in Entries : ~Moved(g) /\ phase'[g] \in Executing =>
            ph[g] \in Executing /\ run[SessionOf[g]]
    BY <1>2, <1>3, SessionOfType DEF EntriesOf
  <2>2. \A g \in Entries : Moved(g) => ~run[SessionOf[g]]
    BY <1>4
  <2>3. CASE Moved(e) /\ Moved(f)
    BY <1>14, <2>3
  <2>4. CASE ~Moved(e) /\ ~Moved(f)
    BY <1>2, <1>14, <2>1, <2>4
  <2>5. CASE Moved(e) # Moved(f)
    BY <1>14, <2>1, <2>2, <2>5
  <2> QED BY <2>3, <2>4, <2>5
<1> QED BY <1>10, <1>11, <1>12, <1>13, <1>14 DEF Shape

(* pump leaves no work in a session that could run it: what it is given    *)
(* may be idle only in the sessions it pumps.                              *)
LEMMA PumpConserves ==
  ASSUME NEW T, NEW k, NEW pend, NEW run, NEW pau, NEW ph,
         Shape(k, pend, run, ph), Pump(T, k, pend, run, pau, ph),
         \A s \in Sessions \ T : pend[s] # <<>> => run[s] \/ pau[s]
  PROVE  WorkConserving'
<1>1. SUFFICES ASSUME NEW s \in Sessions, pending'[s] # <<>>
               PROVE  s \in known' /\ (running'[s] \/ paused'[s])
  BY DEF WorkConserving
<1>2. s \in known'
  BY <1>1, PumpKeepsShape DEF Shape
<1>3. s \in k /\ (pend[s] = <<>> => pending'[s] = pend[s])
  BY <1>1 DEF Shape, Pump
<1> QED BY <1>1, <1>2, <1>3 DEF Pump

(* pump only starts operations that are pending. *)
LEMMA PumpPhases ==
  ASSUME NEW T, NEW k, NEW pend, NEW run, NEW pau, NEW ph,
         Shape(k, pend, run, ph), Pump(T, k, pend, run, pau, ph)
  PROVE  \A e \in Entries : phase'[e] = ph[e] \/ (ph[e] = "pending" /\ phase'[e] = "gate")
<1>1. \A s \in Sessions : pend[s] # <<>> => Head(pend[s]) \in PendingOf(s, ph)
  BY ListsTail DEF Shape
<1> QED BY <1>1, SessionOfType DEF Pump, PendingOf
----------------------------------------------------------------------------
(* What the actions leave alone                                            *)

(* Every action that ends in pump establishes QueueInv the same way. *)
LEMMA PumpKeepsQueueInv ==
  ASSUME NEW T, NEW k, NEW pend, NEW run, NEW pau \in [Sessions -> BOOLEAN], NEW ph,
         Shape(k, pend, run, ph), Pump(T, k, pend, run, pau, ph),
         \A s \in Sessions \ T : pend[s] # <<>> => run[s] \/ pau[s],
         admitted' \in [Entries -> 0..MaxAdmissions],
         drain' \in {"none", "waiting", "resolved"}
  PROVE  QueueInv'
<1>1. Shape(known', pending', running', phase')
  BY PumpKeepsShape
<1>2. WorkConserving'
  BY PumpConserves
<1>3. paused' \in [Sessions -> BOOLEAN]
  BY DEF Pump
<1> QED BY <1>1, <1>2, <1>3 DEF QueueInv

(* An action that leaves the records alone and moves no operation in or    *)
(* out of the queues keeps QueueInv.                                       *)
LEMMA QueueFrame ==
  ASSUME QueueInv, UNCHANGED <<queueVars, admitted, drain>>,
         phase' \in [Entries -> Phases],
         \A e \in Entries : /\ phase'[e] \in Executing <=> phase[e] \in Executing
                            /\ phase'[e] = "pending" <=> phase[e] = "pending"
  PROVE  QueueInv'
<1>1. \A s \in Sessions : PendingOf(s, phase') = PendingOf(s, phase)
  BY DEF PendingOf, EntriesOf
<1>2. \A s \in Sessions : \A e \in EntriesOf(s) :
         phase'[e] \in Executing <=> phase[e] \in Executing
  BY DEF EntriesOf
<1>3. Shape(known, pending, running, phase')
  BY <1>1, <1>2 DEF QueueInv, Shape
<1> QED BY <1>3 DEF QueueInv, WorkConserving, queueVars

(* An action that leaves the semaphore and its users alone keeps SemInv. *)
LEMMA SemFrame ==
  ASSUME SemInv, UNCHANGED semVars,
         \A e \in Entries : \/ phase'[e] = phase[e]
                            \/ /\ phase[e] \notin {"waiting", "handed", "holding"}
                               /\ phase'[e] \notin {"waiting", "handed", "holding"}
  PROVE  SemInv'
<1>1. /\ At("waiting")' = At("waiting")
      /\ {e \in Entries : phase'[e] = "handed"} = {e \in Entries : phase[e] = "handed"}
      /\ {e \in Entries : phase'[e] = "holding"} = {e \in Entries : phase[e] = "holding"}
  BY DEF At
<1> QED BY <1>1 DEF SemInv, PermitsCounted, NoIdlePermit, semVars

(* resolveIdleWaiters leaves drain in one of its three places. *)
LEMMA DrainType ==
  ASSUME NEW k, NEW pend, NEW run, drain \in {"none", "waiting", "resolved"}
  PROVE  Resolved(k, pend, run) \in {"none", "waiting", "resolved"}
BY DEF Resolved
----------------------------------------------------------------------------
(* The actions of the callers                                              *)

(* What enqueueEntry gives to pump: an operation that is in no queue, put  *)
(* into its own.                                                           *)
LEMMA AdmitShape ==
  ASSUME IInv, NEW e \in Entries, NEW queue, phase[e] \in Idlers,
         Lists(queue, PendingOf(SessionOf[e], phase) \cup {e})
  PROVE  Shape(known \cup {SessionOf[e]}, [pending EXCEPT ![SessionOf[e]] = queue], running,
               [phase EXCEPT ![e] = "pending"])
<1> DEFINE s  == SessionOf[e]
           k  == known \cup {s}
           pe == [pending EXCEPT ![s] = queue]
           ph == [phase EXCEPT ![e] = "pending"]
<1>1. phase[e] \in Idlers
  OBVIOUS
<1>2. s \in Sessions
  BY SessionOfType
<1>3. Shape(k, pe, running, ph)
  <2>1. \A t \in Sessions : Lists(pe[t], PendingOf(t, ph))
    <3>1. PendingOf(s, ph) = PendingOf(s, phase) \cup {e}
      BY DEF IInv, QueueInv, Shape, PendingOf, EntriesOf
    <3>2. \A t \in Sessions \ {s} : PendingOf(t, ph) = PendingOf(t, phase)
      BY DEF IInv, QueueInv, Shape, PendingOf, EntriesOf
    <3> QED BY <1>2, <3>1, <3>2 DEF IInv, QueueInv, Shape
  <2>2. \A f \in Entries : ph[f] \in Executing <=> phase[f] \in Executing
    BY <1>1 DEF IInv, QueueInv, Shape, Idlers, Executing
  <2>3. \A t \in Sessions : running[t] <=> \E f \in EntriesOf(t) : ph[f] \in Executing
    BY <2>2 DEF IInv, QueueInv, Shape, EntriesOf
  <2>4. ph \in [Entries -> Phases]
    BY DEF IInv, QueueInv, Shape, Phases
  <2>5. k \subseteq Sessions /\ pe \in [Sessions -> Seq(Entries)]
    BY <1>2 DEF IInv, QueueInv, Shape, Lists
  <2>6. \A t \in Sessions : running[t] \/ pe[t] # <<>> => t \in k
    BY DEF IInv, QueueInv, Shape
  <2> HIDE DEF ph, pe, k
  <2>7. \A f, g \in Entries :
          ph[f] \in Executing /\ ph[g] \in Executing /\ SessionOf[f] = SessionOf[g] => f = g
    BY <2>2 DEF IInv, QueueInv, Shape
  <2> QED BY <2>1, <2>3, <2>4, <2>5, <2>6, <2>7 DEF Shape, IInv, QueueInv
<1> QED BY <1>3

(* enqueueEntry, for either end of the queue. *)
LEMMA AdmitStep ==
  ASSUME IInv, NEW e \in Entries, NEW queue,
         Admit(e, queue),
         Lists(queue, PendingOf(SessionOf[e], phase) \cup {e})
  PROVE  IInv'
<1> DEFINE s  == SessionOf[e]
           k  == known \cup {s}
           pe == [pending EXCEPT ![s] = queue]
           ph == [phase EXCEPT ![e] = "pending"]
<1>1. /\ phase[e] \in Idlers
      /\ admitted[e] < MaxAdmissions
      /\ admitted' = [admitted EXCEPT ![e] = @ + 1]
      /\ Pump({s}, k, pe, running, paused, ph)
      /\ UNCHANGED <<semVars, drain>>
  BY DEF Admit
<1>2. s \in Sessions
  BY SessionOfType
<1>3. Shape(k, pe, running, ph)
  BY <1>1, AdmitShape
<1>4. \A t \in Sessions \ {s} : pe[t] # <<>> => running[t] \/ paused[t]
  BY DEF IInv, QueueInv, WorkConserving, Shape
<1>5. admitted' \in [Entries -> 0..MaxAdmissions]
  BY <1>1, AdmissionsAssumption DEF IInv, QueueInv
<1>6. QueueInv'
  <2>1. paused \in [Sessions -> BOOLEAN] /\ drain' \in {"none", "waiting", "resolved"}
    BY <1>1 DEF IInv, QueueInv
  <2> HIDE DEF k, pe, ph
  <2> QED BY <1>1, <1>3, <1>4, <1>5, <2>1, PumpKeepsQueueInv
<1>7. SemInv'
  <2>1. \A f \in Entries : phase'[f] = ph[f] \/ (ph[f] = "pending" /\ phase'[f] = "gate")
    <3> HIDE DEF k, pe, ph
    <3> QED BY <1>1, <1>3, PumpPhases
  <2>2. \A f \in Entries : \/ phase'[f] = phase[f]
                           \/ /\ phase[f] \notin {"waiting", "handed", "holding"}
                              /\ phase'[f] \notin {"waiting", "handed", "holding"}
    BY <1>1, <2>1 DEF IInv, QueueInv, Shape, Idlers
  <2> QED BY <1>1, <2>2, SemFrame DEF IInv
<1> QED BY <1>6, <1>7 DEF IInv

(* An operation that is not pending is in no queue, so it may be put in.   *)
LEMMA EnqueueStep ==
  ASSUME IInv, NEW e \in Entries, Enqueue(e) \/ EnqueueFirst(e)
  PROVE  IInv'
<1> DEFINE s == SessionOf[e]
<1>1. s \in Sessions /\ Lists(pending[s], PendingOf(s, phase))
  BY SessionOfType DEF IInv, QueueInv, Shape
<1>2. e \notin PendingOf(s, phase)
  BY DEF Enqueue, EnqueueFirst, Admit, Idlers, PendingOf
<1>3. CASE Enqueue(e)
  BY <1>1, <1>2, <1>3, ListsAppend, AdmitStep DEF Enqueue
<1>4. CASE EnqueueFirst(e)
  BY <1>1, <1>2, <1>4, ListsCons, AdmitStep DEF EnqueueFirst
<1> QED BY <1>3, <1>4

(* remove, whether or not it deletes the record. *)
LEMMA RemoveStep ==
  ASSUME IInv, NEW e \in Entries, Remove(e)
  PROVE  IInv'
<1> DEFINE s == SessionOf[e]
<1>1. PICK i \in DOMAIN pending[s] :
          /\ pending[s][i] = e
          /\ pending' = [pending EXCEPT ![s] = Without(@, i)]
          /\ phase' = [phase EXCEPT ![e] = "removed"]
          /\ IF ~running[s] /\ pending'[s] = <<>>
             THEN /\ known' = known \ {s}
                  /\ running' = [running EXCEPT ![s] = FALSE]
                  /\ paused' = [paused EXCEPT ![s] = FALSE]
             ELSE UNCHANGED <<known, running, paused>>
          /\ drain' = Resolved(known', pending', running')
          /\ UNCHANGED <<admitted, semVars>>
  BY DEF Remove
<1>2. /\ s \in Sessions
      /\ Lists(pending[s], PendingOf(s, phase))
      /\ i \in 1..Len(pending[s])
      /\ phase \in [Entries -> Phases]
      /\ pending \in [Sessions -> Seq(Entries)]
      /\ running \in [Sessions -> BOOLEAN]
      /\ paused \in [Sessions -> BOOLEAN]
  <2>1. s \in Sessions /\ Lists(pending[s], PendingOf(s, phase))
    BY SessionOfType DEF IInv, QueueInv, Shape
  <2>2. i \in 1..Len(pending[s])
    BY <1>1, <2>1, LenProperties DEF Lists
  <2> QED BY <2>1, <2>2 DEF IInv, QueueInv, Shape
<1>3. phase[e] = "pending"
  BY <1>1, <1>2 DEF Lists, PendingOf
<1> DEFINE rest == Without(pending[s], i)
<1>4. /\ Lists(rest, PendingOf(s, phase) \ {e})
      /\ pending'[s] = rest
      /\ \A t \in Sessions \ {s} : pending'[t] = pending[t]
      /\ pending' \in [Sessions -> Seq(Entries)]
  <2>1. Lists(rest, PendingOf(s, phase) \ {e})
    BY <1>1, <1>2, ListsWithout
  <2>2. rest \in Seq(Entries)
    BY <2>1 DEF Lists
  <2> HIDE DEF rest
  <2>3. pending' = [pending EXCEPT ![s] = rest]
    BY <1>1 DEF rest
  <2> QED BY <1>2, <2>1, <2>2, <2>3
<1> HIDE DEF rest
<1>5. ASSUME NEW t \in Sessions
      PROVE  Lists(pending'[t], PendingOf(t, phase'))
  <2>1. CASE t = s
    <3>1. PendingOf(s, phase') = PendingOf(s, phase) \ {e}
      BY <1>1, <1>2 DEF PendingOf, EntriesOf
    <3> QED BY <1>4, <2>1, <3>1
  <2>2. CASE t # s
    <3>1. PendingOf(t, phase') = PendingOf(t, phase) /\ pending'[t] = pending[t]
      BY <1>1, <1>2, <1>4, <2>2 DEF PendingOf, EntriesOf
    <3> QED BY <3>1 DEF IInv, QueueInv, Shape
  <2> QED BY <2>1, <2>2
<1>6. \A f \in Entries : phase'[f] \in Executing <=> phase[f] \in Executing
  BY <1>1, <1>2, <1>3 DEF Executing
<1>7. /\ running' = running
      /\ known' \subseteq known
      /\ \A t \in Sessions : running[t] \/ pending'[t] # <<>> => t \in known'
      /\ paused' \in [Sessions -> BOOLEAN]
  <2>1. s \in known
    BY <1>1, <1>2 DEF IInv, QueueInv, Shape
  <2>2. \A t \in Sessions : running[t] \/ pending'[t] # <<>> => t \in known
    BY <1>4, <2>1 DEF IInv, QueueInv, Shape
  <2>3. CASE ~running[s] /\ pending'[s] = <<>>
    <3>1. /\ known' = known \ {s}
          /\ running' = [running EXCEPT ![s] = FALSE]
          /\ paused' = [paused EXCEPT ![s] = FALSE]
      BY <1>1, <2>3
    <3>2. running' = running
      BY <1>2, <2>3, <3>1
    <3>3. \A t \in Sessions : running[t] \/ pending'[t] # <<>> => t # s
      BY <2>3
    <3> QED BY <1>2, <2>2, <3>1, <3>2, <3>3
  <2>4. CASE ~(~running[s] /\ pending'[s] = <<>>)
    BY <1>1, <1>2, <2>2, <2>4
  <2> QED BY <2>3, <2>4
<1>8. Shape(known', pending', running', phase')
  <2>1. \A t \in Sessions : running'[t] <=> \E f \in EntriesOf(t) : phase'[f] \in Executing
    BY <1>6, <1>7 DEF IInv, QueueInv, Shape, EntriesOf
  <2>2. \A f, g \in Entries :
          phase'[f] \in Executing /\ phase'[g] \in Executing /\ SessionOf[f] = SessionOf[g]
             => f = g
    BY <1>6 DEF IInv, QueueInv, Shape
  <2>3. phase' \in [Entries -> Phases]
    BY <1>1, <1>2 DEF Phases
  <2>4. known' \subseteq Sessions /\ running' \in [Sessions -> BOOLEAN]
    BY <1>2, <1>7 DEF IInv, QueueInv, Shape
  <2>5. \A t \in Sessions : running'[t] \/ pending'[t] # <<>> => t \in known'
    BY <1>7
  <2> QED BY <1>4, <1>5, <2>1, <2>2, <2>3, <2>4, <2>5 DEF Shape
<1>9. WorkConserving'
  <2>1. ASSUME NEW t \in Sessions, pending'[t] # <<>>
        PROVE  running'[t] \/ paused'[t]
    <3>1. pending[t] # <<>> /\ (t # s => pending'[t] = pending[t])
      BY <1>2, <1>3, <1>4, <2>1, EmptySeq
    <3>2. running[t] \/ paused[t]
      BY <3>1 DEF IInv, QueueInv, WorkConserving
    <3>3. \/ paused' = paused
          \/ pending'[s] = <<>> /\ paused' = [paused EXCEPT ![s] = FALSE]
      BY <1>1
    <3> QED BY <1>2, <1>7, <2>1, <3>2, <3>3
  <2> QED BY <1>7, <2>1 DEF WorkConserving
<1>10. QueueInv'
  <2>1. drain' \in {"none", "waiting", "resolved"}
    BY <1>1, DrainType DEF IInv, QueueInv
  <2> QED BY <1>1, <1>7, <1>8, <1>9, <2>1 DEF IInv, QueueInv
<1>11. SemInv'
  BY <1>1, <1>2, <1>3, SemFrame DEF IInv
<1> QED BY <1>10, <1>11 DEF IInv

(* reorder and prioritize exchange a session's queue for one that lists    *)
(* the same operations.                                                    *)
LEMMA RearrangeStep ==
  ASSUME IInv, NEW s \in Sessions, NEW queue,
         Lists(queue, PendingOf(s, phase)), pending[s] # <<>>,
         pending' = [pending EXCEPT ![s] = queue],
         UNCHANGED <<known, running, paused, phase, admitted, semVars, drain>>
  PROVE  IInv'
<1>1. pending \in [Sessions -> Seq(Entries)] /\ queue \in Seq(Entries)
  BY DEF IInv, QueueInv, Shape, Lists
<1>2. \A t \in Sessions : /\ Lists(pending'[t], PendingOf(t, phase))
                          /\ pending'[t] # <<>> => pending[t] # <<>>
  BY <1>1 DEF IInv, QueueInv, Shape
<1>3. Shape(known', pending', running', phase')
  BY <1>1, <1>2 DEF IInv, QueueInv, Shape
<1>4. QueueInv'
  BY <1>2, <1>3 DEF IInv, QueueInv, WorkConserving
<1>5. SemInv'
  BY SemFrame DEF IInv
<1> QED BY <1>4, <1>5 DEF IInv

(* prioritize takes the operation out and puts it in front. *)
LEMMA PrioritizeStep ==
  ASSUME IInv, NEW e \in Entries, Prioritize(e)
  PROVE  IInv'
<1> DEFINE s == SessionOf[e]
<1>1. PICK i \in DOMAIN pending[s] :
          /\ pending[s][i] = e
          /\ pending' = [pending EXCEPT ![s] = <<e>> \o Without(@, i)]
          /\ UNCHANGED <<known, running, paused, phase, admitted, semVars, drain>>
  BY DEF Prioritize
<1>2. s \in Sessions /\ Lists(pending[s], PendingOf(s, phase))
  BY SessionOfType DEF IInv, QueueInv, Shape
<1>3. i \in 1..Len(pending[s])
  BY <1>1, <1>2, LenProperties DEF Lists
<1>4. e \in PendingOf(s, phase)
  BY <1>1, <1>2, <1>3 DEF Lists
<1> DEFINE queue == <<e>> \o Without(pending[s], i)
<1>5. Lists(Without(pending[s], i), PendingOf(s, phase) \ {e})
  BY <1>1, <1>2, <1>3, ListsWithout
<1>6. Lists(queue, (PendingOf(s, phase) \ {e}) \cup {e})
  BY <1>5, ListsCons
<1>7. (PendingOf(s, phase) \ {e}) \cup {e} = PendingOf(s, phase)
  BY <1>4
<1>8. pending' = [pending EXCEPT ![s] = queue] /\ pending[s] # <<>>
  BY <1>1, <1>2, <1>3 DEF IInv, QueueInv, Shape
<1> HIDE DEF queue
<1>9. Lists(queue, PendingOf(s, phase))
  BY <1>6, <1>7
<1>10. UNCHANGED <<known, running, paused, phase, admitted, semVars, drain>>
  BY <1>1
<1>11. s \in Sessions
  BY <1>2
<1> HIDE DEF s
<1> QED BY <1>8, <1>9, <1>10, <1>11, RearrangeStep

(* reorder accepts only lists of exactly the pending operations. *)
LEMMA ReorderStep ==
  ASSUME IInv, NEW s \in Sessions, NEW order \in [DOMAIN pending[s] -> Entries],
         Reorder(s, order)
  PROVE  IInv'
<1>1. Lists(pending[s], PendingOf(s, phase))
  BY DEF IInv, QueueInv, Shape
<1>2. DOMAIN pending[s] = 1..Len(pending[s])
  BY <1>1, LenProperties DEF Lists
<1>3. /\ \A i, j \in 1..Len(pending[s]) : order[i] = order[j] => i = j
      /\ \A i \in 1..Len(pending[s]) : order[i] \in PendingOf(s, phase)
  BY <1>1, <1>2 DEF Reorder, Lists
<1>4. Lists(order, PendingOf(s, phase))
  BY <1>1, <1>2, <1>3, ListsReorder
<1> QED BY <1>4, RearrangeStep DEF Reorder

(* pause can only excuse a session from working. *)
LEMMA PauseStep ==
  ASSUME IInv, NEW s \in Sessions, Pause(s)
  PROVE  IInv'
<1>1. Shape(known', pending', running', phase')
  BY DEF Pause, IInv, QueueInv, Shape
<1>2. paused' \in [Sessions -> BOOLEAN] /\ \A t \in Sessions : paused[t] => paused'[t]
  BY DEF Pause, IInv, QueueInv
<1>3. QueueInv'
  BY <1>1, <1>2 DEF Pause, IInv, QueueInv, WorkConserving
<1>4. SemInv'
  BY SemFrame DEF Pause, IInv
<1> QED BY <1>3, <1>4 DEF IInv

(* An action that only unpauses and pumps; the sessions it does not pump   *)
(* keep their paused flag.                                                 *)
LEMMA UnpauseStep ==
  ASSUME IInv, NEW T, NEW pau \in [Sessions -> BOOLEAN],
         \A s \in Sessions \ T : pending[s] # <<>> => pau[s] = paused[s],
         Pump(T, known, pending, running, pau, phase),
         drain' \in {"none", "waiting", "resolved"},
         UNCHANGED <<admitted, semVars>>
  PROVE  IInv'
<1>1. Shape(known, pending, running, phase)
  BY DEF IInv, QueueInv
<1>2. \A s \in Sessions \ T : pending[s] # <<>> => running[s] \/ pau[s]
  BY DEF IInv, QueueInv, WorkConserving
<1>3. admitted' \in [Entries -> 0..MaxAdmissions]
  BY DEF IInv, QueueInv
<1>4. QueueInv'
  BY <1>1, <1>2, <1>3, PumpKeepsQueueInv
<1>5. \A e \in Entries : phase'[e] = phase[e] \/ (phase[e] = "pending" /\ phase'[e] = "gate")
  BY <1>1, PumpPhases
<1>6. SemInv'
  BY <1>5, SemFrame DEF IInv
<1> QED BY <1>4, <1>6 DEF IInv

(* resume unpauses and pumps one session. *)
LEMMA ResumeStep ==
  ASSUME IInv, NEW s \in Sessions, Resume(s)
  PROVE  IInv'
<1> DEFINE pau == [paused EXCEPT ![s] = FALSE]
<1>1. pau \in [Sessions -> BOOLEAN] /\ \A t \in Sessions \ {s} : pau[t] = paused[t]
  BY DEF IInv, QueueInv
<1>2. drain' \in {"none", "waiting", "resolved"}
  BY DrainType DEF Resume, IInv, QueueInv
<1>3. Pump({s}, known, pending, running, pau, phase) /\ UNCHANGED <<admitted, semVars>>
  BY DEF Resume
<1> HIDE DEF pau
<1> QED BY <1>1, <1>2, <1>3, UnpauseStep

(* drain unpauses and pumps every session that has a record. *)
LEMMA DrainStep ==
  ASSUME IInv, Drain
  PROVE  IInv'
<1> DEFINE pau == [s \in Sessions |-> FALSE]
<1>1. pau \in [Sessions -> BOOLEAN]
  OBVIOUS
<1>2. \A s \in Sessions \ known : pending[s] # <<>> => pau[s] = paused[s]
  BY DEF IInv, QueueInv, Shape
<1>3. drain' \in {"none", "waiting", "resolved"}
  BY DEF Drain
<1>4. Pump(known, known, pending, running, pau, phase) /\ UNCHANGED <<admitted, semVars>>
  BY DEF Drain
<1> HIDE DEF pau
<1> QED BY <1>1, <1>2, <1>3, <1>4, UnpauseStep
----------------------------------------------------------------------------
(* The actions of an operation                                             *)

(* The sets PermitsCounted and NoIdlePermit count are finite. *)
LEMMA AtFinite ==
  ASSUME NEW place
  PROVE  IsFiniteSet(At(place)) /\ Cardinality(At(place)) \in Nat
BY EntriesAssumption, FS_Subset, FS_CardinalityType DEF At

(* SemInv with the two sets named, in this state and in the next one. *)
LEMMA SemInvCounts ==
  /\ SemInv <=> /\ active \in Nat
                /\ Lists(waiting, At("waiting"))
                /\ active = Cardinality(At("holding"))
                /\ waiting # <<>> => active + Cardinality(At("handed")) >= Limit
  /\ SemInv' <=> /\ active' \in Nat
                 /\ Lists(waiting', At("waiting")')
                 /\ active' = Cardinality(At("holding")')
                 /\ waiting' # <<>> => active' + Cardinality(At("handed")') >= Limit
BY DEF SemInv, PermitsCounted, NoIdlePermit, At

(* A free permit is taken and counted. *)
LEMMA AcquireFreeStep ==
  ASSUME IInv, NEW e \in Entries, AcquireFree(e)
  PROVE  IInv'
<1>1. /\ phase[e] = "gate" /\ phase \in [Entries -> Phases]
      /\ phase' = [phase EXCEPT ![e] = "holding"]
      /\ active' = active + 1 /\ waiting' = waiting
      /\ UNCHANGED <<queueVars, admitted, drain>>
  BY DEF AcquireFree, IInv, QueueInv, Shape
<1>2. QueueInv'
  BY <1>1, QueueFrame DEF IInv, Phases, Executing
<1>3. /\ At("waiting")' = At("waiting")
      /\ At("handed")' = At("handed")
      /\ At("holding")' = At("holding") \cup {e}
      /\ e \notin At("holding")
  BY <1>1 DEF At
<1>4. Cardinality(At("holding")') = Cardinality(At("holding")) + 1
  BY <1>3, AtFinite, FS_AddElement
<1>5. SemInv'
  BY <1>1, <1>3, <1>4, AtFinite, LimitAssumption, SemInvCounts DEF IInv
<1> QED BY <1>2, <1>5 DEF IInv

(* A caller waits only when every permit is taken. *)
LEMMA AcquireWaitStep ==
  ASSUME IInv, NEW e \in Entries, AcquireWait(e)
  PROVE  IInv'
<1>1. /\ phase[e] = "gate" /\ phase \in [Entries -> Phases]
      /\ phase' = [phase EXCEPT ![e] = "waiting"]
      /\ active >= Limit /\ active' = active /\ waiting' = Append(waiting, e)
      /\ UNCHANGED <<queueVars, admitted, drain>>
  BY DEF AcquireWait, IInv, QueueInv, Shape
<1>2. QueueInv'
  BY <1>1, QueueFrame DEF IInv, Phases, Executing
<1>3. /\ At("waiting")' = At("waiting") \cup {e}
      /\ e \notin At("waiting")
      /\ At("handed")' = At("handed")
      /\ At("holding")' = At("holding")
  BY <1>1 DEF At
<1>4. Lists(waiting', At("waiting")')
  BY <1>1, <1>3, ListsAppend DEF IInv, SemInv
<1>5. SemInv'
  BY <1>1, <1>3, <1>4, AtFinite, LimitAssumption, SemInvCounts DEF IInv
<1> QED BY <1>2, <1>5 DEF IInv

(* A permit on its way becomes a permit that is held. *)
LEMMA AcquireContinueStep ==
  ASSUME IInv, NEW e \in Entries, AcquireContinue(e)
  PROVE  IInv'
<1>1. /\ phase[e] = "handed" /\ phase \in [Entries -> Phases]
      /\ phase' = [phase EXCEPT ![e] = "holding"]
      /\ active' = active + 1 /\ waiting' = waiting
      /\ UNCHANGED <<queueVars, admitted, drain>>
  BY DEF AcquireContinue, IInv, QueueInv, Shape
<1>2. QueueInv'
  BY <1>1, QueueFrame DEF IInv, Phases, Executing
<1>3. /\ At("waiting")' = At("waiting")
      /\ At("handed")' = At("handed") \ {e}
      /\ e \in At("handed")
      /\ At("holding")' = At("holding") \cup {e}
      /\ e \notin At("holding")
  BY <1>1 DEF At
<1>4. /\ Cardinality(At("holding")') = Cardinality(At("holding")) + 1
      /\ Cardinality(At("handed")') = Cardinality(At("handed")) - 1
  <2>1. Cardinality(At("holding") \cup {e}) = Cardinality(At("holding")) + 1
    BY <1>3, AtFinite, FS_AddElement
  <2>2. Cardinality(At("handed") \ {e}) = Cardinality(At("handed")) - 1
    BY <1>3, AtFinite, FS_RemoveElement
  <2> QED BY <1>3, <2>1, <2>2
<1>5. SemInv'
  BY <1>1, <1>3, <1>4, AtFinite, LimitAssumption, SemInvCounts DEF IInv
<1> QED BY <1>2, <1>5 DEF IInv

(* The operation that is woken was waiting, so it holds nothing yet. *)
LEMMA ReleaseStep ==
  ASSUME IInv, NEW e \in Entries, Release(e)
  PROVE  IInv'
<1>1. /\ phase[e] = "holding" /\ phase \in [Entries -> Phases]
      /\ active' = active - 1
      /\ UNCHANGED <<queueVars, admitted, drain>>
      /\ Lists(waiting, At("waiting"))
      /\ active \in Nat
  BY DEF Release, IInv, QueueInv, SemInv, Shape
<1>2. e \in At("holding")
  BY <1>1 DEF At
<1>3. CASE waiting = <<>>
  <2>1. phase' = [phase EXCEPT ![e] = "released"] /\ waiting' = waiting
    BY <1>1, <1>3 DEF Release
  <2>2. QueueInv'
    BY <1>1, <2>1, QueueFrame DEF IInv, Phases, Executing
  <2>3. At("waiting")' = At("waiting") /\ At("holding")' = At("holding") \ {e}
    BY <1>1, <2>1 DEF At
  <2>4. Cardinality(At("holding")') = Cardinality(At("holding")) - 1
    BY <1>2, <2>3, AtFinite, FS_RemoveElement
  <2>5. active = Cardinality(At("holding")) /\ active # 0
    BY <1>2, AtFinite, FS_EmptySet, SemInvCounts DEF IInv
  <2>6. SemInv'
    BY <1>1, <1>3, <2>1, <2>3, <2>4, <2>5, SemInvCounts
  <2> QED BY <2>2, <2>6 DEF IInv
<1>4. CASE waiting # <<>>
  <2> DEFINE w == Head(waiting)
  <2>1. w \in At("waiting") /\ Lists(Tail(waiting), At("waiting") \ {w})
    BY <1>1, <1>4, ListsTail
  <2>2. w \in Entries /\ phase[w] = "waiting" /\ w # e
    BY <1>1, <2>1 DEF At
  <2>3. /\ waiting' = Tail(waiting)
        /\ phase' = [f \in Entries |-> IF f = e THEN "released"
                                       ELSE IF f = w THEN "handed" ELSE phase[f]]
    BY <1>4 DEF Release
  <2> HIDE DEF w
  <2>4. QueueInv'
    BY <1>1, <2>2, <2>3, QueueFrame DEF IInv, Phases, Executing
  <2>5. /\ At("waiting")' = At("waiting") \ {w}
        /\ At("handed")' = At("handed") \cup {w}
        /\ w \notin At("handed")
        /\ At("holding")' = At("holding") \ {e}
    BY <1>1, <2>2, <2>3 DEF At
  <2>6. /\ Cardinality(At("holding")') = Cardinality(At("holding")) - 1
        /\ Cardinality(At("handed")') = Cardinality(At("handed")) + 1
    <3>1. Cardinality(At("holding") \ {e}) = Cardinality(At("holding")) - 1
      BY <1>2, AtFinite, FS_RemoveElement
    <3>2. Cardinality(At("handed") \cup {w}) = Cardinality(At("handed")) + 1
      BY <2>5, AtFinite, FS_AddElement
    <3> QED BY <2>5, <3>1, <3>2
  <2>7. active = Cardinality(At("holding")) /\ active # 0
    BY <1>2, AtFinite, FS_EmptySet, SemInvCounts DEF IInv
  <2>8. active + Cardinality(At("handed")) >= Limit
    BY <1>4, SemInvCounts DEF IInv
  <2>9. active' + Cardinality(At("handed")') >= Limit
    BY <1>1, <2>6, <2>8, AtFinite, LimitAssumption
  <2>10. active' \in Nat /\ active' = Cardinality(At("holding")')
    BY <1>1, <2>6, <2>7
  <2>11. Lists(waiting', At("waiting")')
    BY <2>1, <2>3, <2>5
  <2>12. SemInv'
    BY <2>9, <2>10, <2>11, SemInvCounts
  <2> QED BY <2>4, <2>12 DEF IInv
<1> QED BY <1>3, <1>4

(* What the finally of pump gives to pump: its operation has left the     *)
(* session idle.                                                           *)
LEMMA FinishShape ==
  ASSUME IInv, NEW e \in Entries, phase[e] \in {"released", "gate"}
  PROVE  Shape(known, pending, [running EXCEPT ![SessionOf[e]] = FALSE],
               [phase EXCEPT ![e] = "done"])
<1> DEFINE s   == SessionOf[e]
           run == [running EXCEPT ![s] = FALSE]
           ph  == [phase EXCEPT ![e] = "done"]
<1>1. phase[e] \in {"released", "gate"}
  OBVIOUS
<1>2. /\ s \in Sessions
      /\ phase \in [Entries -> Phases]
      /\ running \in [Sessions -> BOOLEAN]
  BY SessionOfType DEF IInv, QueueInv, Shape
<1>3. Shape(known, pending, run, ph)
  <2>1. \A t \in Sessions : PendingOf(t, ph) = PendingOf(t, phase)
    BY <1>1, <1>2 DEF PendingOf, EntriesOf
  <2>2. \A f \in Entries : ph[f] \in Executing <=> f # e /\ phase[f] \in Executing
    BY <1>2 DEF Executing
  <2>3. \A f \in Entries : f # e /\ phase[f] \in Executing => SessionOf[f] # s
    BY <1>1 DEF IInv, QueueInv, Shape, Executing
  <2>4. \A t \in Sessions : run[t] <=> \E f \in EntriesOf(t) : ph[f] \in Executing
    <3>1. ~\E f \in EntriesOf(s) : ph[f] \in Executing
      BY <2>2, <2>3 DEF EntriesOf
    <3>2. \A t \in Sessions \ {s} : \A f \in EntriesOf(t) :
             ph[f] \in Executing <=> phase[f] \in Executing
      BY <2>2 DEF EntriesOf
    <3>3. run[s] = FALSE /\ \A t \in Sessions \ {s} : run[t] = running[t]
      BY <1>2
    <3> HIDE DEF run, ph
    <3>4. \A t \in Sessions : running[t] <=> \E f \in EntriesOf(t) : phase[f] \in Executing
      BY DEF IInv, QueueInv, Shape
    <3> QED BY <3>1, <3>2, <3>3, <3>4
  <2>5. ph \in [Entries -> Phases] /\ run \in [Sessions -> BOOLEAN]
    BY <1>2 DEF Phases
  <2>6. \A t \in Sessions : run[t] \/ pending[t] # <<>> => t \in known
    BY <1>2 DEF IInv, QueueInv, Shape
  <2> HIDE DEF run, ph
  <2> QED BY <2>1, <2>2, <2>4, <2>5, <2>6 DEF IInv, QueueInv, Shape
<1> QED BY <1>3

(* The end of an operation frees its session, which is pumped. *)
LEMMA FinishStep ==
  ASSUME IInv, NEW e \in Entries, Finish(e)
  PROVE  IInv'
<1> DEFINE s   == SessionOf[e]
           run == [running EXCEPT ![s] = FALSE]
           ph  == [phase EXCEPT ![e] = "done"]
<1>1. /\ phase[e] \in {"released", "gate"}
      /\ Pump({s}, known, pending, run, paused, ph)
      /\ UNCHANGED <<admitted, semVars>>
  BY DEF Finish
<1>2. /\ s \in Sessions
      /\ phase \in [Entries -> Phases]
      /\ running \in [Sessions -> BOOLEAN]
  BY SessionOfType DEF IInv, QueueInv, Shape
<1>3. Shape(known, pending, run, ph)
  BY <1>1, FinishShape
<1>4. \A t \in Sessions \ {s} : pending[t] # <<>> => run[t] \/ paused[t]
  BY <1>2 DEF IInv, QueueInv, WorkConserving
<1>5. /\ paused \in [Sessions -> BOOLEAN]
      /\ admitted' \in [Entries -> 0..MaxAdmissions]
      /\ drain' \in {"none", "waiting", "resolved"}
  BY <1>1, DrainType DEF Finish, IInv, QueueInv
<1>6. QueueInv'
  <2> HIDE DEF run, ph
  <2> QED BY <1>1, <1>3, <1>4, <1>5, PumpKeepsQueueInv
<1>7. SemInv'
  <2>1. \A f \in Entries : phase'[f] = ph[f] \/ (ph[f] = "pending" /\ phase'[f] = "gate")
    <3> HIDE DEF run, ph
    <3> QED BY <1>1, <1>3, PumpPhases
  <2>2. \A f \in Entries : \/ phase'[f] = phase[f]
                           \/ /\ phase[f] \notin {"waiting", "handed", "holding"}
                              /\ phase'[f] \notin {"waiting", "handed", "holding"}
    BY <1>1, <1>2, <2>1
  <2> QED BY <1>1, <2>2, SemFrame DEF IInv
<1> QED BY <1>6, <1>7 DEF IInv
----------------------------------------------------------------------------
(* The theorems                                                            *)

(* The orchestrator starts without records and without permits. *)
LEMMA InitIInv == Init => IInv
<1> SUFFICES ASSUME Init PROVE IInv
  OBVIOUS
<1> USE DEF Init
<1>1. Shape(known, pending, running, phase)
  <2>1. \A s \in Sessions : Lists(pending[s], PendingOf(s, phase))
    BY EmptySeq DEF Lists, PendingOf, EntriesOf
  <2> QED BY <2>1, SessionOfType DEF Shape, Phases, Executing, EntriesOf
<1>2. QueueInv
  BY <1>1, AdmissionsAssumption DEF QueueInv, WorkConserving
<1>3. At("waiting") = {} /\ At("holding") = {}
  BY DEF At
<1>4. Lists(waiting, At("waiting"))
  BY <1>3, EmptySeq DEF Lists
<1>5. SemInv
  BY <1>3, <1>4, FS_EmptySet, SemInvCounts
<1> QED BY <1>2, <1>5 DEF IInv

(* Every step keeps the invariant. *)
LEMMA NextIInv == IInv /\ [Next]_vars => IInv'
<1> SUFFICES ASSUME IInv, [Next]_vars PROVE IInv'
  OBVIOUS
<1>1. CASE \E e \in Entries : Enqueue(e) \/ EnqueueFirst(e) \/ Remove(e) \/ Prioritize(e)
  BY <1>1, EnqueueStep, RemoveStep, PrioritizeStep
<1>2. CASE \E s \in Sessions : Pause(s) \/ Resume(s)
  BY <1>2, PauseStep, ResumeStep
<1>3. CASE \E s \in Sessions : \E order \in [DOMAIN pending[s] -> Entries] : Reorder(s, order)
  BY <1>3, ReorderStep
<1>4. CASE Drain
  BY <1>4, DrainStep
<1>5. CASE \E e \in Entries : Operation(e)
  BY <1>5, AcquireFreeStep, AcquireWaitStep, AcquireContinueStep, ReleaseStep, FinishStep
     DEF Operation
<1>6. CASE UNCHANGED vars
  BY <1>6, SemFrame
     DEF vars, queueVars, semVars, IInv, QueueInv, Shape, WorkConserving, PendingOf, EntriesOf
<1> QED BY <1>1, <1>2, <1>3, <1>4, <1>5, <1>6 DEF Next, Caller

(* What IInv says in the words of the properties. *)
LEMMA IInvImplies ==
  IInv => /\ TypeOK /\ SerialSessions /\ RunningFlag /\ QueuedOnce /\ WorkConserving
          /\ PermitsCounted /\ NoIdlePermit
<1> SUFFICES ASSUME IInv
             PROVE  /\ TypeOK /\ SerialSessions /\ RunningFlag /\ QueuedOnce
                    /\ WorkConserving /\ PermitsCounted /\ NoIdlePermit
  OBVIOUS
<1>1. TypeOK
  BY DEF IInv, QueueInv, SemInv, Shape, Lists, TypeOK
<1>2. SerialSessions /\ RunningFlag
  BY DEF IInv, QueueInv, Shape, SerialSessions, RunningFlag
<1>3. QueuedOnce
  <2>1. \A s \in Sessions : Lists(pending[s], PendingOf(s, phase))
    BY DEF IInv, QueueInv, Shape
  <2>2. \A s \in Sessions : \A i \in 1..Len(pending[s]) : pending[s][i] \in PendingOf(s, phase)
    BY <2>1 DEF Lists
  <2>3. \A e \in Entries : phase[e] = "pending" => e \in PendingOf(SessionOf[e], phase)
    BY DEF PendingOf, EntriesOf
  <2>4. \A e \in Entries : phase[e] = "pending" =>
           \E i \in 1..Len(pending[SessionOf[e]]) : pending[SessionOf[e]][i] = e
    BY <2>1, <2>3, SessionOfType DEF Lists
  <2>5. \A s \in Sessions : \A i, j \in 1..Len(pending[s]) :
           pending[s][i] = pending[s][j] => i = j
    BY <2>1 DEF Lists
  <2> QED BY <2>2, <2>4, <2>5 DEF QueuedOnce, PendingOf, EntriesOf
<1>4. WorkConserving /\ PermitsCounted /\ NoIdlePermit
  BY DEF IInv, QueueInv, SemInv
<1> QED BY <1>1, <1>2, <1>3, <1>4

(* The invariant of this module holds in every reachable state. *)
THEOREM IInvHolds == Spec => []IInv
<1> QED BY InitIInv, NextIInv, PTL DEF Spec

(* The variables of RunOrchestrator have their types; among them, that the *)
(* semaphore never gives back a permit it has not counted.                 *)
THEOREM TypeCorrect == Spec => []TypeOK
<1> QED BY IInvHolds, IInvImplies, PTL

(* pump never lets two operations of a session run at once, for any number *)
(* of sessions and operations.                                             *)
THEOREM OneOperationPerSession == Spec => []SerialSessions
<1> QED BY IInvHolds, IInvImplies, PTL

(* The running flag of a record is never lost nor left behind when records *)
(* are deleted and created again.                                          *)
THEOREM RunningFlagIsReal == Spec => []RunningFlag
<1> QED BY IInvHolds, IInvImplies, PTL

(* enqueue, remove, reorder, prioritize and pump lose and duplicate no     *)
(* operation.                                                              *)
THEOREM NoOperationLost == Spec => []QueuedOnce
<1> QED BY IInvHolds, IInvImplies, PTL

(* No session is left idle with work in its queue unless it is paused. *)
THEOREM NoLostWakeUp == Spec => []WorkConserving
<1> QED BY IInvHolds, IInvImplies, PTL

(* The count of the semaphore is the number of operations that hold a      *)
(* permit, for any limit.                                                  *)
THEOREM PermitsAreCounted == Spec => []PermitsCounted
<1> QED BY IInvHolds, IInvImplies, PTL

(* While an operation waits in the semaphore, every permit is held or on   *)
(* its way to a waiter.                                                    *)
THEOREM NoPermitLost == Spec => []NoIdlePermit
<1> QED BY IInvHolds, IInvImplies, PTL

(* The step in which drain() resolves leaves nothing queued or running. *)
LEMMA DrainStepQuiet ==
  IInv /\ IInv' /\ [Next]_vars =>
    (drain # "resolved" /\ drain' = "resolved" => \A e \in Entries : phase'[e] \in Idlers)
<1> SUFFICES ASSUME IInv', [Next]_vars, drain # "resolved", drain' = "resolved"
             PROVE  \A e \in Entries : phase'[e] \in Idlers
  OBVIOUS
<1>1. Idle(known', pending', running')
  BY DEF Next, Caller, Operation, Enqueue, EnqueueFirst, Admit, Remove, Reorder, Prioritize,
         Pause, Resume, Drain, AcquireFree, AcquireWait, AcquireContinue, Release, Finish,
         Resolved, vars
<1>2. Shape(known', pending', running', phase')
  BY DEF IInv, QueueInv
<1>3. \A s \in Sessions : ~running'[s] /\ pending'[s] = <<>>
  BY <1>1, <1>2 DEF Idle, Shape
<1>4. \A s \in Sessions : PendingOf(s, phase') = {}
  BY <1>2, <1>3, ListsEmpty DEF Shape
<1>5. \A e \in Entries : phase'[e] \notin Executing /\ phase'[e] # "pending"
  BY <1>2, <1>3, <1>4, SessionOfType DEF Shape, PendingOf, EntriesOf
<1> QED BY <1>2, <1>5 DEF Shape, Phases, Executing, Idlers

(* drain() returns only from a quiet orchestrator: whichever of the places *)
(* that wake its caller is reached, nothing is queued or running then.     *)
THEOREM DrainReturnsQuiet == Spec => DrainedMeansQuiet
<1>1. IInv /\ IInv' /\ [Next]_vars =>
        [drain # "resolved" /\ drain' = "resolved" =>
           \A e \in Entries : phase'[e] \in Idlers]_vars
  BY DrainStepQuiet
<1> QED BY <1>1, IInvHolds, PTL DEF Spec, DrainedMeansQuiet

(***************************** Refinement ***********************************)
(* No two operations of a session run. *)
Serial(ph) ==
    \A e, f \in Entries :
        ph[e] \in Executing /\ ph[f] \in Executing /\ SessionOf[e] = SessionOf[f] => e = f

(* Session s is as it was in a state with queue q and operation d. *)
Kept(s, q, d) == pending'[s] = q /\ Doing(s, phase') = d

(* It has taken the first operation of q, and was free. *)
Taken(s, q, d) ==
    d = none /\ q # <<>> /\ pending'[s] = Tail(q) /\ Doing(s, phase') = Head(q)
----------------------------------------------------------------------------
(* The operation that runs is the one that executes. *)
LEMMA DoingOf ==
  ASSUME NEW ph, Serial(ph), NEW s, NEW e \in EntriesOf(s), ph[e] \in Executing
  PROVE  Doing(s, ph) = e
<1> DEFINE d == CHOOSE f \in EntriesOf(s) : ph[f] \in Executing
<1>1. d \in EntriesOf(s) /\ ph[d] \in Executing
  OBVIOUS
<1>2. d = e
  BY <1>1 DEF Serial, EntriesOf
<1> QED BY <1>2 DEF Doing

LEMMA DoingNone ==
  ASSUME NEW ph, NEW s, \A e \in EntriesOf(s) : ph[e] \notin Executing
  PROVE  Doing(s, ph) = none
BY DEF Doing

(* Moving the operations of a session among the places of execution, or    *)
(* among the others, changes nothing for it.                               *)
LEMMA DoingSame ==
  ASSUME NEW ph, NEW qh, Serial(ph), NEW s,
         \A e \in EntriesOf(s) : ph[e] \in Executing <=> qh[e] \in Executing
  PROVE  Doing(s, qh) = Doing(s, ph)
<1>1. CASE \E e \in EntriesOf(s) : ph[e] \in Executing
  <2>1. PICK e \in EntriesOf(s) : ph[e] \in Executing
    BY <1>1
  <2>2. \A f \in EntriesOf(s) : qh[f] \in Executing => f = e
    BY <2>1 DEF Serial, EntriesOf
  <2>3. Doing(s, qh) = e
    <3> DEFINE d == CHOOSE f \in EntriesOf(s) : qh[f] \in Executing
    <3>1. qh[e] \in Executing
      BY <2>1
    <3>2. d \in EntriesOf(s) /\ qh[d] \in Executing
      BY <3>1
    <3>3. d = e
      BY <2>2, <3>2
    <3> QED BY <3>1, <3>3 DEF Doing
  <2> QED BY <2>1, <2>3, DoingOf
<1>2. CASE ~\E e \in EntriesOf(s) : ph[e] \in Executing
  BY <1>2, DoingNone
<1> QED BY <1>1, <1>2

(* pump leaves a session alone that it is not given. *)
LEMMA PumpLeaves ==
  ASSUME NEW T, NEW k, NEW pend, NEW run, NEW pau, NEW ph,
         Shape(k, pend, run, ph), Pump(T, k, pend, run, pau, ph),
         NEW s \in Sessions, s \notin T
  PROVE  Kept(s, pend[s], Doing(s, ph))
<1>1. pending'[s] = pend[s]
  BY DEF Pump
<1>2. \A e \in EntriesOf(s) : phase'[e] = ph[e]
  BY DEF Pump, EntriesOf
<1>3. Serial(ph)
  BY DEF Shape, Serial
<1>4. Doing(s, phase') = Doing(s, ph)
  BY <1>2, <1>3, DoingSame
<1> QED BY <1>1, <1>4 DEF Kept

(* pump leaves a session as it is, or starts its first operation when      *)
(* nothing runs.                                                           *)
LEMMA PumpSettles ==
  ASSUME NEW T, NEW k, NEW pend, NEW run, NEW pau, NEW ph,
         Shape(k, pend, run, ph), Pump(T, k, pend, run, pau, ph),
         NEW s \in Sessions
  PROVE  Kept(s, pend[s], Doing(s, ph)) \/ Taken(s, pend[s], Doing(s, ph))
<1> DEFINE starts == s \in T /\ s \in k /\ ~run[s] /\ ~pau[s] /\ pend[s] # <<>>
           first == Head(pend[s])
<1>1. Serial(ph) /\ Serial(phase')
  <2>1. Shape(known', pending', running', phase')
    BY PumpKeepsShape
  <2> QED BY <2>1 DEF Shape, Serial
<1>2. CASE starts
  <2>1. first \in PendingOf(s, ph)
    BY <1>2, ListsTail DEF Shape
  <2>2. first \in EntriesOf(s) /\ first \in Entries /\ SessionOf[first] = s
    BY <2>1 DEF PendingOf, EntriesOf
  <2>3. pending'[s] = Tail(pend[s]) /\ phase'[first] = "gate"
    BY <1>2, <2>2 DEF Pump
  <2>4. Doing(s, phase') = first
    BY <1>1, <2>2, <2>3, DoingOf DEF Executing
  <2>5. Doing(s, ph) = none
    BY <1>2, DoingNone DEF Shape
  <2> QED BY <1>2, <2>3, <2>4, <2>5 DEF Taken
<1>3. CASE ~starts
  <2>1. pending'[s] = pend[s]
    BY <1>3 DEF Pump
  <2>2. \A e \in EntriesOf(s) : phase'[e] = ph[e]
    BY <1>3 DEF Pump, EntriesOf
  <2>3. Doing(s, phase') = Doing(s, ph)
    BY <1>1, <2>2, DoingSame
  <2> QED BY <2>1, <2>3 DEF Kept
<1> QED BY <1>2, <1>3
----------------------------------------------------------------------------
(* Steps of SessionQueues                                                  *)

(* Kept and Taken are the two forms of Settle. *)
LEMMA SettleMeans ==
  ASSUME NEW s \in Sessions, NEW q, NEW d
  PROVE  Queues!Settle(s, q, d) <=> Kept(s, q, d) \/ Taken(s, q, d)
BY DEF Queues!Settle, Kept, Taken

(* An action that concerns one session. *)
LEMMA OneSession ==
  ASSUME IInv', NEW s \in Sessions,
         \/ \E e \in Entries : Queues!Submit(s, e) \/ Queues!Withdraw(s, e)
         \/ Queues!Rearrange(s)
         \/ Queues!Complete(s),
         \A t \in Sessions \ {s} : Kept(t, pending[t], Doing(t, phase))
  PROVE  Queues!Next
<1>1. DOMAIN pending' = Sessions
  BY DEF IInv, QueueInv, Shape
<1>2. \A t \in Sessions \ {s} : /\ pending'[t] = pending[t]
                               /\ Doing(t, phase') = Doing(t, phase)
  BY DEF Kept
<1> QED BY <1>1, <1>2 DEF Queues!Next

(* An action that settles every session. *)
LEMMA AllSettle ==
  ASSUME IInv',
         \A s \in Sessions : \/ Kept(s, pending[s], Doing(s, phase))
                             \/ Taken(s, pending[s], Doing(s, phase))
  PROVE  Queues!Next
<1>1. DOMAIN pending' = Sessions
  BY DEF IInv, QueueInv, Shape
<1>2. \A s \in Sessions : Queues!Settle(s, pending[s], Doing(s, phase))
  BY SettleMeans
<1> QED BY <1>1, <1>2 DEF Queues!Next

(* An action that moves operations among the places of execution is not    *)
(* seen.                                                                   *)
LEMMA Unseen ==
  ASSUME IInv, UNCHANGED pending,
         \A e \in Entries : phase'[e] \in Executing <=> phase[e] \in Executing
  PROVE  UNCHANGED Queues!vars
<1>1. Serial(phase)
  BY DEF IInv, QueueInv, Shape, Serial
<1>2. \A s \in Sessions : Doing(s, phase') = Doing(s, phase)
  BY <1>1, DoingSame DEF EntriesOf
<1> QED BY <1>2 DEF Queues!vars
----------------------------------------------------------------------------
(* The actions                                                             *)

(* What runs is an operation that executes, or nothing. *)
LEMMA DoingType ==
  ASSUME IInv, NEW s \in Sessions
  PROVE  \/ Doing(s, phase) = none /\ ~\E e \in EntriesOf(s) : phase[e] \in Executing
         \/ Doing(s, phase) \in EntriesOf(s) /\ phase[Doing(s, phase)] \in Executing
<1>1. Serial(phase)
  BY DEF IInv, QueueInv, Shape, Serial
<1>2. CASE \E e \in EntriesOf(s) : phase[e] \in Executing
  BY <1>1, <1>2, DoingOf
<1>3. CASE ~\E e \in EntriesOf(s) : phase[e] \in Executing
  BY <1>3, DoingNone
<1> QED BY <1>2, <1>3

(* enqueueEntry submits an operation to its session. *)
LEMMA AdmitSubmits ==
  ASSUME IInv, IInv', NEW e \in Entries, NEW queue, Admit(e, queue),
         Lists(queue, PendingOf(SessionOf[e], phase) \cup {e}),
         \/ queue = Append(pending[SessionOf[e]], e)
         \/ queue = <<e>> \o pending[SessionOf[e]]
  PROVE  Queues!Next
<1> DEFINE s  == SessionOf[e]
           k  == known \cup {s}
           pe == [pending EXCEPT ![s] = queue]
           ph == [phase EXCEPT ![e] = "pending"]
<1>1. /\ phase[e] \in Idlers
      /\ Pump({s}, k, pe, running, paused, ph)
  BY DEF Admit
<1>2. s \in Sessions
  BY SessionOfType
<1>3. Shape(k, pe, running, ph)
  BY <1>1, AdmitShape
<1>4. \A t \in Sessions : Doing(t, ph) = Doing(t, phase)
  <2>1. \A f \in Entries : ph[f] \in Executing <=> phase[f] \in Executing
    BY <1>1 DEF IInv, QueueInv, Shape, Idlers, Executing
  <2>2. Serial(phase)
    BY DEF IInv, QueueInv, Shape, Serial
  <2> HIDE DEF ph
  <2> QED BY <2>1, <2>2, DoingSame DEF EntriesOf
<1>5. pe[s] = queue /\ \A t \in Sessions \ {s} : pe[t] = pending[t]
  BY <1>2 DEF IInv, QueueInv, Shape
<1> HIDE DEF k, pe, ph
<1>6. Queues!Settle(s, queue, Doing(s, phase))
  BY <1>1, <1>2, <1>3, <1>4, <1>5, PumpSettles, SettleMeans
<1>7. \A t \in Sessions \ {s} : Kept(t, pending[t], Doing(t, phase))
  BY <1>1, <1>3, <1>4, <1>5, PumpLeaves
<1>8. e \notin {pending[s][i] : i \in DOMAIN pending[s]}
  <2>1. Lists(pending[s], PendingOf(s, phase)) /\ e \notin PendingOf(s, phase)
    BY <1>1, <1>2 DEF IInv, QueueInv, Shape, PendingOf, Idlers
  <2>2. DOMAIN pending[s] = 1..Len(pending[s])
    BY <2>1, LenProperties DEF Lists
  <2> QED BY <2>1, <2>2 DEF Lists
<1>9. e # Doing(s, phase)
  BY <1>1, <1>2, DoingType, NoneAssumption DEF Idlers, Executing
<1>10. Queues!Submit(s, e)
  BY <1>2, <1>6, <1>8, <1>9 DEF Queues!Submit, Queues!Listed
<1> QED BY <1>2, <1>7, <1>10, OneSession

LEMMA EnqueueSubmits ==
  ASSUME IInv, IInv', NEW e \in Entries, Enqueue(e) \/ EnqueueFirst(e)
  PROVE  Queues!Next
<1> DEFINE s == SessionOf[e]
<1>1. s \in Sessions /\ Lists(pending[s], PendingOf(s, phase))
  BY SessionOfType DEF IInv, QueueInv, Shape
<1>2. e \notin PendingOf(s, phase)
  BY DEF Enqueue, EnqueueFirst, Admit, Idlers, PendingOf
<1>3. CASE Enqueue(e)
  BY <1>1, <1>2, <1>3, ListsAppend, AdmitSubmits DEF Enqueue
<1>4. CASE EnqueueFirst(e)
  BY <1>1, <1>2, <1>4, ListsCons, AdmitSubmits DEF EnqueueFirst
<1> QED BY <1>3, <1>4

(* remove withdraws a pending operation. *)
LEMMA RemoveWithdraws ==
  ASSUME IInv, IInv', NEW e \in Entries, Remove(e)
  PROVE  Queues!Next
<1> DEFINE s == SessionOf[e]
<1>1. PICK i \in DOMAIN pending[s] :
          /\ pending[s][i] = e
          /\ pending' = [pending EXCEPT ![s] = Without(@, i)]
          /\ phase' = [phase EXCEPT ![e] = "removed"]
  BY DEF Remove
<1>2. s \in Sessions /\ Lists(pending[s], PendingOf(s, phase))
  BY SessionOfType DEF IInv, QueueInv, Shape
<1>3. phase[e] = "pending"
  <2>1. i \in 1..Len(pending[s])
    BY <1>1, <1>2, LenProperties DEF Lists
  <2> QED BY <1>1, <1>2, <2>1 DEF Lists, PendingOf
<1>4. \A t \in Sessions : Doing(t, phase') = Doing(t, phase)
  <2>1. \A f \in Entries : phase'[f] \in Executing <=> phase[f] \in Executing
    BY <1>1, <1>3 DEF IInv, QueueInv, Shape, Executing
  <2>2. Serial(phase)
    BY DEF IInv, QueueInv, Shape, Serial
  <2> QED BY <2>1, <2>2, DoingSame DEF EntriesOf
<1>5. /\ pending'[s] = Without(pending[s], i)
      /\ \A t \in Sessions \ {s} : pending'[t] = pending[t]
  BY <1>1, <1>2 DEF IInv, QueueInv, Shape
<1>6. Queues!Withdraw(s, e)
  BY <1>1, <1>2, <1>4, <1>5 DEF Queues!Withdraw, Queues!Listed, Without
<1>7. \A t \in Sessions \ {s} : Kept(t, pending[t], Doing(t, phase))
  BY <1>4, <1>5 DEF Kept
<1> QED BY <1>2, <1>6, <1>7, OneSession

(* Two lists of the same operations have the same length. *)
LEMMA ListsLength ==
  ASSUME NEW q, NEW r, NEW S, Lists(q, S), Lists(r, S)
  PROVE  Len(q) = Len(r)
<1>1. Len(q) \in Nat /\ Len(r) \in Nat
  BY LenProperties DEF Lists
<1>2. ASSUME NEW u, NEW v, Lists(u, S), Lists(v, S)
      PROVE  Cardinality(1..Len(u)) <= Cardinality(1..Len(v))
  <2> DEFINE f == [i \in 1..Len(u) |-> CHOOSE j \in 1..Len(v) : v[j] = u[i]]
  <2>1. Len(u) \in Nat /\ Len(v) \in Nat
    BY <1>2, LenProperties DEF Lists
  <2>2. \A i \in 1..Len(u) : f[i] \in 1..Len(v) /\ v[f[i]] = u[i]
    BY <1>2 DEF Lists
  <2>3. f \in Injection(1..Len(u), 1..Len(v))
    <3>1. f \in [1..Len(u) -> 1..Len(v)]
      BY <2>2
    <3> HIDE DEF f
    <3>2. \A i, j \in 1..Len(u) : f[i] = f[j] => i = j
      BY <1>2, <2>2 DEF Lists
    <3> QED BY <3>1, <3>2 DEF Injection, IsInjective
  <2>4. IsFiniteSet(1..Len(v))
    BY <2>1, FS_Interval
  <2> QED BY <2>3, <2>4, FS_Injection
<1>3. ASSUME NEW n \in Nat PROVE Cardinality(1..n) = n
  <2>1. Cardinality(1..n) = IF 1 > n THEN 0 ELSE n - 1 + 1
    BY FS_Interval
  <2> QED BY <2>1
<1>4. Cardinality(1..Len(q)) <= Cardinality(1..Len(r))
  BY <1>2
<1>5. Cardinality(1..Len(r)) <= Cardinality(1..Len(q))
  BY <1>2
<1> QED BY <1>1, <1>3, <1>4, <1>5

(* What a list has is what it lists. *)
LEMMA ListsRange ==
  ASSUME NEW q, NEW S, Lists(q, S)
  PROVE  {q[i] : i \in DOMAIN q} = S
<1>1. DOMAIN q = 1..Len(q)
  BY LenProperties DEF Lists
<1>2. /\ \A i \in DOMAIN q : q[i] \in S
      /\ \A e \in S : \E i \in DOMAIN q : q[i] = e
  BY <1>1 DEF Lists
<1> QED BY <1>2

(* reorder and prioritize rearrange the queue of a session. *)
LEMMA QueueRearranges ==
  ASSUME IInv, IInv', NEW s \in Sessions, UNCHANGED phase,
         \A t \in Sessions \ {s} : pending'[t] = pending[t]
  PROVE  Queues!Next
<1>1. Lists(pending[s], PendingOf(s, phase)) /\ Lists(pending'[s], PendingOf(s, phase))
  <2>1. Lists(pending'[s], PendingOf(s, phase'))
    BY DEF IInv, QueueInv, Shape
  <2> QED BY <2>1 DEF IInv, QueueInv, Shape
<1>2. Len(pending'[s]) = Len(pending[s])
  BY <1>1, ListsLength
<1>3. /\ {pending'[s][i] : i \in DOMAIN pending'[s]} = PendingOf(s, phase)
      /\ {pending[s][i] : i \in DOMAIN pending[s]} = PendingOf(s, phase)
  BY <1>1, ListsRange
<1>4. \A t \in Sessions : Doing(t, phase') = Doing(t, phase)
  OBVIOUS
<1>5. Queues!Rearrange(s)
  BY <1>2, <1>3, <1>4 DEF Queues!Rearrange, Queues!Listed
<1> QED BY <1>4, <1>5, OneSession DEF Kept

(* pause is not seen; resume and drain settle the sessions they unpause.   *)
LEMMA UnpauseSettles ==
  ASSUME IInv, IInv', NEW T, NEW pau, Pump(T, known, pending, running, pau, phase)
  PROVE  Queues!Next
<1>1. Shape(known, pending, running, phase)
  BY DEF IInv, QueueInv
<1> QED BY <1>1, PumpSettles, AllSettle

(* The finally of pump completes the operation of its session. *)
LEMMA FinishCompletes ==
  ASSUME IInv, IInv', NEW e \in Entries, Finish(e)
  PROVE  Queues!Next
<1> DEFINE s   == SessionOf[e]
           run == [running EXCEPT ![s] = FALSE]
           ph  == [phase EXCEPT ![e] = "done"]
<1>1. /\ phase[e] \in {"released", "gate"}
      /\ Pump({s}, known, pending, run, paused, ph)
  BY DEF Finish
<1>2. s \in Sessions /\ e \in EntriesOf(s) /\ phase[e] \in Executing
  BY <1>1, SessionOfType DEF EntriesOf, Executing
<1>3. Shape(known, pending, run, ph)
  BY <1>1, FinishShape
<1>4. Serial(phase)
  BY DEF IInv, QueueInv, Shape, Serial
<1>5. Doing(s, phase) = e
  BY <1>2, <1>4, DoingOf
<1>6. \A f \in Entries : ph[f] \in Executing <=> f # e /\ phase[f] \in Executing
  BY DEF IInv, QueueInv, Shape, Executing
<1> HIDE DEF ph, run
<1>7. Doing(s, ph) = none
  BY <1>2, <1>4, <1>6, DoingNone DEF Serial, EntriesOf
<1>8. \A t \in Sessions \ {s} : Doing(t, ph) = Doing(t, phase)
  BY <1>4, <1>6, DoingSame DEF EntriesOf
<1>9. Queues!Settle(s, pending[s], none)
  BY <1>1, <1>2, <1>3, <1>7, PumpSettles, SettleMeans
<1>10. Queues!Complete(s)
  BY <1>2, <1>5, <1>9, NoneAssumption DEF Queues!Complete
<1>11. \A t \in Sessions \ {s} : Kept(t, pending[t], Doing(t, phase))
  BY <1>1, <1>3, <1>8, PumpLeaves
<1> QED BY <1>2, <1>10, <1>11, OneSession

(* acquire and release move operations among the places of execution. *)
LEMMA SemaphoreUnseen ==
  ASSUME IInv, NEW e \in Entries,
         AcquireFree(e) \/ AcquireWait(e) \/ AcquireContinue(e) \/ Release(e)
  PROVE  UNCHANGED Queues!vars
<1>1. phase \in [Entries -> Phases] /\ UNCHANGED pending
  BY DEF IInv, QueueInv, Shape, AcquireFree, AcquireWait, AcquireContinue, Release, queueVars
<1>2. CASE AcquireFree(e) \/ AcquireWait(e) \/ AcquireContinue(e)
  <2>1. \A f \in Entries : phase'[f] \in Executing <=> phase[f] \in Executing
    BY <1>1, <1>2 DEF AcquireFree, AcquireWait, AcquireContinue, Executing
  <2> QED BY <1>1, <2>1, Unseen
<1>3. CASE Release(e)
  <2>1. waiting # <<>> => phase[Head(waiting)] = "waiting"
    <3>1. Lists(waiting, At("waiting"))
      BY DEF IInv, SemInv
    <3>2. waiting # <<>> => Head(waiting) \in At("waiting")
      BY <3>1, ListsTail
    <3> QED BY <3>2 DEF At
  <2>2. \A f \in Entries : phase'[f] \in Executing <=> phase[f] \in Executing
    BY <1>1, <1>3, <2>1 DEF Release, Executing
  <2> QED BY <1>1, <2>2, Unseen
<1> QED BY <1>2, <1>3
----------------------------------------------------------------------------
(* The theorem                                                             *)

LEMMA InitRefines == Init => Queues!Init
<1> SUFFICES ASSUME Init PROVE Queues!Init
  OBVIOUS
<1>1. \A s \in Sessions : Doing(s, phase) = none
  BY DoingNone DEF Init, EntriesOf, Executing
<1> QED BY <1>1 DEF Init, Queues!Init

LEMMA NextRefines == IInv /\ IInv' /\ [Next]_vars => [Queues!Next]_Queues!vars
<1> SUFFICES ASSUME IInv, IInv', [Next]_vars PROVE Queues!Next \/ UNCHANGED Queues!vars
  OBVIOUS
<1>1. CASE \E e \in Entries : Enqueue(e) \/ EnqueueFirst(e)
  BY <1>1, EnqueueSubmits
<1>2. CASE \E e \in Entries : Remove(e)
  BY <1>2, RemoveWithdraws
<1>3. CASE \E e \in Entries : Prioritize(e)
  <2>1. PICK e \in Entries : Prioritize(e)
    BY <1>3
  <2>2. /\ SessionOf[e] \in Sessions /\ UNCHANGED phase
        /\ \A t \in Sessions \ {SessionOf[e]} : pending'[t] = pending[t]
    BY <2>1, SessionOfType DEF Prioritize, IInv, QueueInv, Shape
  <2> QED BY <2>2, QueueRearranges
<1>4. CASE \E s \in Sessions : \E order \in [DOMAIN pending[s] -> Entries] : Reorder(s, order)
  <2>1. PICK s \in Sessions : \E order \in [DOMAIN pending[s] -> Entries] : Reorder(s, order)
    BY <1>4
  <2>2. UNCHANGED phase /\ \A t \in Sessions \ {s} : pending'[t] = pending[t]
    BY <2>1 DEF Reorder, IInv, QueueInv, Shape
  <2> QED BY <2>2, QueueRearranges
<1>5. CASE \E s \in Sessions : Pause(s)
  BY <1>5, Unseen DEF Pause
<1>6. CASE \E s \in Sessions : Resume(s)
  BY <1>6, UnpauseSettles DEF Resume
<1>7. CASE Drain
  BY <1>7, UnpauseSettles DEF Drain
<1>8. CASE \E e \in Entries : Finish(e)
  BY <1>8, FinishCompletes
<1>9. CASE \E e \in Entries : AcquireFree(e) \/ AcquireWait(e) \/ AcquireContinue(e) \/ Release(e)
  BY <1>9, SemaphoreUnseen
<1>10. CASE UNCHANGED vars
  BY <1>10, Unseen DEF vars, queueVars
<1> QED BY <1>1, <1>2, <1>3, <1>4, <1>5, <1>6, <1>7, <1>8, <1>9, <1>10
        DEF Next, Caller, Operation

(* Every session of RunOrchestrator is a queue with one server, whatever   *)
(* enqueue, remove, reorder, prioritize, pause, resume, drain and the      *)
(* operations do, and whoever holds the permits (run-orchestrator.ts).     *)
THEOREM OrchestratorImplementsQueues == Spec => ImplementsQueues
<1> QED BY IInvHolds, InitRefines, NextRefines, PTL DEF Spec, ImplementsQueues, Queues!Spec
=============================================================================
