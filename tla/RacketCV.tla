----------------------------- MODULE RacketCV -----------------------------
(***************************************************************************)
(* The condition variables of the Racket backend (support/racket/          *)
(* support.rkt), made of three semaphores and a count of waiters, and the  *)
(* mutexes they are used with, which are semaphores too.                   *)
(*                                                                         *)
(* Statements between taking waitersLock and the next statement that may   *)
(* block are one step: they touch the count, which the lock protects, and  *)
(* post semaphores, which can be seen no earlier than the last of them.    *)
(***************************************************************************)
EXTENDS Naturals, FiniteSets

CONSTANTS
  Waiter,        \* the threads that call conditionWait
  Notifier,      \* the threads that call conditionSignal, conditionBroadcast
  MaxSignals,    \* bound: calls to conditionSignal
  MaxBroadcasts  \* bound: calls to conditionBroadcast

ASSUME CVAssumption ==
  /\ IsFiniteSet(Waiter) /\ IsFiniteSet(Notifier)
  /\ Waiter \cap Notifier = {}
  /\ MaxSignals \in Nat /\ MaxBroadcasts \in Nat

Thread == Waiter \cup Notifier

VARIABLES
  m,            \* the count of the program's mutex
  waitersLock,  \* cv-waitersLock
  waiters,      \* cv-waiters
  countingSem,  \* cv-countingSem
  handshakeSem, \* cv-handshakeSem
  pc,           \* where each thread stands
  left,         \* handshakes each notifier still waits for
  signals, broadcasts, \* history: calls
  summoned,            \* history: those a broadcast found and that still sleep
  era                  \* history: see Broadcast

vars == <<m, waitersLock, waiters, countingSem, handshakeSem, pc, left,
          signals, broadcasts, summoned, era>>

TypeOK ==
  /\ m \in {0, 1} /\ waitersLock \in {0, 1}
  /\ waiters \in Nat /\ countingSem \in Nat /\ handshakeSem \in Nat
  /\ pc \in [Thread -> {"idle", "holding", "registered", "blocked", "awake", "reacquire"}]
  /\ left \in [Notifier -> Nat]
  /\ signals \in 0..MaxSignals /\ broadcasts \in 0..MaxBroadcasts
  /\ summoned \subseteq Waiter /\ era \in {"none", "first", "past"}

In(s) == {t \in Thread : pc[t] \in s}
Asleep == {w \in Waiter : pc[w] \in {"registered", "blocked"}}

Init ==
  /\ m = 1 /\ waitersLock = 1
  /\ waiters = 0 /\ countingSem = 0 /\ handshakeSem = 0
  /\ pc = [t \in Thread |-> "idle"]
  /\ left = [n \in Notifier |-> 0]
  /\ signals = 0 /\ broadcasts = 0 /\ summoned = {} /\ era = "none"

Calls == <<signals, broadcasts, summoned, era>>
Sems  == <<waitersLock, waiters, countingSem, handshakeSem>>

(***************************************************************************)
(* The mutex                                                               *)
(***************************************************************************)
Acquire(t) ==
  /\ pc[t] = "idle" /\ (t \in Notifier => left[t] = 0)
  /\ m = 1 /\ m' = m - 1
  /\ pc' = [pc EXCEPT ![t] = "holding"]
  /\ UNCHANGED <<Sems, left, Calls>>

Release(t) ==
  /\ pc[t] = "holding" /\ (t \in Notifier => left[t] = 0)
  /\ m' = m + 1
  /\ pc' = [pc EXCEPT ![t] = "idle"]
  /\ UNCHANGED <<Sems, left, Calls>>

(***************************************************************************)
(* blodwen-cv-wait                                                         *)
(***************************************************************************)
Register(w) ==
  /\ pc[w] = "holding" /\ waitersLock = 1
  /\ waiters' = waiters + 1
  /\ pc' = [pc EXCEPT ![w] = "registered"]
  /\ UNCHANGED <<m, waitersLock, countingSem, handshakeSem, left, Calls>>

ReleaseToWait(w) ==
  /\ pc[w] = "registered"
  /\ m' = m + 1
  /\ pc' = [pc EXCEPT ![w] = "blocked"]
  /\ UNCHANGED <<Sems, left, Calls>>

Wake(w) ==
  /\ pc[w] = "blocked" /\ countingSem > 0
  /\ countingSem' = countingSem - 1
  /\ pc' = [pc EXCEPT ![w] = "awake"]
  /\ summoned' = summoned \ {w}
  /\ UNCHANGED <<m, waitersLock, waiters, handshakeSem, left, signals, broadcasts, era>>

\* Slip: the waiter takes the mutex back before it answers, and it answers
\* only if it gets the mutex at once.
AnswerHolding(w) ==
  /\ pc[w] = "awake" /\ m = 1
  /\ handshakeSem' = handshakeSem + 1
  /\ pc' = [pc EXCEPT ![w] = "reacquire"]
  /\ UNCHANGED <<m, waitersLock, waiters, countingSem, left, Calls>>

Answer(w) ==
  /\ pc[w] = "awake"
  /\ handshakeSem' = handshakeSem + 1
  /\ pc' = [pc EXCEPT ![w] = "reacquire"]
  /\ UNCHANGED <<m, waitersLock, waiters, countingSem, left, Calls>>

Reacquire(w) ==
  /\ pc[w] = "reacquire" /\ m = 1 /\ m' = m - 1
  /\ pc' = [pc EXCEPT ![w] = "holding"]
  /\ UNCHANGED <<Sems, left, Calls>>

(***************************************************************************)
(* blodwen-cv-signal and blodwen-cv-broadcast                              *)
(***************************************************************************)
Free(n) == pc[n] \in {"idle", "holding"} /\ left[n] = 0
Later == IF era = "first" THEN "past" ELSE era

\* The call itself, in the histories.  The first broadcast that finds threads
\* asleep begins an era of its own, and the next call ends it.
CallSignal(n) ==
  /\ Free(n) /\ waitersLock = 1 /\ signals < MaxSignals
  /\ signals' = signals + 1 /\ era' = Later
  /\ UNCHANGED <<broadcasts, summoned>>

CallBroadcast(n) ==
  /\ Free(n) /\ waitersLock = 1 /\ broadcasts < MaxBroadcasts
  /\ broadcasts' = broadcasts + 1
  /\ era' = IF era = "none" /\ Asleep # {} THEN "first" ELSE Later
  /\ summoned' = summoned \cup Asleep
  /\ UNCHANGED signals

\* Slip: the waiter that is let through is not taken off the count.
SignalKeepsCount(n) ==
  /\ CallSignal(n)
  /\ IF waiters = 0
       THEN UNCHANGED <<waitersLock, countingSem, left>>
       ELSE /\ waitersLock' = 0
            /\ countingSem' = countingSem + 1
            /\ left' = [left EXCEPT ![n] = 1]
  /\ UNCHANGED <<m, waiters, handshakeSem, pc>>

\* With waiters, one is let through, and waitersLock is kept.
Signal(n) ==
  /\ CallSignal(n)
  /\ IF waiters = 0
       THEN UNCHANGED <<waitersLock, waiters, countingSem, left>>
       ELSE /\ waitersLock' = 0
            /\ waiters' = waiters - 1
            /\ countingSem' = countingSem + 1
            /\ left' = [left EXCEPT ![n] = 1]
  /\ UNCHANGED <<m, handshakeSem, pc>>

\* Slip: the loop ends one short ("waiters - 1").
BroadcastOneShort(n) ==
  /\ CallBroadcast(n)
  /\ IF waiters <= 1
       THEN UNCHANGED <<waitersLock, countingSem, left>>
       ELSE /\ waitersLock' = 0
            /\ countingSem' = countingSem + waiters - 1
            /\ left' = [left EXCEPT ![n] = waiters - 1]
  /\ UNCHANGED <<m, waiters, handshakeSem, pc>>

\* All are let through; the helpers count a local copy down, so the count of
\* waiters keeps its value.
Broadcast(n) ==
  /\ CallBroadcast(n)
  /\ IF waiters = 0
       THEN UNCHANGED <<waitersLock, countingSem, left>>
       ELSE /\ waitersLock' = 0
            /\ countingSem' = countingSem + waiters
            /\ left' = [left EXCEPT ![n] = waiters]
  /\ UNCHANGED <<m, waiters, handshakeSem, pc>>

\* One handshake has come; after the last one waitersLock is given back.
Handshake(n) ==
  /\ left[n] > 0 /\ handshakeSem > 0
  /\ handshakeSem' = handshakeSem - 1
  /\ left' = [left EXCEPT ![n] = @ - 1]
  /\ waitersLock' = IF left[n] = 1 THEN 1 ELSE waitersLock
  /\ UNCHANGED <<m, waiters, countingSem, pc, Calls>>

Next ==
  \/ \E t \in Thread : Acquire(t) \/ Release(t)
  \/ \E w \in Waiter :
       Register(w) \/ ReleaseToWait(w) \/ Wake(w) \/ Answer(w) \/ Reacquire(w)
  \/ \E n \in Notifier : Signal(n) \/ Broadcast(n) \/ Handshake(n)

Spec == Init /\ [][Next]_vars

\* Threads inside the procedures are scheduled; nothing is assumed of the
\* program's own steps (Acquire, Release, and the calls).
FairSpec ==
  /\ Spec
  /\ \A w \in Waiter :
       WF_vars(ReleaseToWait(w)) /\ WF_vars(Wake(w)) /\ WF_vars(Answer(w))
  /\ \A n \in Notifier : WF_vars(Handshake(n))

(***************************************************************************)
(* Properties                                                              *)
(***************************************************************************)
(* Whenever a thread may start to wait, no token of an earlier notification
   is left for it: nobody is woken by a signal sent before it waited.       *)
NoStaleWakeup ==
  waitersLock = 1 => countingSem = 0 /\ handshakeSem = 0 /\ In({"awake"}) = {}

(* With the lock free, the count is the number of threads that wait and were
   not let through.  It holds until somebody broadcasts.                    *)
WaitersAccounted ==
  waitersLock = 1 /\ broadcasts = 0 =>
    waiters = Cardinality(In({"registered", "blocked"}))

\* What holds of the three semaphores and of the threads at every moment: no
\* notification leaves anything behind for those who wait later.
Inv == TypeOK /\ NoStaleWakeup /\ WaitersAccounted

(* Concurrency.idr:120 "Releases one of the threads waiting for the
   condition", and no more: a call to conditionSignal or conditionBroadcast
   comes back, even when the caller holds the program's mutex all along.
   That is all calls up to the end of the first broadcast that finds threads
   asleep.  It leaves its threads in the count (see Broadcast), so a later
   call lets through more threads than there are and blocks for ever; those
   later calls return that find as many threads asleep as they let through. *)
NotifierReturns ==
  \A n \in Notifier :
    left[n] > 0 /\ (era # "past" \/ countingSem <= Cardinality(Asleep)) ~> left[n] = 0

(* Concurrency.idr:125 "Releases all of the threads waiting for the
   condition": whoever waits when a broadcast begins is released by it,
   whatever calls were made before.                                         *)
BroadcastWakesAll == \A w \in Waiter : w \in summoned ~> w \notin summoned

=============================================================================
