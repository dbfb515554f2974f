--------------------------- MODULE ChezSemaphore ---------------------------
(***************************************************************************)
(* The semaphores of the Chez backend (support/chez/support.ss): a box, a  *)
(* mutex and a condition variable.                                         *)
(*                                                                         *)
(* Every access to the box is made under the mutex and nothing inside a    *)
(* critical section blocks but condition-wait, so a critical section is    *)
(* one step and the mutex itself needs no variable: a thread that waits    *)
(* for it is a thread whose next step has not been taken.  A thread that   *)
(* condition-signal has released must still reacquire the mutex ("woken"): *)
(* until it does, other threads may enter.                                 *)
(*                                                                         *)
(* The pool of waiting threads is the condition's; the thread released by  *)
(* condition-signal is any of them.                                        *)
(***************************************************************************)
EXTENDS Integers, FiniteSets

CONSTANTS
  Waiter,   \* the threads that call semaphoreWait
  Initial,  \* the initial counter
  MaxPosts, \* bound: calls to semaphorePost
  MaxWaits  \* bound: calls to semaphoreWait

ASSUME SemaphoreAssumption ==
  /\ IsFiniteSet(Waiter)
  /\ Initial \in Nat /\ MaxPosts \in Nat /\ MaxWaits \in Nat

VARIABLES
  box,   \* the counter
  semaphorePc,    \* where each waiter stands: outside, waiting or woken
  posts, \* history: calls to semaphorePost
  calls, \* history: calls to semaphoreWait
  waits, \* history: returns from semaphoreWait
  barged \* history: the threads that took a permit another one had been
         \* released for and had not fetched yet

semaphoreVars == <<box, semaphorePc, posts, calls, waits, barged>>

SemaphoreTypeOK ==
  /\ box \in Int
  /\ semaphorePc \in [Waiter -> {"outside", "waiting", "woken"}]
  /\ posts \in 0..MaxPosts /\ calls \in 0..MaxWaits
  /\ waits \in 0..MaxWaits /\ barged \subseteq Waiter

At(s) == {w \in Waiter : semaphorePc[w] = s}

SemaphoreInit ==
  /\ box = Initial
  /\ semaphorePc = [w \in Waiter |-> "outside"]
  /\ posts = 0 /\ calls = 0 /\ waits = 0 /\ barged = {}

\* Slip: only the post that takes the counter away from zero signals.
SignalOnlyFromZero ==
  IF At("waiting") = {} \/ box # 0
    THEN UNCHANGED semaphorePc
    ELSE \E w \in At("waiting") : semaphorePc' = [semaphorePc EXCEPT ![w] = "woken"]

\* condition-signal releases one of the waiting threads, if there is any.
ConditionSignal ==
  IF At("waiting") = {} THEN UNCHANGED semaphorePc
                        ELSE \E w \in At("waiting") : semaphorePc' = [semaphorePc EXCEPT ![w] = "woken"]

Post ==
  /\ posts < MaxPosts
  /\ posts' = posts + 1
  /\ box' = box + 1
  /\ ConditionSignal
  /\ UNCHANGED <<calls, waits, barged>>

\* Slip: the test of the counter is dropped.
WaitUntested(w) ==
  /\ semaphorePc[w] = "outside" /\ calls < MaxWaits
  /\ calls' = calls + 1
  /\ box' = box - 1 /\ waits' = waits + 1
  /\ UNCHANGED <<semaphorePc, posts, barged>>

\* Slip: the test is made before the mutex is taken, so a thread that found
\* the counter at zero may come to wait after the post.
WaitTestedEarly(w) ==
  /\ semaphorePc[w] = "outside" /\ calls < MaxWaits
  /\ calls' = calls + 1
  /\ \/ /\ box \in {0, 1}
        /\ semaphorePc' = [semaphorePc EXCEPT ![w] = "waiting"]
        /\ UNCHANGED <<box, waits, barged>>
     \/ /\ box # 0
        /\ box' = box - 1 /\ waits' = waits + 1
        /\ barged' = IF box <= Cardinality(At("woken")) THEN barged \cup {w}
                                                       ELSE barged
        /\ UNCHANGED semaphorePc
  /\ UNCHANGED posts

\* (when (= count 0) condition-wait), and else straight to the decrement.
Wait(w) ==
  /\ semaphorePc[w] = "outside" /\ calls < MaxWaits
  /\ calls' = calls + 1
  /\ \/ /\ box = 0
        /\ semaphorePc' = [semaphorePc EXCEPT ![w] = "waiting"]
        /\ UNCHANGED <<box, waits, barged>>
     \/ /\ box # 0
        /\ box' = box - 1 /\ waits' = waits + 1
        /\ barged' = IF box <= Cardinality(At("woken")) THEN barged \cup {w}
                                                       ELSE barged
        /\ UNCHANGED semaphorePc
  /\ UNCHANGED posts

\* condition-wait returns: the counter is decremented, whatever it is now.
Resume(w) ==
  /\ semaphorePc[w] = "woken"
  /\ semaphorePc' = [semaphorePc EXCEPT ![w] = "outside"]
  /\ box' = box - 1 /\ waits' = waits + 1
  /\ UNCHANGED <<posts, calls, barged>>

SemaphoreNext == Post \/ \E w \in Waiter : Wait(w) \/ Resume(w)

SemaphoreSpec == SemaphoreInit /\ [][SemaphoreNext]_semaphoreVars
SemaphoreFairSpec == SemaphoreSpec /\ \A w \in Waiter : WF_semaphoreVars(Resume(w))

(***************************************************************************)
(* Properties                                                              *)
(***************************************************************************)
(* Concurrency.idr:154 "Blocks until the internal counter for semaphore sema
   is non-zero": no more waits return than there were permits.              *)
PermitsRespected == waits <= Initial + posts

(* What is left of it when the counter is not tested again after the wait:
   it takes a thread that barges in before a released one has fetched its
   permit to let too many through.                                          *)
NobodyBarged == barged = {}
RespectedUnlessBarged == NobodyBarged => PermitsRespected

(* No thread sleeps while there are permits that no woken thread is on its
   way to fetch, however many threads wait and post.                        *)
NobodySleepsOnPermits ==
  At("waiting") # {} => box <= Cardinality(At("woken"))

(* With the types of the variables, no call returning twice.               *)
SemaphoreInv == SemaphoreTypeOK /\ NobodySleepsOnPermits

(* Until a thread barges in, the box is the semaphore that System.Concurrency
   promises, however many threads wait.                                     *)
PromisedSemaphore == INSTANCE Semaphore WITH permits <- box
ImplementsSemaphore ==
  PromisedSemaphore!Init /\ [][NobodyBarged' => [PromisedSemaphore!Next]_box]_semaphoreVars

(* Permits are not lost on the way to the threads that need them: while there
   were permits for every call made so far, every thread gets out.          *)
EnoughPermits == calls <= Initial + posts
PermitsAreUsed == EnoughPermits ~> (At("outside") = Waiter \/ ~EnoughPermits)

=============================================================================
