---------------------------- MODULE ChezBarrier ----------------------------
(***************************************************************************)
(* The barriers of the Chez backend (support/chez/support.ss): a count, a  *)
(* mutex and a condition variable.  A critical section is one step, as in  *)
(* ChezSemaphore: a thread is outside, waiting in condition-wait, or       *)
(* released (about to leave the mutex and return).                         *)
(***************************************************************************)
EXTENDS Naturals, FiniteSets

CONSTANTS
  Thread,   \* the threads that call barrierWait
  Parties,  \* num-threads
  Rounds    \* bound: calls of each thread

ASSUME BarrierAssumption ==
  IsFiniteSet(Thread) /\ Parties \in Nat \ {0} /\ Rounds \in Nat

VARIABLES
  count,            \* count-box
  barrierPc,
  arrived, passed   \* history: calls and returns of each thread

barrierVars == <<count, barrierPc, arrived, passed>>

BarrierTypeOK ==
  /\ count \in Nat
  /\ barrierPc \in [Thread -> {"outside", "waiting", "released"}]
  /\ arrived \in [Thread -> 0..Rounds]
  /\ passed \in [Thread -> 0..Rounds]
  /\ \A t \in Thread : arrived[t] = passed[t] + IF barrierPc[t] = "outside" THEN 0 ELSE 1

BarrierInit ==
  /\ count = 0
  /\ barrierPc = [t \in Thread |-> "outside"]
  /\ arrived = [t \in Thread |-> 0] /\ passed = [t \in Thread |-> 0]

\* Slip: the thread that completes the party signals instead of broadcasting.
EnterSignalling(t) ==
  /\ barrierPc[t] = "outside" /\ arrived[t] < Rounds
  /\ arrived' = [arrived EXCEPT ![t] = @ + 1]
  /\ count' = count + 1
  /\ IF count' = Parties
       THEN \E w \in {u \in Thread : barrierPc[u] = "waiting"} :
              barrierPc' = [barrierPc EXCEPT ![w] = "released", ![t] = "released"]
       ELSE barrierPc' = [barrierPc EXCEPT ![t] = "waiting"]
  /\ UNCHANGED passed

\* Slip: a thread that finds the party complete does not block.
EnterAtLeast(t) ==
  /\ barrierPc[t] = "outside" /\ arrived[t] < Rounds
  /\ arrived' = [arrived EXCEPT ![t] = @ + 1]
  /\ count' = count + 1
  /\ IF count' >= Parties
       THEN barrierPc' = [u \in Thread |->
                     IF u = t \/ barrierPc[u] = "waiting" THEN "released" ELSE barrierPc[u]]
       ELSE barrierPc' = [barrierPc EXCEPT ![t] = "waiting"]
  /\ UNCHANGED passed

\* One more has come: the one that completes the party broadcasts, and every
\* other one waits.  The count is never reset.
Enter(t) ==
  /\ barrierPc[t] = "outside" /\ arrived[t] < Rounds
  /\ arrived' = [arrived EXCEPT ![t] = @ + 1]
  /\ count' = count + 1
  /\ IF count' = Parties
       THEN barrierPc' = [u \in Thread |->
                     IF u = t \/ barrierPc[u] = "waiting" THEN "released" ELSE barrierPc[u]]
       ELSE barrierPc' = [barrierPc EXCEPT ![t] = "waiting"]
  /\ UNCHANGED passed

\* condition-wait has reacquired the mutex, and barrier-wait returns.
Leave(t) ==
  /\ barrierPc[t] = "released"
  /\ barrierPc' = [barrierPc EXCEPT ![t] = "outside"]
  /\ passed' = [passed EXCEPT ![t] = @ + 1]
  /\ UNCHANGED <<count, arrived>>

BarrierNext == \E t \in Thread : Enter(t) \/ Leave(t)

BarrierSpec == BarrierInit /\ [][BarrierNext]_barrierVars
BarrierFairSpec == BarrierSpec /\ \A t \in Thread : WF_barrierVars(Leave(t))

(***************************************************************************)
(* Properties                                                              *)
(***************************************************************************)
(* Concurrency.idr:180 "Blocks the current thread until all threads have
   rendezvoused here": nobody leaves before the whole party has come.       *)
PromisedBarrier == INSTANCE Barrier
ImplementsBarrier == PromisedBarrier!Spec

(* A barrier serves one party, and serves it whole.  The one broadcast lets
   through exactly the first Parties threads, none of them left behind for a
   signal nobody will send and no late one slipping out with them; a thread
   that uses the barrier again never leaves a second time.                  *)
Through == {t \in Thread : barrierPc[t] = "released" \/ passed[t] >= 1}
AllOrNobody == Cardinality(Through) \in {0, Parties}
OneParty == \A t \in Thread : passed[t] <= 1

\* All of it, checked together.
BarrierInv == BarrierTypeOK /\ AllOrNobody /\ OneParty

(* ... and no longer: once Parties threads have come for the first time, as
   many leave.                                                              *)
PartyLeaves ==
  Cardinality({t \in Thread : arrived[t] >= 1}) >= Parties
    ~> Cardinality({t \in Thread : passed[t] >= 1}) >= Parties

=============================================================================
