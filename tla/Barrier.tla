------------------------------ MODULE Barrier ------------------------------
(***************************************************************************)
(* What System.Concurrency promises of a barrier: barrierWait "blocks the  *)
(* current thread until all threads have rendezvoused here".  A thread     *)
(* leaves its n-th wait only when Parties threads have come to their n-th. *)
(***************************************************************************)
EXTENDS Naturals, FiniteSets

CONSTANTS Thread, Parties
VARIABLES
  arrived, \* how often each thread has called barrierWait
  passed   \* how often it has returned

Reached(n) == {t \in Thread : arrived[t] >= n}

Init == arrived = [t \in Thread |-> 0] /\ passed = [t \in Thread |-> 0]

Arrive(t) ==
  /\ passed[t] = arrived[t]
  /\ arrived' = [arrived EXCEPT ![t] = @ + 1]
  /\ UNCHANGED passed

Pass(t) ==
  /\ passed[t] < arrived[t]
  /\ Cardinality(Reached(arrived[t])) >= Parties
  /\ passed' = [passed EXCEPT ![t] = @ + 1]
  /\ UNCHANGED arrived

Next == \E t \in Thread : Arrive(t) \/ Pass(t)
Spec == Init /\ [][Next]_<<arrived, passed>>
=============================================================================
