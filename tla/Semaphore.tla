----------------------------- MODULE Semaphore -----------------------------
(***************************************************************************)
(* What System.Concurrency promises of a semaphore: a counter that starts  *)
(* at Initial, that semaphorePost increments, and that semaphoreWait       *)
(* decrements when it is not zero.                                         *)
(***************************************************************************)
EXTENDS Naturals

CONSTANT Initial
VARIABLE permits

Init == permits = Initial
Post == permits' = permits + 1
Wait == permits > 0 /\ permits' = permits - 1
Next == Post \/ Wait
Spec == Init /\ [][Next]_permits
=============================================================================
