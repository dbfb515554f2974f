------------------------------ MODULE ChezProofs ------------------------------
(***************************************************************************)
(* Proofs about the synchronisation primitives of the Chez backend, each on *)
(* its own: semaphores, barriers and channels.                             *)
(***************************************************************************)
EXTENDS ChezSemaphore, ChezBarrier, ChezChannel, FiniteSetTheorems, TLAPS

(***************************************************************************)
(* Proofs about the semaphores of the Chez backend, for any number of      *)
(* threads: no permit is lost, and until a thread barges in the box is a   *)
(* counting semaphore; a single waiting thread never barges in.            *)
(***************************************************************************)

(***************************************************************************)
(* Any number of waiting threads                                           *)
(***************************************************************************)
Blocked == {w \in Waiter : semaphorePc[w] # "outside"}

Inductive ==
  /\ SemaphoreTypeOK
  /\ calls = waits + Cardinality(Blocked)
  /\ NobodySleepsOnPermits

LEMMA PoolsFinite ==
  /\ IsFiniteSet(Blocked) /\ Cardinality(Blocked) \in Nat
  /\ IsFiniteSet(At("woken")) /\ Cardinality(At("woken")) \in Nat
<1>1. Blocked \subseteq Waiter /\ At("woken") \subseteq Waiter
  BY DEF Blocked, At
<1>2. QED
  BY <1>1, FS_Subset, FS_CardinalityType, SemaphoreAssumption

\* A thread that begins to wait, one that is woken, and one that returns.
LEMMA Moves ==
  ASSUME SemaphoreTypeOK, NEW w \in Waiter, NEW s, semaphorePc' = [semaphorePc EXCEPT ![w] = s]
  PROVE  /\ semaphorePc[w] = "outside" /\ s = "waiting" =>
              /\ Cardinality(Blocked') = Cardinality(Blocked) + 1
              /\ At("woken")' = At("woken")
         /\ semaphorePc[w] = "waiting" /\ s = "woken" =>
              /\ Blocked' = Blocked
              /\ Cardinality(At("woken")') = Cardinality(At("woken")) + 1
         /\ semaphorePc[w] = "woken" /\ s = "outside" =>
              /\ Cardinality(Blocked') = Cardinality(Blocked) - 1
              /\ Cardinality(At("woken")') = Cardinality(At("woken")) - 1
              /\ At("waiting")' = At("waiting")
<1>1. semaphorePc \in [Waiter -> {"outside", "waiting", "woken"}]
  BY DEF SemaphoreTypeOK
<1>2. CASE semaphorePc[w] = "outside" /\ s = "waiting"
  <2>1. Blocked' = Blocked \cup {w} /\ w \notin Blocked /\ At("woken")' = At("woken")
    BY <1>1, <1>2 DEF Blocked, At
  <2>2. QED
    BY <1>2, <2>1, PoolsFinite, FS_AddElement
<1>3. CASE semaphorePc[w] = "waiting" /\ s = "woken"
  <2>1. At("woken")' = At("woken") \cup {w} /\ w \notin At("woken") /\ Blocked' = Blocked
    BY <1>1, <1>3 DEF Blocked, At
  <2>2. QED
    BY <1>3, <2>1, PoolsFinite, FS_AddElement
<1>4. CASE semaphorePc[w] = "woken" /\ s = "outside"
  <2>1. /\ Blocked' = Blocked \ {w} /\ w \in Blocked
        /\ At("woken")' = At("woken") \ {w} /\ w \in At("woken")
        /\ At("waiting")' = At("waiting")
    BY <1>1, <1>4 DEF Blocked, At
  <2>2. QED
    BY <1>4, <2>1, PoolsFinite, FS_RemoveElement
<1>5. QED
  BY <1>2, <1>3, <1>4

LEMMA SemaphoreStart == SemaphoreInit => Inductive
<1> SUFFICES ASSUME SemaphoreInit PROVE Inductive
  OBVIOUS
<1>1. Blocked = {} /\ At("waiting") = {}
  BY DEF SemaphoreInit, Blocked, At
<1>2. QED
  BY <1>1, FS_EmptySet, SemaphoreAssumption
     DEF Inductive, SemaphoreTypeOK, NobodySleepsOnPermits, SemaphoreInit

LEMMA SemaphoreStep == Inductive /\ [SemaphoreNext]_semaphoreVars => Inductive'
<1> SUFFICES ASSUME Inductive, [SemaphoreNext]_semaphoreVars PROVE Inductive'
  OBVIOUS
<1>1. /\ SemaphoreTypeOK
      /\ calls = waits + Cardinality(Blocked)
      /\ At("waiting") # {} => box <= Cardinality(At("woken"))
      /\ box \in Int /\ calls \in 0..MaxWaits /\ waits \in 0..MaxWaits
      /\ posts \in 0..MaxPosts /\ barged \subseteq Waiter
      /\ MaxWaits \in Nat /\ MaxPosts \in Nat
      /\ Cardinality(Blocked) \in Nat /\ Cardinality(At("woken")) \in Nat
      /\ Cardinality(Blocked') \in Nat /\ Cardinality(At("woken")') \in Nat
  <2>1. ASSUME NEW f PROVE IsFiniteSet({w \in Waiter : f[w] # "outside"})
                           /\ IsFiniteSet({w \in Waiter : f[w] = "woken"})
    BY FS_Subset, SemaphoreAssumption
  <2>2. Cardinality(Blocked') \in Nat /\ Cardinality(At("woken")') \in Nat
    BY <2>1, FS_CardinalityType DEF Blocked, At
  <2>3. QED
    BY <2>2, PoolsFinite, SemaphoreAssumption DEF Inductive, SemaphoreTypeOK, NobodySleepsOnPermits
<1> USE DEF Inductive, NobodySleepsOnPermits
<1>2. CASE Post
  <2>1. CASE At("waiting") = {}
    <3>1. UNCHANGED semaphorePc
      BY <1>2, <2>1 DEF Post, ConditionSignal
    <3>2. At("waiting")' = {} /\ Blocked' = Blocked
      BY <2>1, <3>1 DEF At, Blocked
    <3>3. QED
      BY <1>1, <1>2, <3>1, <3>2 DEF Post, SemaphoreTypeOK
  <2>2. CASE At("waiting") # {}
    <3>1. PICK w \in At("waiting") : semaphorePc' = [semaphorePc EXCEPT ![w] = "woken"]
      BY <1>2, <2>2 DEF Post, ConditionSignal
    <3>2. w \in Waiter /\ semaphorePc[w] = "waiting"
      BY <3>1 DEF At
    <3>3. Blocked' = Blocked /\ Cardinality(At("woken")') = Cardinality(At("woken")) + 1
      BY <1>1, <3>1, <3>2, Moves
    <3>4. SemaphoreTypeOK'
      BY <1>1, <1>2, <3>1, <3>2 DEF Post, SemaphoreTypeOK
    <3>5. QED
      BY <1>1, <1>2, <2>2, <3>3, <3>4 DEF Post
  <2>3. QED
    BY <2>1, <2>2
<1>3. ASSUME NEW w \in Waiter, Wait(w) PROVE Inductive'
  <2>1. CASE box = 0
    <3>1. semaphorePc[w] = "outside" /\ semaphorePc' = [semaphorePc EXCEPT ![w] = "waiting"]
      BY <1>3, <2>1 DEF Wait
    <3>2. /\ Cardinality(Blocked') = Cardinality(Blocked) + 1
          /\ At("woken")' = At("woken")
      BY <1>1, <3>1, Moves
    <3>3. SemaphoreTypeOK'
      BY <1>1, <1>3, <2>1, <3>1 DEF Wait, SemaphoreTypeOK
    <3>4. QED
      BY <1>1, <1>3, <2>1, <3>2, <3>3 DEF Wait
  <2>2. CASE box # 0
    <3>1. UNCHANGED semaphorePc
      BY <1>3, <2>2 DEF Wait
    <3>2. Blocked' = Blocked /\ At("woken")' = At("woken") /\ At("waiting")' = At("waiting")
      BY <3>1 DEF At, Blocked
    <3>3. waits' = waits + 1 /\ calls' = calls + 1 /\ box' = box - 1 /\ posts' = posts
          /\ calls < MaxWaits /\ barged' \subseteq Waiter
      BY <1>1, <1>3, <2>2 DEF Wait
    <3>4. SemaphoreTypeOK'
      BY <1>1, <3>1, <3>3 DEF SemaphoreTypeOK
    <3>5. QED
      BY <1>1, <3>2, <3>3, <3>4
  <2>3. QED
    BY <2>1, <2>2
<1>4. ASSUME NEW w \in Waiter, Resume(w) PROVE Inductive'
  <2>1. /\ semaphorePc[w] = "woken" /\ semaphorePc' = [semaphorePc EXCEPT ![w] = "outside"]
        /\ waits' = waits + 1 /\ box' = box - 1 /\ calls' = calls /\ posts' = posts
        /\ barged' = barged
    BY <1>4 DEF Resume
  <2>2. /\ Cardinality(Blocked') = Cardinality(Blocked) - 1
        /\ Cardinality(At("woken")') = Cardinality(At("woken")) - 1
        /\ At("waiting")' = At("waiting")
    BY <1>1, <2>1, Moves
  <2>3. SemaphoreTypeOK'
    BY <1>1, <2>1, <2>2 DEF SemaphoreTypeOK
  <2>4. QED
    BY <1>1, <2>1, <2>2, <2>3
<1>5. CASE UNCHANGED semaphoreVars
  BY <1>1, <1>5 DEF semaphoreVars, SemaphoreTypeOK, At, Blocked
<1>6. QED
  BY <1>2, <1>3, <1>4, <1>5 DEF SemaphoreNext

(* Types are kept; in particular no call returns twice. *)
THEOREM SemaphoreTypes == SemaphoreSpec => []SemaphoreTypeOK
<1>1. Inductive => SemaphoreTypeOK
  BY DEF Inductive
<1>2. QED
  BY <1>1, SemaphoreStart, SemaphoreStep, PTL DEF SemaphoreSpec

(* However many threads wait, barge in and post, nobody sleeps while there is
   a permit that no woken thread is on its way to fetch.                    *)
THEOREM NoPermitIsLost == SemaphoreSpec => []SemaphoreInv
<1>1. Inductive => SemaphoreInv
  BY DEF Inductive, SemaphoreInv
<1>2. QED
  BY <1>1, SemaphoreStart, SemaphoreStep, PTL DEF SemaphoreSpec

(***************************************************************************)
(* Semaphores nobody barges into                                           *)
(***************************************************************************)
\* The permit each woken thread was signalled for is still there.
Reserved ==
  /\ box = Initial + posts - waits
  /\ barged = {} => box >= Cardinality(At("woken"))

LEMMA InitReserved == SemaphoreInit => Reserved
<1> SUFFICES ASSUME SemaphoreInit PROVE Reserved
  OBVIOUS
<1>1. At("woken") = {}
  BY DEF SemaphoreInit, At
<1>2. QED
  BY <1>1, FS_EmptySet, SemaphoreAssumption DEF Reserved, SemaphoreInit

LEMMA NextReserved == Inductive /\ Reserved /\ [SemaphoreNext]_semaphoreVars => Reserved'
<1> SUFFICES ASSUME Inductive, Reserved, [SemaphoreNext]_semaphoreVars PROVE Reserved'
  OBVIOUS
<1>1. /\ SemaphoreTypeOK
      /\ box \in Int /\ posts \in Nat /\ waits \in Nat /\ Initial \in Nat
      /\ Cardinality(At("woken")) \in Nat
  BY PoolsFinite, SemaphoreAssumption DEF Inductive, SemaphoreTypeOK
<1>2. CASE Post
  <2>1. Cardinality(At("woken")') <= Cardinality(At("woken")) + 1
    <3>1. CASE UNCHANGED semaphorePc
      BY <1>1, <3>1 DEF At
    <3>2. CASE ~UNCHANGED semaphorePc
      <4>1. PICK w \in At("waiting") : semaphorePc' = [semaphorePc EXCEPT ![w] = "woken"]
        BY <1>2, <3>2 DEF Post, ConditionSignal
      <4>2. w \in Waiter /\ semaphorePc[w] = "waiting"
        BY <4>1 DEF At
      <4>3. Cardinality(At("woken")') = Cardinality(At("woken")) + 1
        BY <1>1, <4>1, <4>2, Moves
      <4>4. QED
        BY <1>1, <4>3
    <3>3. QED
      BY <3>1, <3>2
  <2>2. Cardinality(At("woken")') \in Nat
    BY <1>1, FS_Subset, FS_CardinalityType, SemaphoreAssumption DEF At
  <2>3. QED
    BY <1>1, <1>2, <2>1, <2>2 DEF Post, Reserved
<1>3. ASSUME NEW w \in Waiter, Wait(w) PROVE Reserved'
  <2>1. CASE box = 0
    <3>1. semaphorePc[w] = "outside" /\ semaphorePc' = [semaphorePc EXCEPT ![w] = "waiting"]
      BY <1>3, <2>1 DEF Wait
    <3>2. At("woken")' = At("woken")
      BY <1>1, <3>1, Moves
    <3>3. QED
      BY <1>1, <1>3, <2>1, <3>2 DEF Wait, Reserved
  <2>2. CASE box # 0
    <3>1. /\ UNCHANGED semaphorePc /\ waits' = waits + 1 /\ box' = box - 1 /\ posts' = posts
          /\ barged' = {} => barged = {} /\ ~(box <= Cardinality(At("woken")))
      BY <1>3, <2>2 DEF Wait
    <3>2. At("woken")' = At("woken")
      BY <3>1 DEF At
    <3>3. QED
      BY <1>1, <3>1, <3>2 DEF Reserved
  <2>3. QED
    BY <2>1, <2>2
<1>4. ASSUME NEW w \in Waiter, Resume(w) PROVE Reserved'
  <2>1. /\ semaphorePc[w] = "woken" /\ semaphorePc' = [semaphorePc EXCEPT ![w] = "outside"]
        /\ waits' = waits + 1 /\ box' = box - 1 /\ posts' = posts /\ barged' = barged
    BY <1>4 DEF Resume
  <2>2. Cardinality(At("woken")') = Cardinality(At("woken")) - 1
    BY <1>1, <2>1, Moves
  <2>3. QED
    BY <1>1, <2>1, <2>2 DEF Reserved
<1>5. CASE UNCHANGED semaphoreVars
  BY <1>1, <1>5 DEF Reserved, semaphoreVars, At
<1>6. QED
  BY <1>2, <1>3, <1>4, <1>5 DEF SemaphoreNext

(* No more waits return than there were permits, unless a thread took a
   permit that another one had been released for.                           *)
THEOREM PermitsAreReserved == SemaphoreSpec => []RespectedUnlessBarged
<1>1. Inductive /\ Reserved => RespectedUnlessBarged
  BY PoolsFinite, SemaphoreAssumption
     DEF Inductive, Reserved, RespectedUnlessBarged, NobodyBarged, PermitsRespected, SemaphoreTypeOK
<1>2. QED
  BY <1>1, SemaphoreStart, SemaphoreStep, InitReserved, NextReserved, PTL DEF SemaphoreSpec

(* ... and until then the box is the semaphore System.Concurrency promises. *)
THEOREM IsSemaphore == SemaphoreSpec => ImplementsSemaphore
<1>1. SemaphoreInit => PromisedSemaphore!Init
  BY DEF SemaphoreInit, PromisedSemaphore!Init
<1>2. Inductive /\ Reserved /\ [SemaphoreNext]_semaphoreVars => [NobodyBarged' => [PromisedSemaphore!Next]_box]_semaphoreVars
  <2> SUFFICES ASSUME Inductive, Reserved, SemaphoreNext, NobodyBarged' PROVE [PromisedSemaphore!Next]_box
    BY DEF semaphoreVars
  <2>1. box \in Int /\ Cardinality(At("woken")) \in Nat
    BY PoolsFinite DEF Inductive, SemaphoreTypeOK
  <2>2. CASE Post
    BY <2>2 DEF Post, PromisedSemaphore!Next, PromisedSemaphore!Post
  <2>3. ASSUME NEW w \in Waiter, Wait(w) PROVE [PromisedSemaphore!Next]_box
    <3>1. CASE box = 0
      BY <2>3, <3>1 DEF Wait
    <3>2. CASE box # 0
      <4>1. ~(box <= Cardinality(At("woken"))) /\ box' = box - 1
        BY <2>3, <3>2 DEF Wait, NobodyBarged
      <4>2. QED
        BY <2>1, <4>1 DEF PromisedSemaphore!Next, PromisedSemaphore!Wait
    <3>3. QED
      BY <3>1, <3>2
  <2>4. ASSUME NEW w \in Waiter, Resume(w) PROVE [PromisedSemaphore!Next]_box
    <3>1. box' = box - 1 /\ NobodyBarged /\ semaphorePc[w] = "woken" /\ semaphorePc' = [semaphorePc EXCEPT ![w] = "outside"]
      BY <2>4 DEF Resume, NobodyBarged
    <3>2. w \in At("woken") /\ At("woken") # {}
      BY <3>1 DEF At
    <3>3. Cardinality(At("woken")) # 0
      BY <3>2, PoolsFinite, FS_EmptySet
    <3>4. box > 0
      BY <2>1, <3>1, <3>3 DEF Reserved, NobodyBarged
    <3>5. QED
      BY <3>1, <3>4 DEF PromisedSemaphore!Next, PromisedSemaphore!Wait
  <2>5. QED
    BY <2>2, <2>3, <2>4 DEF SemaphoreNext
<1>3. QED
  BY <1>1, <1>2, SemaphoreStart, SemaphoreStep, InitReserved, NextReserved, PTL
     DEF SemaphoreSpec, ImplementsSemaphore

(* A single waiting thread never barges in: threadWait, whose thread handle
   is linear, gets a sound semaphore.                                       *)
SingleWaiter == \A v, w \in Waiter : v = w

THEOREM JoinIsSafe == SingleWaiter => (SemaphoreSpec => []PermitsRespected)
<1> SUFFICES ASSUME SingleWaiter PROVE SemaphoreSpec => []PermitsRespected
  OBVIOUS
<1>1. SemaphoreInit => NobodyBarged
  BY DEF SemaphoreInit, NobodyBarged
<1>2. Inductive /\ Reserved /\ NobodyBarged /\ [SemaphoreNext]_semaphoreVars => NobodyBarged'
  <2> SUFFICES ASSUME Inductive, Reserved, NobodyBarged, SemaphoreNext PROVE NobodyBarged'
    BY DEF semaphoreVars, NobodyBarged
  <2>1. box \in Int /\ Cardinality(At("woken")) \in Nat
    BY PoolsFinite DEF Inductive, SemaphoreTypeOK
  <2>2. ASSUME NEW w \in Waiter, Wait(w) PROVE NobodyBarged'
    <3>1. At("woken") = {}
      BY <2>2 DEF SingleWaiter, Wait, At
    <3>2. box >= 0 /\ ~(box # 0 /\ box <= Cardinality(At("woken")))
      BY <2>1, <3>1, FS_EmptySet DEF Reserved, NobodyBarged
    <3>3. QED
      BY <2>2, <3>2 DEF Wait, NobodyBarged
  <2>3. QED
    BY <2>2 DEF SemaphoreNext, Post, Resume, NobodyBarged
<1>3. NobodyBarged /\ RespectedUnlessBarged => PermitsRespected
  BY DEF RespectedUnlessBarged
<1>4. QED
  BY <1>1, <1>2, <1>3, SemaphoreStart, SemaphoreStep, InitReserved, NextReserved,
     PermitsAreReserved, PTL DEF SemaphoreSpec

(***************************************************************************)
(* Proofs about the barriers of the Chez backend, for any number of        *)
(* threads and any number of parties.  The invariant has two phases:       *)
(* while the party is incomplete the count is the number of threads that   *)
(* wait and nobody has left; once it is complete, enough threads have come *)
(* for the first time, only such first calls are ever released, and those  *)
(* let through are as many as the party.                                   *)
(***************************************************************************)

Waiting == {t \in Thread : barrierPc[t] = "waiting"}

Incomplete ==
  /\ Cardinality(Waiting) = count
  /\ \A t \in Thread : passed[t] = 0 /\ barrierPc[t] # "released"

Complete ==
  /\ Cardinality(PromisedBarrier!Reached(1)) >= Parties
  /\ \A t \in Thread : barrierPc[t] = "released" => arrived[t] = 1
  /\ Cardinality(Through) = Parties

Phase ==
  /\ count < Parties => Incomplete
  /\ count >= Parties => Complete

\* The specification's Cardinality is this one.
LEMMA SameCardinality == ASSUME NEW S PROVE PromisedBarrier!Cardinality(S) = Cardinality(S)
BY DEF Cardinality, PromisedBarrier!Cardinality

LEMMA BarrierStart == BarrierInit => BarrierTypeOK /\ OneParty /\ Phase
<1> SUFFICES ASSUME BarrierInit PROVE BarrierTypeOK /\ OneParty /\ Phase
  OBVIOUS
<1>1. Waiting = {}
  BY DEF BarrierInit, Waiting
<1>2. Cardinality(Waiting) = 0
  BY <1>1, FS_EmptySet
<1> QED BY <1>2, BarrierAssumption DEF BarrierInit, BarrierTypeOK, OneParty, Phase, Incomplete

LEMMA BarrierTyped == BarrierTypeOK /\ [BarrierNext]_barrierVars => BarrierTypeOK'
<1> SUFFICES ASSUME BarrierTypeOK, [BarrierNext]_barrierVars PROVE BarrierTypeOK'
  OBVIOUS
<1> USE BarrierAssumption DEF BarrierTypeOK
<1>1. ASSUME NEW t \in Thread, Enter(t) PROVE BarrierTypeOK'
  <2>1. /\ arrived[t] + 1 \in 0..Rounds /\ count' = count + 1 /\ passed' = passed
        /\ arrived' = [arrived EXCEPT ![t] = @ + 1]
    BY <1>1 DEF Enter
  <2>2. /\ barrierPc' \in [Thread -> {"outside", "waiting", "released"}]
        /\ barrierPc[t] = "outside" /\ barrierPc'[t] # "outside"
        /\ \A u \in Thread \ {t} : barrierPc'[u] = "outside" <=> barrierPc[u] = "outside"
    BY <1>1 DEF Enter
  <2>3. /\ count' \in Nat /\ arrived' \in [Thread -> 0..Rounds]
        /\ passed' \in [Thread -> 0..Rounds]
    BY <2>1
  <2>4. ASSUME NEW u \in Thread
        PROVE arrived'[u] = passed'[u] + IF barrierPc'[u] = "outside" THEN 0 ELSE 1
    <3>1. CASE u = t
      BY <2>1, <2>2, <3>1
    <3>2. CASE u # t
      BY <2>1, <2>2, <3>2
    <3> QED BY <3>1, <3>2
  <2> QED BY <2>2, <2>3, <2>4
<1>2. ASSUME NEW t \in Thread, Leave(t) PROVE BarrierTypeOK'
  <2>1. barrierPc[t] = "released" /\ arrived[t] = passed[t] + 1
    BY <1>2 DEF Leave
  <2>2. passed[t] + 1 \in 0..Rounds
    BY <2>1
  <2> QED BY <1>2, <2>1, <2>2 DEF Leave
<1>3. CASE UNCHANGED barrierVars
  BY <1>3 DEF barrierVars
<1> QED BY <1>1, <1>2, <1>3 DEF BarrierNext

\* The step that completes the party, and the steps before and after it.
LEMMA EnterKeepsPhase ==
  ASSUME BarrierTypeOK, OneParty, Phase, NEW t \in Thread, Enter(t)
  PROVE Phase'
<1> USE BarrierAssumption DEF BarrierTypeOK
<1>1. /\ barrierPc[t] = "outside" /\ arrived' = [arrived EXCEPT ![t] = @ + 1]
      /\ count' = count + 1 /\ passed' = passed
  BY DEF Enter
<1>2. IsFiniteSet(Thread) /\ IsFiniteSet(Waiting) /\ IsFiniteSet(Waiting')
      /\ IsFiniteSet(PromisedBarrier!Reached(1)) /\ IsFiniteSet(PromisedBarrier!Reached(1)')
  BY FS_Subset DEF Waiting, PromisedBarrier!Reached
<1>3. t \notin Waiting
  BY <1>1 DEF Waiting
<1>4. Cardinality(Waiting \cup {t}) = Cardinality(Waiting) + 1
  BY <1>2, <1>3, FS_AddElement
<1>5. CASE count' < Parties
  <2>1. Incomplete /\ barrierPc' = [barrierPc EXCEPT ![t] = "waiting"]
    BY <1>1, <1>5 DEF Enter, Phase
  <2>2. Waiting' = Waiting \cup {t}
    BY <2>1 DEF Waiting
  <2>3. Incomplete'
    BY <1>1, <1>4, <2>1, <2>2 DEF Incomplete
  <2> QED BY <1>1, <1>5, <2>3 DEF Phase
<1>6. CASE count' = Parties
  <2>1. Incomplete
    BY <1>1, <1>6 DEF Phase
  <2>2. barrierPc' = [u \in Thread |-> IF u = t \/ barrierPc[u] = "waiting" THEN "released" ELSE barrierPc[u]]
    BY <1>6 DEF Enter
  <2>3. Waiting \cup {t} \subseteq PromisedBarrier!Reached(1)'
    BY <1>1 DEF Waiting, PromisedBarrier!Reached
  <2>4. Cardinality(Waiting \cup {t}) <= Cardinality(PromisedBarrier!Reached(1)')
    BY <1>2, <2>3, FS_Subset
  <2>5. Cardinality(Waiting \cup {t}) = Parties
    BY <1>1, <1>4, <1>6, <2>1 DEF Incomplete
  <2>6. Cardinality(PromisedBarrier!Reached(1)') >= Parties
    BY <1>2, <2>4, <2>5, FS_CardinalityType
  <2>7. ASSUME NEW u \in Thread, barrierPc'[u] = "released" PROVE arrived'[u] = 1
    BY <1>1, <2>1, <2>2, <2>7 DEF Incomplete
  <2>8. Through' = Waiting \cup {t}
    BY <1>1, <2>1, <2>2 DEF Through, Waiting, Incomplete
  <2>9. Complete'
    BY <2>5, <2>6, <2>7, <2>8 DEF Complete, PromisedBarrier!Reached
  <2> QED BY <1>6, <2>9 DEF Phase
<1>7. CASE count' > Parties
  <2>1. Complete /\ barrierPc' = [barrierPc EXCEPT ![t] = "waiting"]
    BY <1>1, <1>7 DEF Enter, Phase
  <2>2. PromisedBarrier!Reached(1) \subseteq PromisedBarrier!Reached(1)'
    BY <1>1 DEF PromisedBarrier!Reached
  <2>3. Cardinality(PromisedBarrier!Reached(1)) <= Cardinality(PromisedBarrier!Reached(1)')
    BY <1>2, <2>2, FS_Subset
  <2>4. Cardinality(PromisedBarrier!Reached(1)') >= Parties
    BY <1>2, <2>1, <2>3, FS_CardinalityType DEF Complete
  <2>5. ASSUME NEW u \in Thread, barrierPc'[u] = "released" PROVE arrived'[u] = 1
    BY <1>1, <2>1, <2>5 DEF Complete
  <2>6. Through' = Through
    BY <1>1, <2>1 DEF Through
  <2>7. Complete'
    BY <2>1, <2>4, <2>5, <2>6 DEF Complete, PromisedBarrier!Reached
  <2> QED BY <1>1, <1>7, <2>7 DEF Phase
<1> QED BY <1>1, <1>5, <1>6, <1>7

\* Only a complete party leaves.
LEMMA Leaves ==
  ASSUME BarrierTypeOK, Phase, NEW t \in Thread, Leave(t)
  PROVE /\ Complete /\ arrived[t] = 1 /\ passed[t] = 0
        /\ Phase'
<1> USE BarrierAssumption DEF BarrierTypeOK
<1>1. /\ barrierPc[t] = "released" /\ barrierPc' = [barrierPc EXCEPT ![t] = "outside"]
      /\ passed' = [passed EXCEPT ![t] = @ + 1] /\ UNCHANGED <<count, arrived>>
  BY DEF Leave
<1>2. Complete /\ count >= Parties
  BY <1>1 DEF Phase, Incomplete
<1>3. arrived[t] = 1 /\ passed[t] = 0
  BY <1>1, <1>2 DEF Complete
<1>4. PromisedBarrier!Reached(1)' = PromisedBarrier!Reached(1)
  BY <1>1 DEF PromisedBarrier!Reached
<1>5. Through' = Through
  BY <1>1 DEF Through
<1>6. Complete'
  BY <1>1, <1>2, <1>4, <1>5 DEF Complete
<1> QED BY <1>1, <1>2, <1>3, <1>6 DEF Phase

LEMMA BarrierStep ==
  BarrierTypeOK /\ OneParty /\ Phase /\ [BarrierNext]_barrierVars => OneParty' /\ Phase'
<1> SUFFICES ASSUME BarrierTypeOK, OneParty, Phase, [BarrierNext]_barrierVars PROVE OneParty' /\ Phase'
  OBVIOUS
<1>1. ASSUME NEW t \in Thread, Enter(t) PROVE OneParty' /\ Phase'
  BY <1>1, EnterKeepsPhase DEF Enter, OneParty
<1>2. ASSUME NEW t \in Thread, Leave(t) PROVE OneParty' /\ Phase'
  <2>1. passed[t] = 0 /\ Phase' /\ passed' = [passed EXCEPT ![t] = @ + 1]
    BY <1>2, Leaves DEF Leave
  <2> QED BY <2>1 DEF OneParty, BarrierTypeOK
<1>3. CASE UNCHANGED barrierVars
  <2>1. Waiting' = Waiting /\ PromisedBarrier!Reached(1)' = PromisedBarrier!Reached(1)
    BY <1>3 DEF barrierVars, Waiting, PromisedBarrier!Reached
  <2>2. Through' = Through
    BY <1>3 DEF barrierVars, Through
  <2>3. (Incomplete <=> Incomplete') /\ (Complete <=> Complete')
    BY <1>3, <2>1, <2>2 DEF barrierVars, Incomplete, Complete
  <2> QED BY <1>3, <2>3 DEF barrierVars, OneParty, Phase
<1> QED BY <1>1, <1>2, <1>3 DEF BarrierNext

(* A barrier lets through one party, whole, and nobody else, however many
   threads come and however often.                                          *)
THEOREM OnePartyOnly == BarrierSpec => []BarrierInv
<1>1. BarrierTypeOK /\ Phase => AllOrNobody
  <2> SUFFICES ASSUME BarrierTypeOK, Phase PROVE AllOrNobody
    OBVIOUS
  <2>1. CASE Incomplete
    <3>1. Through = {}
      BY <2>1 DEF Incomplete, Through
    <3> QED BY <3>1, FS_EmptySet DEF AllOrNobody
  <2>2. CASE Complete
    BY <2>2 DEF Complete, AllOrNobody
  <2>3. Incomplete \/ Complete
    BY BarrierAssumption DEF BarrierTypeOK, Phase
  <2> QED BY <2>1, <2>2, <2>3
<1> QED BY <1>1, BarrierStart, BarrierTyped, BarrierStep, PTL DEF BarrierSpec, BarrierInv

(* Nobody leaves a barrier before the whole party has come to it.           *)
THEOREM IsBarrier == BarrierSpec => ImplementsBarrier
<1>1. BarrierInit => PromisedBarrier!Init
  BY DEF BarrierInit, PromisedBarrier!Init
<1>2. BarrierTypeOK /\ Phase /\ [BarrierNext]_barrierVars => [PromisedBarrier!Next]_<<arrived, passed>>
  <2> SUFFICES ASSUME BarrierTypeOK, Phase, BarrierNext PROVE [PromisedBarrier!Next]_<<arrived, passed>>
    BY DEF barrierVars
  <2>1. ASSUME NEW t \in Thread, Enter(t) PROVE PromisedBarrier!Arrive(t)
    BY <2>1 DEF Enter, BarrierTypeOK, PromisedBarrier!Arrive
  <2>2. ASSUME NEW t \in Thread, Leave(t) PROVE PromisedBarrier!Pass(t)
    <3>1. arrived[t] = 1 /\ passed[t] = 0 /\ Complete
      BY <2>2, Leaves
    <3>2. PromisedBarrier!Reached(arrived[t]) = PromisedBarrier!Reached(1)
      BY <3>1 DEF PromisedBarrier!Reached
    <3>3. PromisedBarrier!Cardinality(PromisedBarrier!Reached(arrived[t])) >= Parties
      BY <3>1, <3>2, SameCardinality DEF Complete
    <3> QED BY <2>2, <3>1, <3>3 DEF Leave, PromisedBarrier!Pass
  <2> QED BY <2>1, <2>2 DEF BarrierNext, PromisedBarrier!Next
<1> QED BY <1>1, <1>2, BarrierStart, BarrierTyped, BarrierStep, PTL
        DEF BarrierSpec, ImplementsBarrier, PromisedBarrier!Spec

(***************************************************************************)
(* Proofs about the channels of the Chez backend, for any number of        *)
(* putters, getters and pollers.  The inductive invariant of the           *)
(* refinement says what the two boxes mean: read-box is #f exactly while   *)
(* one more value has been put than got, val-box then holds that value,    *)
(* and it holds '() otherwise.                                             *)
(***************************************************************************)

\* What the boxes hold, in terms of the values put and got.
Boxes ==
  /\ full => Len(sent) = Len(got) + 1 /\ val = sent[Len(got) + 1]
  /\ ~full => Len(sent) = Len(got) /\ val = Nil

(***************************************************************************)
(* Types                                                                   *)
(***************************************************************************)
LEMMA InitInv == ChannelInit => ChannelTypeOK /\ NoLostWakeup /\ Boxes
<1> SUFFICES ASSUME ChannelInit PROVE ChannelTypeOK /\ NoLostWakeup /\ Boxes
  OBVIOUS
<1>1. ChannelTypeOK
  <2>1. sent \in Seq(Val) /\ got \in Seq(Val \cup {Nil})
    BY DEF ChannelInit
  <2>2. elapsed \in [Poller -> 0..Timeout]
    BY ChannelAssumption DEF ChannelInit
  <2> QED BY <2>1, <2>2 DEF ChannelInit, ChannelTypeOK
<1>2. NoLostWakeup
  BY DEF ChannelInit, NoLostWakeup, ChannelThread
<1>3. Boxes
  BY DEF ChannelInit, Boxes
<1> QED BY <1>1, <1>2, <1>3

LEMMA ChannelTyped == ChannelTypeOK /\ [ChannelNext]_channelVars => ChannelTypeOK'
<1> SUFFICES ASSUME ChannelTypeOK, [ChannelNext]_channelVars PROVE ChannelTypeOK'
  OBVIOUS
<1> USE DEF ChannelTypeOK
<1>1. ASSUME NEW t \in ChannelThread, Block(t) PROVE ChannelTypeOK'
  BY <1>1 DEF Block
<1>2. ASSUME NEW t \in ChannelThread, Take(t) PROVE ChannelTypeOK'
  <2>1. got' \in Seq(Val \cup {Nil})
    BY <1>2 DEF Take
  <2> QED BY <1>2, <2>1 DEF Take
<1>3. ASSUME NEW p \in Putter, Put(p) PROVE ChannelTypeOK'
  <2>1. p \in ChannelThread BY DEF ChannelThread
  <2>2. ASSUME NEW v \in Val, Store(p, v) PROVE ChannelTypeOK'
    BY <2>1, <2>2 DEF Store
  <2> QED BY <1>1, <1>3, <2>1, <2>2 DEF Put
<1>4. ASSUME NEW g \in Getter, Get(g) PROVE ChannelTypeOK'
  BY <1>1, <1>2, <1>4 DEF Get, ChannelThread
<1>5. ASSUME NEW t \in Poller, GetNonBlocking(t) PROVE ChannelTypeOK'
  BY <1>2, <1>5 DEF GetNonBlocking, ChannelThread
<1>6. ASSUME NEW t \in Poller, StartTimed(t) PROVE ChannelTypeOK'
  BY <1>6, ChannelAssumption DEF StartTimed, ChannelThread
<1>7. ASSUME NEW t \in Poller, GetWithTimeout(t) PROVE ChannelTypeOK'
  <2>1. t \in ChannelThread BY DEF ChannelThread
  <2>2. CASE Take(t)
    BY <1>2, <2>1, <2>2
  <2>3. CASE elapsed[t] < Timeout /\ elapsed' = [elapsed EXCEPT ![t] = @ + 1]
             /\ UNCHANGED <<full, val, channelPc, sent, got>>
    <3>1. elapsed[t] + 1 \in 0..Timeout
      BY <2>3, ChannelAssumption
    <3> QED BY <2>3, <3>1
  <2>4. CASE channelPc' = [channelPc EXCEPT ![t] = "idle"] /\ UNCHANGED <<full, val, elapsed, sent, got>>
    BY <2>4
  <2> QED BY <1>7, <2>2, <2>3, <2>4 DEF GetWithTimeout
<1>8. ASSUME NEW t \in ChannelThread, SignalVal(t) PROVE ChannelTypeOK'
  BY <1>8 DEF SignalVal, Signal
<1>9. ASSUME NEW t \in ChannelThread, SignalRead(t) PROVE ChannelTypeOK'
  BY <1>9 DEF SignalRead, Signal
<1>10. ASSUME NEW t \in ChannelThread, SpuriousWakeup(t) PROVE ChannelTypeOK'
  BY <1>10 DEF SpuriousWakeup
<1>11. CASE UNCHANGED channelVars
  BY <1>11 DEF channelVars
<1> QED
  BY <1>3, <1>4, <1>5, <1>6, <1>7, <1>8, <1>9, <1>10, <1>11 DEF ChannelNext

(***************************************************************************)
(* No wakeup is lost                                                       *)
(***************************************************************************)
\* Whoever takes the value owes the putters a signal, and room is all there is.
LEMMA TakeKeepsWakeups ==
  ASSUME ChannelTypeOK, NEW t \in Getter \cup Poller, Take(t)
  PROVE NoLostWakeup'
BY DEF ChannelTypeOK, Take, NoLostWakeup, ChannelThread

\* A signal that finds sleepers wakes one, and one that finds none is not missed.
LEMMA SignalKeepsWakeups ==
  ASSUME ChannelTypeOK, NoLostWakeup, NEW t \in ChannelThread, SignalVal(t) \/ SignalRead(t)
  PROVE NoLostWakeup'
<1> USE DEF ChannelTypeOK, NoLostWakeup, ChannelThread
<1>1. CASE SignalVal(t)
  <2>1. t \in Putter /\ channelPc[t] = "signal" /\ full' = full
    BY <1>1 DEF SignalVal
  <2>2. CASE {u \in Getter : channelPc[u] = "waiting"} = {}
    BY <1>1, <2>1, <2>2, ChannelAssumption DEF SignalVal, Signal
  <2>3. CASE {u \in Getter : channelPc[u] = "waiting"} # {}
    <3>1. PICK u \in Getter : channelPc[u] = "waiting" /\ channelPc' = [channelPc EXCEPT ![t] = "idle", ![u] = "woken"]
      BY <1>1, <2>3 DEF SignalVal, Signal
    <3>2. channelPc'[u] = "woken" BY <3>1
    <3>3. \A w \in ChannelThread \ {t, u} : channelPc'[w] = channelPc[w] BY <3>1
    <3> QED BY <2>1, <3>1, <3>2, <3>3, ChannelAssumption
  <2> QED BY <2>2, <2>3
<1>2. CASE SignalRead(t)
  <2>1. t \in Getter \cup Poller /\ channelPc[t] = "signal" /\ full' = full
    BY <1>2 DEF SignalRead
  <2>2. CASE {u \in Putter : channelPc[u] = "waiting"} = {}
    BY <1>2, <2>1, <2>2, ChannelAssumption DEF SignalRead, Signal
  <2>3. CASE {u \in Putter : channelPc[u] = "waiting"} # {}
    <3>1. PICK u \in Putter : channelPc[u] = "waiting" /\ channelPc' = [channelPc EXCEPT ![t] = "idle", ![u] = "woken"]
      BY <1>2, <2>3 DEF SignalRead, Signal
    <3>2. channelPc'[u] = "woken" BY <3>1
    <3>3. \A w \in ChannelThread \ {t, u} : channelPc'[w] = channelPc[w] BY <3>1
    <3> QED BY <2>1, <3>1, <3>2, <3>3, ChannelAssumption
  <2> QED BY <2>2, <2>3
<1> QED BY <1>1, <1>2

LEMMA WakeupsKept == ChannelTypeOK /\ NoLostWakeup /\ [ChannelNext]_channelVars => NoLostWakeup'
<1> SUFFICES ASSUME ChannelTypeOK, NoLostWakeup, [ChannelNext]_channelVars PROVE NoLostWakeup'
  OBVIOUS
<1> USE DEF ChannelTypeOK, NoLostWakeup, ChannelThread
<1>1. ASSUME NEW p \in Putter, Put(p) PROVE NoLostWakeup'
  <2>1. CASE full /\ Block(p)
    BY <1>1, <2>1, ChannelAssumption DEF Put, Ready, Block
  <2>2. ASSUME ~full, NEW v \in Val, Store(p, v) PROVE NoLostWakeup'
    BY <2>2 DEF Store
  <2> QED BY <1>1, <2>1, <2>2 DEF Put
<1>2. ASSUME NEW g \in Getter, Get(g) PROVE NoLostWakeup'
  <2>1. CASE ~full /\ Block(g)
    BY <1>2, <2>1, ChannelAssumption DEF Get, Ready, Block
  <2> QED BY <1>2, <2>1, TakeKeepsWakeups DEF Get
<1>3. ASSUME NEW t \in Poller, GetNonBlocking(t) PROVE NoLostWakeup'
  BY <1>3, TakeKeepsWakeups DEF GetNonBlocking
<1>4. ASSUME NEW t \in Poller, StartTimed(t) PROVE NoLostWakeup'
  BY <1>4, ChannelAssumption DEF StartTimed
<1>5. ASSUME NEW t \in Poller, GetWithTimeout(t) PROVE NoLostWakeup'
  <2>1. CASE full' = full /\ channelPc' = channelPc
    BY <2>1
  <2>2. CASE full' = full /\ channelPc' = [channelPc EXCEPT ![t] = "idle"]
    <3>1. channelPc[t] = "polling" /\ t \notin Putter \cup Getter
      BY <1>5, ChannelAssumption DEF GetWithTimeout
    <3>2. \A u \in Putter \cup Getter : channelPc'[u] = channelPc[u]
      BY <2>2, <3>1
    <3>3. \A u \in Poller : channelPc'[u] = "signal" <=> channelPc[u] = "signal" /\ u # t
      BY <2>2
    <3> QED BY <2>2, <3>1, <3>2, <3>3
  <2> QED BY <1>5, <2>1, <2>2, TakeKeepsWakeups DEF GetWithTimeout
<1>6. ASSUME NEW t \in ChannelThread, SignalVal(t) \/ SignalRead(t) PROVE NoLostWakeup'
  BY <1>6, SignalKeepsWakeups
<1>7. ASSUME NEW t \in ChannelThread, SpuriousWakeup(t) PROVE NoLostWakeup'
  <2>1. full' = full /\ channelPc[t] = "waiting" /\ channelPc'[t] = "woken"
        /\ \A w \in ChannelThread \ {t} : channelPc'[w] = channelPc[w]
    BY <1>7 DEF SpuriousWakeup
  <2> QED BY <2>1
<1>8. CASE UNCHANGED channelVars
  BY <1>8 DEF channelVars
<1> QED BY <1>1, <1>2, <1>3, <1>4, <1>5, <1>6, <1>7, <1>8 DEF ChannelNext

(* However many threads put, get and poll, and however often condition-wait
   returns unasked: nobody sleeps on a value, or on room, that no thread is
   about to be woken for.                                                   *)
THEOREM NoWakeupIsLost == ChannelSpec => []ChannelInv
BY InitInv, ChannelTyped, WakeupsKept, PTL DEF ChannelSpec, ChannelInv

(***************************************************************************)
(* Refinement                                                              *)
(***************************************************************************)
\* A value taken from a full channel is the one that is due.
LEMMA TakeIsGet ==
  ASSUME ChannelTypeOK, Boxes, full, NEW t, Take(t)
  PROVE Boxes' /\ PromisedChannel!Get
<1>1. /\ full' = FALSE /\ val' = Nil /\ sent' = sent
      /\ got' = Append(got, sent[Len(got) + 1]) /\ Len(sent) = Len(got) + 1
  BY DEF Take, Boxes
<1>2. Len(got) \in Nat /\ Len(sent) \in Nat /\ Len(got') = Len(got) + 1
  BY <1>1 DEF ChannelTypeOK, Take
<1> QED BY <1>1, <1>2 DEF Boxes, PromisedChannel!Get

\* A value stored in an empty channel is a put.
LEMMA StoreIsPut ==
  ASSUME ChannelTypeOK, Boxes, ~full, NEW p, NEW v \in Val, Store(p, v)
  PROVE Boxes' /\ PromisedChannel!Put(v)
<1>1. /\ full' = TRUE /\ val' = v /\ sent' = Append(sent, v) /\ got' = got
      /\ Len(sent) = Len(got)
  BY DEF Store, Boxes
<1>2. Len(sent) \in Nat /\ Len(sent') = Len(sent) + 1 /\ sent'[Len(sent) + 1] = v
  BY <1>1 DEF ChannelTypeOK
<1> QED BY <1>1, <1>2 DEF Boxes, PromisedChannel!Put

\* Every other step leaves the boxes and the history alone.
LEMMA Refines ==
  ChannelTypeOK /\ Boxes /\ [ChannelNext]_channelVars => Boxes' /\ [PromisedChannel!Next]_<<sent, got>>
<1> SUFFICES ASSUME ChannelTypeOK, Boxes, [ChannelNext]_channelVars PROVE Boxes' /\ [PromisedChannel!Next]_<<sent, got>>
  OBVIOUS
<1>1. CASE UNCHANGED <<full, val, sent, got>>
  BY <1>1 DEF Boxes
<1>2. ASSUME full, NEW t \in ChannelThread, Take(t) PROVE Boxes' /\ [PromisedChannel!Next]_<<sent, got>>
  BY <1>2, TakeIsGet DEF PromisedChannel!Next
<1>3. ASSUME ~full, NEW p \in Putter, NEW v \in Val, Store(p, v)
      PROVE Boxes' /\ [PromisedChannel!Next]_<<sent, got>>
  BY <1>3, StoreIsPut DEF PromisedChannel!Next
<1>4. ASSUME NEW p \in Putter, Put(p) PROVE Boxes' /\ [PromisedChannel!Next]_<<sent, got>>
  BY <1>1, <1>3, <1>4 DEF Put, Block
<1>5. ASSUME NEW g \in Getter, Get(g) PROVE Boxes' /\ [PromisedChannel!Next]_<<sent, got>>
  BY <1>1, <1>2, <1>5 DEF Get, Block, ChannelThread
<1>6. ASSUME NEW t \in Poller, GetNonBlocking(t) \/ StartTimed(t) \/ GetWithTimeout(t)
      PROVE Boxes' /\ [PromisedChannel!Next]_<<sent, got>>
  <2>1. val # Nil => full BY DEF Boxes
  <2> QED BY <1>1, <1>2, <1>6, <2>1 DEF GetNonBlocking, StartTimed, GetWithTimeout, ChannelThread
<1>7. ASSUME NEW t \in ChannelThread, SignalVal(t) \/ SignalRead(t) \/ SpuriousWakeup(t)
      PROVE Boxes' /\ [PromisedChannel!Next]_<<sent, got>>
  BY <1>1, <1>7 DEF SignalVal, SignalRead, SpuriousWakeup
<1>8. CASE UNCHANGED channelVars
  BY <1>1, <1>8 DEF channelVars
<1> QED BY <1>4, <1>5, <1>6, <1>7, <1>8 DEF ChannelNext

(* Whichever of the three ways of getting takes it, every value put is got
   exactly once and in the order of the puts.                               *)
THEOREM IsChannel == ChannelSpec => ImplementsChannel
<1>1. ChannelInit => PromisedChannel!Init
  BY DEF ChannelInit, PromisedChannel!Init
<1> QED BY <1>1, InitInv, ChannelTyped, Refines, PTL DEF ChannelSpec, ImplementsChannel, PromisedChannel!Spec

=============================================================================
