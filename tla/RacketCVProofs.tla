-------------------------- MODULE RacketCVProofs --------------------------
(***************************************************************************)
(* Proofs about the condition variables of the Racket backend, for any     *)
(* number of waiters and notifiers and any number of notifications.        *)
(*                                                                         *)
(* Three facts are carried along.  The mutex is held by one thread or has  *)
(* a count of 1.  waitersLock is free, and then nothing of an earlier      *)
(* notification is left, or it is held by the one notifier whose           *)
(* handshakes are all accounted for: as tokens nobody has taken, threads   *)
(* that have taken one, and handshakes it has not fetched.  And until the  *)
(* first broadcast, a thread that sleeps is on the count or has a token.   *)
(***************************************************************************)
EXTENDS RacketCV, FiniteSetTheorems, TLAPS

Places == {"idle", "holding", "registered", "blocked", "awake", "reacquire"}

Holding  == In({"holding", "registered"})
Sleeping == In({"registered", "blocked"})
Awake    == In({"awake"})

MutexHeld ==
  /\ m = 1 <=> Holding = {}
  /\ \A t, u \in Holding : t = u

LockFree ==
  countingSem = 0 /\ handshakeSem = 0 /\ Awake = {} /\ \A n \in Notifier : left[n] = 0

LockHeld(n) ==
  /\ left[n] = countingSem + Cardinality(Awake) + handshakeSem
  /\ \A k \in Notifier \ {n} : left[k] = 0

LockAccounted ==
  /\ waitersLock = 1 => LockFree
  /\ waitersLock = 0 => \E n \in Notifier : left[n] > 0 /\ LockHeld(n)

SleepersAccounted == broadcasts = 0 => waiters + countingSem = Cardinality(Sleeping)

Inductive == TypeOK /\ MutexHeld /\ LockAccounted /\ SleepersAccounted

(***************************************************************************)
(* The sets of threads                                                     *)
(***************************************************************************)
LEMMA ThreadsFinite ==
  ASSUME NEW S PROVE IsFiniteSet(In(S)) /\ Cardinality(In(S)) \in Nat
<1>1. IsFiniteSet(Thread)
  BY CVAssumption, FS_Union DEF Thread
<1>2. IsFiniteSet(In(S))
  BY <1>1, FS_Subset DEF In
<1> QED BY <1>2, FS_CardinalityType

\* What a step of one thread does to the sets.
LEMMA Moves ==
  ASSUME TypeOK, NEW t \in Thread, NEW p \in Places, pc' = [pc EXCEPT ![t] = p], NEW S
  PROVE /\ p \in S /\ pc[t] \notin S => Cardinality(In(S)') = Cardinality(In(S)) + 1
        /\ p \notin S /\ pc[t] \in S => Cardinality(In(S)') = Cardinality(In(S)) - 1
        /\ p \in S /\ pc[t] \in S => In(S)' = In(S)
        /\ p \notin S /\ pc[t] \notin S => In(S)' = In(S)
        /\ p \in S => In(S)' = In(S) \cup {t}
        /\ p \notin S => In(S)' = In(S) \ {t}
<1>1. pc'[t] = p /\ \A u \in Thread \ {t} : pc'[u] = pc[u]
  BY DEF TypeOK
<1>2. In(S)' = (In(S) \ {t}) \cup (IF p \in S THEN {t} ELSE {})
  BY <1>1 DEF In
<1>3. t \in In(S) <=> pc[t] \in S
  BY DEF In
<1>4. CASE p \in S /\ pc[t] \notin S
  <2>1. In(S)' = In(S) \cup {t} /\ t \notin In(S)
    BY <1>2, <1>3, <1>4
  <2> QED BY <1>2, <1>4, <2>1, ThreadsFinite, FS_AddElement
<1>5. CASE p \notin S /\ pc[t] \in S
  <2>1. In(S)' = In(S) \ {t} /\ t \in In(S)
    BY <1>2, <1>3, <1>5
  <2> QED BY <1>2, <1>5, <2>1, ThreadsFinite, FS_RemoveElement
<1>6. CASE p \in S <=> pc[t] \in S
  <2>1. In(S)' = In(S)
    BY <1>2, <1>3, <1>6
  <2> QED BY <1>2, <1>6, <2>1
<1> QED BY <1>4, <1>5, <1>6

LEMMA HoldingMoves ==
  ASSUME TypeOK, NEW t \in Thread, NEW p \in Places, pc' = [pc EXCEPT ![t] = p]
  PROVE LET S == {"holding", "registered"} IN
        /\ p \in S /\ pc[t] \notin S => Cardinality(Holding') = Cardinality(Holding) + 1
        /\ p \notin S /\ pc[t] \in S => Cardinality(Holding') = Cardinality(Holding) - 1
        /\ p \in S /\ pc[t] \in S => Holding' = Holding
        /\ p \notin S /\ pc[t] \notin S => Holding' = Holding
        /\ p \in S => Holding' = Holding \cup {t}
        /\ p \notin S => Holding' = Holding \ {t}
        /\ t \in Holding <=> pc[t] \in S
<1> DEFINE S == {"holding", "registered"}
<1>1. Holding = In(S) /\ Holding' = In(S)'
  BY DEF Holding
<1>2. t \in Holding <=> pc[t] \in S
  BY DEF Holding, In
<1> HIDE DEF S
<1>3. /\ p \in S /\ pc[t] \notin S => Cardinality(Holding') = Cardinality(Holding) + 1
      /\ p \notin S /\ pc[t] \in S => Cardinality(Holding') = Cardinality(Holding) - 1
      /\ p \in S /\ pc[t] \in S => Holding' = Holding
      /\ p \notin S /\ pc[t] \notin S => Holding' = Holding
      /\ p \in S => Holding' = Holding \cup {t}
      /\ p \notin S => Holding' = Holding \ {t}
  BY <1>1, Moves
<1> QED BY <1>2, <1>3 DEF S

LEMMA SleepingMoves ==
  ASSUME TypeOK, NEW t \in Thread, NEW p \in Places, pc' = [pc EXCEPT ![t] = p]
  PROVE LET S == {"registered", "blocked"} IN
        /\ p \in S /\ pc[t] \notin S => Cardinality(Sleeping') = Cardinality(Sleeping) + 1
        /\ p \notin S /\ pc[t] \in S => Cardinality(Sleeping') = Cardinality(Sleeping) - 1
        /\ p \in S /\ pc[t] \in S => Sleeping' = Sleeping
        /\ p \notin S /\ pc[t] \notin S => Sleeping' = Sleeping
        /\ p \in S => Sleeping' = Sleeping \cup {t}
        /\ p \notin S => Sleeping' = Sleeping \ {t}
        /\ t \in Sleeping <=> pc[t] \in S
<1> DEFINE S == {"registered", "blocked"}
<1>1. Sleeping = In(S) /\ Sleeping' = In(S)'
  BY DEF Sleeping
<1>2. t \in Sleeping <=> pc[t] \in S
  BY DEF Sleeping, In
<1> HIDE DEF S
<1>3. /\ p \in S /\ pc[t] \notin S => Cardinality(Sleeping') = Cardinality(Sleeping) + 1
      /\ p \notin S /\ pc[t] \in S => Cardinality(Sleeping') = Cardinality(Sleeping) - 1
      /\ p \in S /\ pc[t] \in S => Sleeping' = Sleeping
      /\ p \notin S /\ pc[t] \notin S => Sleeping' = Sleeping
      /\ p \in S => Sleeping' = Sleeping \cup {t}
      /\ p \notin S => Sleeping' = Sleeping \ {t}
  BY <1>1, Moves
<1> QED BY <1>2, <1>3 DEF S

LEMMA AwakeMoves ==
  ASSUME TypeOK, NEW t \in Thread, NEW p \in Places, pc' = [pc EXCEPT ![t] = p]
  PROVE LET S == {"awake"} IN
        /\ p \in S /\ pc[t] \notin S => Cardinality(Awake') = Cardinality(Awake) + 1
        /\ p \notin S /\ pc[t] \in S => Cardinality(Awake') = Cardinality(Awake) - 1
        /\ p \in S /\ pc[t] \in S => Awake' = Awake
        /\ p \notin S /\ pc[t] \notin S => Awake' = Awake
        /\ p \in S => Awake' = Awake \cup {t}
        /\ p \notin S => Awake' = Awake \ {t}
        /\ t \in Awake <=> pc[t] \in S
<1> DEFINE S == {"awake"}
<1>1. Awake = In(S) /\ Awake' = In(S)'
  BY DEF Awake
<1>2. t \in Awake <=> pc[t] \in S
  BY DEF Awake, In
<1> HIDE DEF S
<1>3. /\ p \in S /\ pc[t] \notin S => Cardinality(Awake') = Cardinality(Awake) + 1
      /\ p \notin S /\ pc[t] \in S => Cardinality(Awake') = Cardinality(Awake) - 1
      /\ p \in S /\ pc[t] \in S => Awake' = Awake
      /\ p \notin S /\ pc[t] \notin S => Awake' = Awake
      /\ p \in S => Awake' = Awake \cup {t}
      /\ p \notin S => Awake' = Awake \ {t}
  BY <1>1, Moves
<1> QED BY <1>2, <1>3 DEF S

LEMMA Stays == ASSUME UNCHANGED pc, NEW S PROVE In(S)' = In(S)
BY DEF In

(***************************************************************************)
(* The invariant                                                           *)
(***************************************************************************)
LEMMA InitInductive == Init => Inductive
<1> SUFFICES ASSUME Init PROVE Inductive
  OBVIOUS
<1>1. Holding = {} /\ Sleeping = {} /\ Awake = {}
  BY DEF Init, Holding, Sleeping, Awake, In
<1>2. Cardinality(Sleeping) = 0
  BY <1>1, FS_EmptySet
<1>3. TypeOK
  BY CVAssumption DEF Init, TypeOK
<1> QED
  BY <1>1, <1>2, <1>3
     DEF Init, Inductive, MutexHeld, LockAccounted, LockFree, SleepersAccounted

\* The mutex is given back only by the thread that holds it.
LEMMA MutexKept == ASSUME Inductive, [Next]_vars PROVE m' \in {0, 1} /\ MutexHeld'
<1> USE DEF Inductive, MutexHeld
<1>1. ASSUME NEW t \in Thread, Acquire(t) PROVE m' \in {0, 1} /\ MutexHeld'
  <2>1. m = 1 /\ m' = 0 /\ pc' = [pc EXCEPT ![t] = "holding"]
    BY <1>1 DEF Acquire
  <2>2. Holding' = Holding \cup {t}
    BY <2>1, HoldingMoves DEF Places
  <2> QED BY <2>1, <2>2
<1>2. ASSUME NEW t \in Thread, Release(t) PROVE m' \in {0, 1} /\ MutexHeld'
  <2>1. m' = m + 1 /\ t \in Holding /\ pc' = [pc EXCEPT ![t] = "idle"]
    BY <1>2 DEF Release, Holding, In
  <2>2. Holding' = Holding \ {t}
    BY <2>1, HoldingMoves DEF Places
  <2> QED BY <2>1, <2>2 DEF TypeOK
<1>3. ASSUME NEW w \in Waiter, Register(w) PROVE m' \in {0, 1} /\ MutexHeld'
  <2>1. m' = m /\ pc[w] = "holding" /\ pc' = [pc EXCEPT ![w] = "registered"] /\ w \in Thread
    BY <1>3 DEF Register, Thread
  <2>2. Holding' = Holding
    BY <2>1, HoldingMoves DEF Places
  <2> QED BY <2>1, <2>2 DEF TypeOK
<1>4. ASSUME NEW w \in Waiter, ReleaseToWait(w) PROVE m' \in {0, 1} /\ MutexHeld'
  <2>1. m' = m + 1 /\ w \in Holding /\ pc' = [pc EXCEPT ![w] = "blocked"] /\ w \in Thread
    BY <1>4 DEF ReleaseToWait, Holding, In, Thread
  <2>2. Holding' = Holding \ {w}
    BY <2>1, HoldingMoves DEF Places
  <2> QED BY <2>1, <2>2 DEF TypeOK
<1>5. ASSUME NEW w \in Waiter, Reacquire(w) PROVE m' \in {0, 1} /\ MutexHeld'
  <2>1. m = 1 /\ m' = 0 /\ pc' = [pc EXCEPT ![w] = "holding"] /\ w \in Thread
    BY <1>5 DEF Reacquire, Thread
  <2>2. Holding' = Holding \cup {w}
    BY <2>1, HoldingMoves DEF Places
  <2> QED BY <2>1, <2>2
<1>6. ASSUME NEW w \in Waiter, Wake(w) \/ Answer(w) PROVE m' \in {0, 1} /\ MutexHeld'
  <2>1. /\ m' = m /\ w \in Thread
        /\ pc[w] \in {"blocked", "awake"}
        /\ \E p \in {"awake", "reacquire"} : pc' = [pc EXCEPT ![w] = p]
    BY <1>6 DEF Wake, Answer, Thread
  <2>2. Holding' = Holding
    BY <2>1, HoldingMoves DEF Places
  <2> QED BY <2>1, <2>2 DEF TypeOK
<1>7. ASSUME UNCHANGED <<m, pc>> PROVE m' \in {0, 1} /\ MutexHeld'
  <2>1. Holding' = Holding
    BY <1>7, Stays DEF Holding
  <2> QED BY <1>7, <2>1 DEF TypeOK
<1> QED
  BY <1>1, <1>2, <1>3, <1>4, <1>5, <1>6, <1>7
     DEF Next, Signal, Broadcast, Handshake, vars

\* Steps that concern neither the count nor the tokens.
LEMMA Apart ==
  ASSUME Inductive, NEW t \in Thread, NEW p \in Places,
         pc' = [pc EXCEPT ![t] = p],
         p \in {"registered", "blocked"} <=> pc[t] \in {"registered", "blocked"},
         p # "awake", pc[t] # "awake", UNCHANGED <<Sems, left, Calls>>
  PROVE LockAccounted' /\ SleepersAccounted'
<1>1. Sleeping' = Sleeping /\ Awake' = Awake
  BY SleepingMoves, AwakeMoves DEF Places, Inductive
<1>2. /\ waitersLock' = waitersLock /\ waiters' = waiters /\ countingSem' = countingSem
      /\ handshakeSem' = handshakeSem /\ left' = left /\ broadcasts' = broadcasts
  BY DEF Sems, Calls
<1> QED
  BY <1>1, <1>2 DEF Inductive, LockAccounted, LockFree, LockHeld, SleepersAccounted

LEMMA WaiterKeeps ==
  ASSUME Inductive, NEW w \in Waiter, Register(w) \/ Wake(w) \/ Answer(w)
  PROVE LockAccounted' /\ SleepersAccounted'
<1> USE DEF Inductive
<1>0. w \in Thread
  BY DEF Thread
<1>1. Cardinality(Awake) \in Nat /\ Cardinality(Sleeping) \in Nat
  BY ThreadsFinite DEF Awake, Sleeping
<1>2. CASE Register(w)
  <2>1. /\ pc[w] = "holding" /\ pc' = [pc EXCEPT ![w] = "registered"]
        /\ waiters' = waiters + 1 /\ waitersLock' = waitersLock
        /\ countingSem' = countingSem /\ handshakeSem' = handshakeSem
        /\ left' = left /\ broadcasts' = broadcasts
    BY <1>2 DEF Register, Calls
  <2>2. Awake' = Awake
    BY <1>0, <2>1, AwakeMoves DEF Places
  <2>3. Cardinality(Sleeping') = Cardinality(Sleeping) + 1
    BY <1>0, <2>1, SleepingMoves DEF Places
  <2>4. LockAccounted'
    BY <2>1, <2>2 DEF LockAccounted, LockFree, LockHeld
  <2>5. SleepersAccounted'
    BY <2>1, <2>3 DEF SleepersAccounted, TypeOK
  <2> QED BY <2>4, <2>5
<1>3. CASE Wake(w)
  <2>1. /\ pc[w] = "blocked" /\ pc' = [pc EXCEPT ![w] = "awake"]
        /\ countingSem > 0 /\ countingSem' = countingSem - 1
        /\ waiters' = waiters /\ waitersLock' = waitersLock
        /\ handshakeSem' = handshakeSem /\ left' = left /\ broadcasts' = broadcasts
    BY <1>3 DEF Wake, Calls
  <2>2. Cardinality(Awake') = Cardinality(Awake) + 1
    BY <1>0, <2>1, AwakeMoves DEF Places
  <2>3. Cardinality(Sleeping') = Cardinality(Sleeping) - 1
    BY <1>0, <2>1, SleepingMoves DEF Places
  <2>4. waitersLock = 0
    BY <2>1 DEF LockAccounted, LockFree, TypeOK
  <2>5. LockAccounted'
    BY <1>1, <2>1, <2>2, <2>4 DEF LockAccounted, LockHeld, TypeOK
  <2>6. SleepersAccounted'
    BY <1>1, <2>1, <2>3 DEF SleepersAccounted, TypeOK
  <2> QED BY <2>5, <2>6
<1>4. CASE Answer(w)
  <2>1. /\ pc[w] = "awake" /\ pc' = [pc EXCEPT ![w] = "reacquire"]
        /\ handshakeSem' = handshakeSem + 1 /\ countingSem' = countingSem
        /\ waiters' = waiters /\ waitersLock' = waitersLock
        /\ left' = left /\ broadcasts' = broadcasts
    BY <1>4 DEF Answer, Calls
  <2>2. Cardinality(Awake') = Cardinality(Awake) - 1 /\ w \in Awake
    BY <1>0, <2>1, AwakeMoves DEF Places
  <2>3. Sleeping' = Sleeping
    BY <1>0, <2>1, SleepingMoves DEF Places
  <2>4. waitersLock = 0
    BY <2>2 DEF LockAccounted, LockFree, TypeOK
  <2>5. LockAccounted'
    BY <1>1, <2>1, <2>2, <2>4 DEF LockAccounted, LockHeld, TypeOK
  <2>6. SleepersAccounted'
    BY <2>1, <2>3 DEF SleepersAccounted
  <2> QED BY <2>5, <2>6
<1> QED BY <1>2, <1>3, <1>4

LEMMA NotifierKeeps ==
  ASSUME Inductive, NEW n \in Notifier, Signal(n) \/ Broadcast(n) \/ Handshake(n)
  PROVE LockAccounted' /\ SleepersAccounted'
<1> USE DEF Inductive
<1>1. Cardinality(Awake) \in Nat /\ Cardinality(Sleeping) \in Nat
  BY ThreadsFinite DEF Awake, Sleeping
<1>2. Awake' = Awake /\ Sleeping' = Sleeping
  BY Stays DEF Signal, Broadcast, Handshake, Awake, Sleeping
<1>3. CASE UNCHANGED <<waitersLock, waiters, countingSem, handshakeSem, left>>
           /\ (broadcasts' = 0 => broadcasts = 0)
  BY <1>2, <1>3 DEF LockAccounted, LockFree, LockHeld, SleepersAccounted
<1>4. CASE Signal(n) /\ waiters # 0
  <2>1. /\ waitersLock = 1 /\ waitersLock' = 0
        /\ waiters' = waiters - 1 /\ countingSem' = countingSem + 1
        /\ left' = [left EXCEPT ![n] = 1]
        /\ handshakeSem' = handshakeSem /\ broadcasts' = broadcasts
    BY <1>4 DEF Signal, CallSignal
  <2>2. LockFree /\ Cardinality(Awake) = 0
    BY <2>1, FS_EmptySet DEF LockAccounted, LockFree
  <2>3. left'[n] > 0 /\ LockHeld(n)'
    BY <1>2, <2>1, <2>2 DEF LockFree, LockHeld, TypeOK
  <2>4. LockAccounted'
    BY <2>1, <2>3 DEF LockAccounted
  <2>5. SleepersAccounted'
    BY <1>1, <1>2, <2>1 DEF SleepersAccounted, TypeOK
  <2> QED BY <2>4, <2>5
<1>5. CASE Broadcast(n) /\ waiters # 0
  <2>1. /\ waitersLock = 1 /\ waitersLock' = 0
        /\ waiters' = waiters /\ countingSem' = countingSem + waiters
        /\ left' = [left EXCEPT ![n] = waiters]
        /\ handshakeSem' = handshakeSem /\ broadcasts' = broadcasts + 1
    BY <1>5 DEF Broadcast, CallBroadcast
  <2>2. LockFree /\ Cardinality(Awake) = 0
    BY <2>1, FS_EmptySet DEF LockAccounted, LockFree
  <2>3. left'[n] > 0 /\ LockHeld(n)'
    BY <1>2, <1>5, <2>1, <2>2 DEF LockFree, LockHeld, TypeOK
  <2>4. LockAccounted'
    BY <2>1, <2>3 DEF LockAccounted
  <2>5. SleepersAccounted'
    BY <2>1, CVAssumption DEF SleepersAccounted, TypeOK
  <2> QED BY <2>4, <2>5
<1>6. CASE Handshake(n)
  <2>1. /\ left[n] > 0 /\ handshakeSem > 0 /\ handshakeSem' = handshakeSem - 1
        /\ left' = [left EXCEPT ![n] = @ - 1]
        /\ waitersLock' = IF left[n] = 1 THEN 1 ELSE waitersLock
        /\ waiters' = waiters /\ countingSem' = countingSem /\ broadcasts' = broadcasts
    BY <1>6 DEF Handshake, Calls
  <2>2. waitersLock = 0 /\ LockHeld(n)
    BY <2>1 DEF LockAccounted, LockFree, LockHeld, TypeOK
  <2>3. left'[n] = left[n] - 1 /\ LockHeld(n)'
    BY <1>1, <1>2, <2>1, <2>2 DEF LockHeld, TypeOK
  <2>4. SleepersAccounted'
    BY <1>2, <2>1 DEF SleepersAccounted
  <2>5. CASE left[n] = 1
    <3>1. handshakeSem = 1 /\ countingSem + Cardinality(Awake) = 0
      BY <1>1, <2>1, <2>2, <2>5 DEF LockHeld, TypeOK
    <3>2. countingSem = 0 /\ Cardinality(Awake) = 0
      BY <1>1, <3>1 DEF TypeOK
    <3>3. Awake = {}
      BY <3>2, ThreadsFinite, FS_EmptySet DEF Awake
    <3>4. LockFree'
      BY <1>2, <2>1, <2>3, <2>5, <3>1, <3>2, <3>3 DEF LockFree, LockHeld
    <3> QED BY <2>1, <2>4, <2>5, <3>4 DEF LockAccounted
  <2>6. CASE left[n] # 1
    <3>1. waitersLock' = 0 /\ left'[n] > 0
      BY <2>1, <2>2, <2>3, <2>6 DEF TypeOK
    <3> QED BY <2>3, <2>4, <3>1 DEF LockAccounted
  <2> QED BY <2>5, <2>6
<1>7. CASE (Signal(n) \/ Broadcast(n)) /\ waiters = 0
  BY <1>3, <1>7, CVAssumption DEF Signal, Broadcast, CallSignal, CallBroadcast, TypeOK
<1> QED BY <1>4, <1>5, <1>6, <1>7

LEMMA Typed == ASSUME Inductive, [Next]_vars PROVE TypeOK'
<1>0. m' \in {0, 1}
  BY MutexKept
<1> USE CVAssumption DEF Inductive, TypeOK
<1>1. ASSUME NEW t \in Thread, Acquire(t) \/ Release(t) PROVE TypeOK'
  BY <1>0, <1>1 DEF Acquire, Release, Sems, Calls
<1>2. ASSUME NEW w \in Waiter,
             Register(w) \/ ReleaseToWait(w) \/ Wake(w) \/ Answer(w) \/ Reacquire(w)
      PROVE TypeOK'
  BY <1>0, <1>2 DEF Register, ReleaseToWait, Wake, Answer, Reacquire, Sems, Calls, Thread
<1>3. ASSUME NEW n \in Notifier, Signal(n) PROVE TypeOK'
  BY <1>3 DEF Signal, CallSignal, Later
<1>4. ASSUME NEW n \in Notifier, Broadcast(n) PROVE TypeOK'
  BY <1>4 DEF Broadcast, CallBroadcast, Later, Asleep
<1>5. ASSUME NEW n \in Notifier, Handshake(n) PROVE TypeOK'
  BY <1>5 DEF Handshake, Calls
<1>6. CASE UNCHANGED vars
  BY <1>6 DEF vars
<1> QED BY <1>1, <1>2, <1>3, <1>4, <1>5, <1>6 DEF Next

LEMMA NextInductive == Inductive /\ [Next]_vars => Inductive'
<1> SUFFICES ASSUME Inductive, [Next]_vars PROVE LockAccounted' /\ SleepersAccounted'
  BY MutexKept, Typed DEF Inductive
<1>1. ASSUME NEW t \in Thread, Acquire(t) \/ Release(t)
      PROVE LockAccounted' /\ SleepersAccounted'
  <2>1. CASE Acquire(t)
    <3>1. /\ pc[t] = "idle" /\ pc' = [pc EXCEPT ![t] = "holding"]
          /\ UNCHANGED <<Sems, left, Calls>>
      BY <2>1 DEF Acquire
    <3> QED BY <3>1, Apart DEF Places
  <2>2. CASE Release(t)
    <3>1. /\ pc[t] = "holding" /\ pc' = [pc EXCEPT ![t] = "idle"]
          /\ UNCHANGED <<Sems, left, Calls>>
      BY <2>2 DEF Release
    <3> QED BY <3>1, Apart DEF Places
  <2> QED BY <1>1, <2>1, <2>2
<1>2. ASSUME NEW w \in Waiter, ReleaseToWait(w) \/ Reacquire(w)
      PROVE LockAccounted' /\ SleepersAccounted'
  <2>1. CASE ReleaseToWait(w)
    <3>1. /\ pc[w] = "registered" /\ pc' = [pc EXCEPT ![w] = "blocked"] /\ w \in Thread
          /\ UNCHANGED <<Sems, left, Calls>>
      BY <2>1 DEF ReleaseToWait, Thread
    <3> QED BY <3>1, Apart DEF Places
  <2>2. CASE Reacquire(w)
    <3>1. /\ pc[w] = "reacquire" /\ pc' = [pc EXCEPT ![w] = "holding"] /\ w \in Thread
          /\ UNCHANGED <<Sems, left, Calls>>
      BY <2>2 DEF Reacquire, Thread
    <3> QED BY <3>1, Apart DEF Places
  <2> QED BY <1>2, <2>1, <2>2
<1>3. CASE UNCHANGED vars
  <2>1. Sleeping' = Sleeping /\ Awake' = Awake
    BY <1>3, Stays DEF vars, Sleeping, Awake
  <2> QED
    BY <1>3, <2>1
       DEF vars, Inductive, LockAccounted, LockFree, LockHeld, SleepersAccounted
<1> QED BY <1>1, <1>2, <1>3, WaiterKeeps, NotifierKeeps DEF Next

(* However many threads wait and notify: when a thread may start to wait,
   nothing is left of an earlier notification, and until the first broadcast
   the count is the number of threads that nobody has let through.          *)
THEOREM NoStaleNotification == Spec => []Inv
<1>1. Inductive => Inv
  <2> SUFFICES ASSUME Inductive PROVE Inv
    OBVIOUS
  <2>1. Cardinality(Sleeping) \in Nat
    BY ThreadsFinite DEF Sleeping
  <2>2. NoStaleWakeup
    BY DEF Inductive, LockAccounted, LockFree, Awake, NoStaleWakeup
  <2>3. WaitersAccounted
    BY <2>1 DEF Inductive, LockAccounted, LockFree, SleepersAccounted, Sleeping,
                TypeOK, WaitersAccounted
  <2> QED BY <2>2, <2>3 DEF Inductive, Inv
<1> QED BY <1>1, InitInductive, NextInductive, PTL DEF Spec

=============================================================================
