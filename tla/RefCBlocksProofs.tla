-------------------------- MODULE RefCBlocksProofs --------------------------
(***************************************************************************)
(* What the RefC backend keeps in blocks of memory, proved for any bounds.  *)
(*                                                                         *)
(* Arrays of GC pointers, for any array, any number of locals and          *)
(* finalisers nested to any depth: counters are exact and a pointer that   *)
(* is being finalised cannot be reached, provided that no finaliser uses   *)
(* the slot whose overwriting called it (Touches).  What makes this        *)
(* inductive is Suspended, which says of each overwriting that waits for a *)
(* finaliser what it will find when it goes on.                            *)
(*                                                                         *)
(* Strings and buffers, for bytes, C ints, strings and buffers of any      *)
(* size: strings, lists and iterators read as Idris means them (TextInv),  *)
(* and a buffer gives back what was written into it.  What the recursive   *)
(* functions of the model compute is found by induction over a set of      *)
(* numbers (Upwards, Recursion).                                           *)
(***************************************************************************)
EXTENDS RefCBlocks, FiniteSetTheorems, SequenceTheorems, WellFoundedInduction, TLAPS

(***************************************************************************)
(* Counting places                                                         *)
(***************************************************************************)
One(b) == IF b THEN 1 ELSE 0
Is(a, e) == IF a = e THEN 1 ELSE 0
Value  == Elem \cup {NULL}

\* Of two finite sets that differ at p only, the sizes differ by p.
LEMMA Recount ==
  ASSUME NEW F, NEW G, NEW p, IsFiniteSet(F), IsFiniteSet(G), F \ {p} = G \ {p}
  PROVE  Cardinality(G) = Cardinality(F) - One(p \in F) + One(p \in G)
<1> DEFINE K == F \ {p}
<1>1. IsFiniteSet(K) /\ K = G \ {p} BY FS_RemoveElement
<1>2. Cardinality(F) \in Nat /\ Cardinality(G) \in Nat /\ Cardinality(K) \in Nat
  BY <1>1, FS_CardinalityType
<1>3. Cardinality(K) = Cardinality(F) - One(p \in F)
  <2>1. Cardinality(F \ {p}) = IF p \in F THEN Cardinality(F) - 1 ELSE Cardinality(F)
    BY FS_RemoveElement
  <2> QED BY <2>1, <1>2 DEF One
<1>4. Cardinality(K) = Cardinality(G) - One(p \in G)
  <2>1. Cardinality(G \ {p}) = IF p \in G THEN Cardinality(G) - 1 ELSE Cardinality(G)
    BY FS_RemoveElement
  <2> QED BY <2>1, <1>1, <1>2 DEF One
<1> HIDE DEF K
<1> QED BY <1>2, <1>3, <1>4 DEF One

Local == (0..MaxDepth) \X Var

\* There are finitely many slots and locals.
LEMMA PlacesFinite ==
  /\ IsFiniteSet(Local)
  /\ Cardinality(Local) = (MaxDepth + 1) * Cardinality(Var)
  /\ Cardinality(Index) \in Nat /\ Cardinality(Var) \in Nat
<1>1. IsFiniteSet(0..MaxDepth) /\ Cardinality(0..MaxDepth) = MaxDepth + 1
  BY FS_Interval, ArrayAssumption
<1> QED BY <1>1, FS_Product, FS_CardinalityType, ArrayAssumption DEF Local

Most == Cardinality(Index) + (MaxDepth + 1) * Cardinality(Var)

\* Sets of places are finite, and no larger than the sum of all.
LEMMA SomePlaces ==
  ASSUME NEW S \in SUBSET Index, NEW H \in SUBSET Local
  PROVE  /\ IsFiniteSet(S) /\ IsFiniteSet(H)
         /\ Cardinality(S) \in Nat /\ Cardinality(H) \in Nat
         /\ Most \in Nat /\ Cardinality(S) + Cardinality(H) \in 0..Most
<1>1. /\ IsFiniteSet(S) /\ Cardinality(S) <= Cardinality(Index)
      /\ IsFiniteSet(H) /\ Cardinality(H) <= Cardinality(Local)
  BY FS_Subset, PlacesFinite, ArrayAssumption
<1>2. Cardinality(S) \in Nat /\ Cardinality(H) \in Nat /\ Cardinality(Local) \in Nat
  BY <1>1, PlacesFinite, FS_CardinalityType
<1> QED BY <1>1, <1>2, PlacesFinite DEF Most

\* Counts of owners are numbers, no larger than the number of places.
LEMMA OwnersType ==
  ASSUME NEW e
  PROVE  /\ IsFiniteSet(Slots(e)) /\ IsFiniteSet(Holders(e))
         /\ Cardinality(Slots(e)) \in Nat /\ Cardinality(Holders(e)) \in Nat
         /\ Owners(e) \in 0..Most /\ Owners(e) \in Int /\ Most \in Nat
<1>1. Slots(e) \subseteq Index /\ Holders(e) \subseteq Local BY DEF Slots, Holders, Local
<1>2. Owners(e) \in 0..Most /\ Most \in Nat BY <1>1, SomePlaces DEF Owners
<1> QED BY <1>1, <1>2, SomePlaces

LEMMA OwnersNext == ASSUME NEW e PROVE Owners(e)' \in 0..Most
<1>1. Slots(e)' \subseteq Index /\ Holders(e)' \subseteq Local BY DEF Slots, Holders, Local
<1> QED BY <1>1, SomePlaces DEF Owners

\* With one owner, who is known, there is no other.
LEMMA OnlySlot ==
  ASSUME NEW e, NEW i \in Index, arr[i] = e, Owners(e) = 1
  PROVE  Slots(e) = {i} /\ Holders(e) = {}
<1>1. i \in Slots(e) BY DEF Slots
<1>2. Cardinality(Slots(e) \ {i}) = Cardinality(Slots(e)) - 1
  BY <1>1, OwnersType, FS_RemoveElement
<1>3. IsFiniteSet(Slots(e) \ {i}) /\ Cardinality(Slots(e) \ {i}) \in Nat
  BY OwnersType, FS_RemoveElement, FS_CardinalityType
<1>4. Cardinality(Slots(e) \ {i}) = 0 /\ Cardinality(Holders(e)) = 0
  BY <1>2, <1>3, OwnersType DEF Owners
<1> QED BY <1>1, <1>3, <1>4, OwnersType, FS_EmptySet

LEMMA OnlyLocal ==
  ASSUME NEW e, NEW p \in Holders(e), Owners(e) = 1
  PROVE  Slots(e) = {} /\ Holders(e) = {p}
<1>2. Cardinality(Holders(e) \ {p}) = Cardinality(Holders(e)) - 1
  BY OwnersType, FS_RemoveElement
<1>3. IsFiniteSet(Holders(e) \ {p}) /\ Cardinality(Holders(e) \ {p}) \in Nat
  BY OwnersType, FS_RemoveElement, FS_CardinalityType
<1>4. Cardinality(Holders(e) \ {p}) = 0 /\ Cardinality(Slots(e)) = 0
  BY <1>2, <1>3, OwnersType DEF Owners
<1> QED BY <1>3, <1>4, OwnersType, FS_EmptySet

\* What is held somewhere has an owner.
LEMMA HeldIsOwned ==
  ASSUME NEW e, Slots(e) # {} \/ Holders(e) # {}
  PROVE  Owners(e) >= 1
<1>1. Cardinality(Slots(e)) # 0 \/ Cardinality(Holders(e)) # 0
  BY OwnersType, FS_EmptySet
<1> QED BY <1>1, OwnersType DEF Owners

PutSlot(i, b)     == [arr EXCEPT ![i] = b]
PutLocal(d, x, b) == [local EXCEPT ![d][x] = b]

\* Storing b in slot i, over a.
LEMMA SlotMoves ==
  ASSUME NEW i \in Index, NEW b \in Value, arr \in [Index -> Value],
         arr' = PutSlot(i, b), local' = local
  PROVE  \A e : Owners(e)' = Owners(e) - Is(arr[i], e) + Is(b, e)
<1> SUFFICES ASSUME NEW e PROVE Owners(e)' = Owners(e) - Is(arr[i], e) + Is(b, e)
  OBVIOUS
<1> DEFINE F == Slots(e)
           G == Slots(e)'
<1>1. (i \in F <=> arr[i] = e) /\ (i \in G <=> b = e) /\ F \ {i} = G \ {i}
  BY DEF Slots, PutSlot
<1>2. IsFiniteSet(F) /\ IsFiniteSet(G)
  <2>1. F \subseteq Index /\ G \subseteq Index BY DEF Slots
  <2> QED BY <2>1, FS_Subset, ArrayAssumption
<1>3. Cardinality(G) = Cardinality(F) - One(i \in F) + One(i \in G)
  <2> HIDE DEF F, G
  <2> QED BY <1>1, <1>2, Recount
<1>4. Cardinality(G) = Cardinality(F) - Is(arr[i], e) + Is(b, e)
  BY <1>1, <1>3 DEF One, Is
<1>5. Cardinality(Holders(e))' = Cardinality(Holders(e)) BY DEF Holders
<1> QED BY <1>4, <1>5, OwnersType DEF Owners, Is

\* Storing b in a local, over what it held.
LEMMA LocalMoves ==
  ASSUME NEW d \in 0..MaxDepth, NEW x \in Var, NEW b \in Value,
         local \in [0..MaxDepth -> [Var -> Value]],
         local' = PutLocal(d, x, b), arr' = arr
  PROVE  \A e : Owners(e)' = Owners(e) - Is(local[d][x], e) + Is(b, e)
<1> SUFFICES ASSUME NEW e PROVE Owners(e)' = Owners(e) - Is(local[d][x], e) + Is(b, e)
  OBVIOUS
<1> DEFINE F == Holders(e)
           G == Holders(e)'
           p == <<d, x>>
<1>1. p \in F <=> local[d][x] = e BY DEF Holders
<1>2. p \in G <=> b = e BY DEF Holders, PutLocal
<1>3. ASSUME NEW q \in Local, q # p PROVE local'[q[1]][q[2]] = local[q[1]][q[2]]
  BY <1>3 DEF Local, PutLocal
<1>4. F \ {p} = G \ {p}
  <2> HIDE DEF p
  <2> QED BY <1>3 DEF Holders, Local
<1>5. IsFiniteSet(F) /\ IsFiniteSet(G)
  <2>1. F \subseteq Local /\ G \subseteq Local BY DEF Holders, Local
  <2> QED BY <2>1, FS_Subset, PlacesFinite
<1>6. Cardinality(G) = Cardinality(F) - One(p \in F) + One(p \in G)
  <2> HIDE DEF F, G, p
  <2> QED BY <1>4, <1>5, Recount
<1>7. Cardinality(G) = Cardinality(F) - Is(local[d][x], e) + Is(b, e)
  BY <1>1, <1>2, <1>6 DEF One, Is
<1>8. Cardinality(Slots(e))' = Cardinality(Slots(e)) BY DEF Slots
<1> QED BY <1>7, <1>8, OwnersType DEF Owners, Is

(***************************************************************************)
(* The invariant                                                           *)
(***************************************************************************)
\* What an overwriting that waits for a finaliser will find: the finalised
\* element still in its slot and nowhere else, and the new one still held by the
\* program that called it.
Suspended ==
  \A k \in DOMAIN frames :
    LET f == frames[k] IN
    /\ \A j \in DOMAIN frames : frames[j].elem = f.elem => j = k
    /\ \A i \in Index : arr[i] = f.elem <=> i = f.idx
    /\ f.val # NULL => f.idx # NULL /\ \E x \in Var : local[k - 1][x] = f.val

\* Somebody called the finaliser.
Called == frames # <<>> => Var # {}

ArraysInv == TypeOK /\ CountExact /\ FinalisedIsInaccessible /\ Suspended /\ Called

LEMMA ArrayTypes ==
  ASSUME TypeOK
  PROVE  /\ arr \in [Index -> Value] /\ rc \in [Elem -> 0..Most]
         /\ local \in [0..MaxDepth -> [Var -> Value]]
         /\ frames \in Seq(Frame) /\ Level \in 0..MaxDepth /\ DOMAIN frames = 1..Level
         /\ \A x \in Var : Mine(x) \in Value
         /\ \A k \in 1..Level : /\ frames[k].elem \in Elem /\ frames[k].idx \in Index \cup {NULL}
                                /\ frames[k].val \in Value
<1>1. frames \in Seq(Frame) /\ Level \in Nat /\ Level <= MaxDepth /\ DOMAIN frames = 1..Level
  BY DEF TypeOK, Level
<1>2. Level \in 0..MaxDepth BY <1>1, ArrayAssumption
<1>3. \A k \in 1..Level : frames[k] \in Frame BY <1>1
<1>4. \A k \in 1..Level : /\ frames[k].elem \in Elem /\ frames[k].idx \in Index \cup {NULL}
                          /\ frames[k].val \in Value
  BY <1>3 DEF Frame, Value
<1> QED BY <1>1, <1>2, <1>4 DEF TypeOK, Value, Mine, Most

\* A step that moves one reference from a to b, neither of them being finalised,
\* keeps the counters right.
LEMMA Balanced ==
  ASSUME TypeOK, CountExact, frames' = frames,
         NEW a \in Value, NEW b \in Value, a \notin Dying, b \notin Dying,
         \A e \in Elem : rc'[e] = rc[e] - Is(a, e) + Is(b, e),
         rc' \in [Elem -> Int],
         \A e : Owners(e)' = Owners(e) - Is(a, e) + Is(b, e)
  PROVE  CountExact' /\ rc' \in [Elem -> 0..Most]
<1>1. \A e \in Elem : e \notin Dying => rc'[e] = Owners(e)'
  BY OwnersType DEF CountExact
<1>2. ASSUME NEW e \in Elem, e \in Dying PROVE rc'[e] = 1
  <2>1. rc[e] = 1 BY <1>2 DEF CountExact
  <2>2. Is(a, e) = 0 /\ Is(b, e) = 0 BY <1>2 DEF Is
  <2> QED BY <2>1, <2>2
<1>3. Dying' = Dying BY DEF Dying
<1>4. ASSUME NEW e \in Elem PROVE rc'[e] \in 0..Most
  <2>1. CASE e \notin Dying BY <2>1, <1>1, OwnersNext
  <2>2. CASE e \in Dying
    <3>1. rc[e] = 1 /\ rc[e] \in 0..Most BY <2>2, ArrayTypes DEF CountExact
    <3> QED BY <3>1, <2>2, <1>2
  <2> QED BY <2>1, <2>2
<1> QED BY <1>1, <1>2, <1>3, <1>4 DEF CountExact

\* The program at the top changes one of its locals to something that is not
\* being finalised: those below do not notice.
LEMMA TopLocal ==
  ASSUME ArraysInv, frames' = frames, arr' = arr, NEW x \in Var, NEW b \in Value, b \notin Dying,
         local' = [local EXCEPT ![Level][x] = b]
  PROVE  Suspended' /\ FinalisedIsInaccessible' /\ Called'
<1>1. /\ local \in [0..MaxDepth -> [Var -> Value]] /\ Level \in 0..MaxDepth /\ DOMAIN frames = 1..Level
  BY ArrayTypes DEF ArraysInv
<1>2. \A k \in DOMAIN frames : local'[k - 1] = local[k - 1]
  BY <1>1, ArrayAssumption
<1>3. Suspended' BY <1>2 DEF ArraysInv, Suspended
<1>4. Dying' = Dying BY DEF Dying
<1>5. FinalisedIsInaccessible' BY <1>1, <1>4 DEF ArraysInv, FinalisedIsInaccessible
<1> QED BY <1>3, <1>5 DEF ArraysInv, Called

\* What the counter, or the guard on slots in use, says of an element.
LEMMA NotDying ==
  ASSUME ArraysInv
  PROVE  /\ \A e \in Elem : rc[e] # 1 => e \notin Dying
         /\ \A x \in Var : Mine(x) \notin Dying
         /\ NULL \notin Dying
         /\ ~Touches => \A i \in Index : Usable(i) => arr[i] \notin Dying
<1>1. \A e \in Elem : rc[e] # 1 => e \notin Dying BY DEF ArraysInv, CountExact
<1>2. \A x \in Var : Mine(x) \notin Dying
  BY ArrayTypes DEF ArraysInv, FinalisedIsInaccessible, Mine
<1>3. NULL \notin Dying BY ArrayTypes, ArrayAssumption DEF ArraysInv, Dying
<1>4. ASSUME ~Touches, NEW i \in Index, Usable(i) PROVE arr[i] \notin Dying
  <2>1. \A k \in DOMAIN frames : frames[k].idx # i BY <1>4 DEF Usable
  <2> QED BY <2>1 DEF ArraysInv, Suspended, Dying
<1> QED BY <1>1, <1>2, <1>3, <1>4

(***************************************************************************)
(* Steps that call no finaliser                                            *)
(***************************************************************************)
LEMMA OnCollectKeeps ==
  ASSUME ArraysInv, NEW x \in Var, NEW e \in Elem, OnCollect(x, e)
  PROVE  ArraysInv'
<1>0. /\ arr \in [Index -> Value] /\ rc \in [Elem -> 0..Most]
      /\ local \in [0..MaxDepth -> [Var -> Value]] /\ Level \in 0..MaxDepth
  BY ArrayTypes DEF ArraysInv
<1>1. /\ local[Level][x] = NULL /\ rc[e] = 0 /\ rc' = [rc EXCEPT ![e] = 1]
      /\ local' = [local EXCEPT ![Level][x] = e] /\ arr' = arr /\ frames' = frames
  BY DEF OnCollect, Mine
<1>2. e \in Value /\ NULL \in Value /\ NULL \notin Elem BY ArrayAssumption DEF Value
<1>3. e \notin Dying /\ NULL \notin Dying BY <1>1, NotDying
<1>4. \A f : Owners(f)' = Owners(f) - Is(NULL, f) + Is(e, f)
  <2>1. local' = PutLocal(Level, x, e) BY <1>1 DEF PutLocal
  <2>2. \A f : Owners(f)' = Owners(f) - Is(local[Level][x], f) + Is(e, f)
    BY <2>1, <1>0, <1>1, <1>2, LocalMoves
  <2> QED BY <2>2, <1>1
<1>5. rc' \in [Elem -> Int] /\ \A f \in Elem : rc'[f] = rc[f] - Is(NULL, f) + Is(e, f)
  BY <1>0, <1>1, <1>2 DEF Is
<1>6. CountExact' /\ rc' \in [Elem -> 0..Most]
  BY <1>1, <1>2, <1>3, <1>4, <1>5, Balanced DEF ArraysInv
<1>7. TypeOK' BY <1>0, <1>1, <1>2, <1>6 DEF ArraysInv, TypeOK, Value, Level, Most
<1> QED BY <1>1, <1>2, <1>3, <1>6, <1>7, TopLocal DEF ArraysInv

LEMMA ArrayGetKeeps ==
  ASSUME ~Touches, ArraysInv, NEW x \in Var, NEW i \in Index, ArrayGet(x, i)
  PROVE  ArraysInv'
<1>0. /\ arr \in [Index -> Value] /\ rc \in [Elem -> 0..Most]
      /\ local \in [0..MaxDepth -> [Var -> Value]] /\ Level \in 0..MaxDepth
  BY ArrayTypes DEF ArraysInv
<1> DEFINE e == arr[i]
<1>1. /\ local[Level][x] = NULL /\ rc' = [rc EXCEPT ![e] = @ + 1] /\ e # NULL /\ Usable(i)
      /\ local' = [local EXCEPT ![Level][x] = e] /\ arr' = arr /\ frames' = frames
  BY DEF ArrayGet, Mine, Incr
<1>2. e \in Value /\ e \in Elem /\ NULL \in Value /\ NULL \notin Elem
  BY <1>0, <1>1, ArrayAssumption DEF Value
<1>3. e \notin Dying /\ NULL \notin Dying BY <1>1, NotDying
<1> HIDE DEF e
<1>4. \A f : Owners(f)' = Owners(f) - Is(NULL, f) + Is(e, f)
  <2>1. local' = PutLocal(Level, x, e) BY <1>1 DEF PutLocal
  <2>2. \A f : Owners(f)' = Owners(f) - Is(local[Level][x], f) + Is(e, f)
    BY <2>1, <1>0, <1>1, <1>2, LocalMoves
  <2> QED BY <2>2, <1>1
<1>5. rc' \in [Elem -> Int] /\ \A f \in Elem : rc'[f] = rc[f] - Is(NULL, f) + Is(e, f)
  BY <1>0, <1>1, <1>2 DEF Is
<1>6. CountExact' /\ rc' \in [Elem -> 0..Most]
  BY <1>1, <1>2, <1>3, <1>4, <1>5, Balanced DEF ArraysInv
<1>7. TypeOK' BY <1>0, <1>1, <1>2, <1>6 DEF ArraysInv, TypeOK, Value, Level, Most
<1> QED BY <1>1, <1>2, <1>3, <1>6, <1>7, TopLocal DEF ArraysInv

LEMMA DropKeeps ==
  ASSUME ArraysInv, NEW x \in Var, Mine(x) # NULL, ~LastReference(Mine(x)),
         local' = [local EXCEPT ![Level][x] = NULL], rc' = Decr(rc, Mine(x)),
         frames' = frames, arr' = arr
  PROVE  ArraysInv'
<1>0. /\ arr \in [Index -> Value] /\ rc \in [Elem -> 0..Most]
      /\ local \in [0..MaxDepth -> [Var -> Value]] /\ Level \in 0..MaxDepth
      /\ Mine(x) \in Value
  BY ArrayTypes DEF ArraysInv
<1> DEFINE a == Mine(x)
<1>1. rc' = [rc EXCEPT ![a] = @ - 1] /\ a # NULL /\ local[Level][x] = a BY DEF Decr, Mine
<1>2. a \in Value /\ a \in Elem /\ NULL \in Value /\ NULL \notin Elem
  BY <1>0, ArrayAssumption DEF Value
<1>3. a \notin Dying /\ NULL \notin Dying BY NotDying
<1> HIDE DEF a
<1>4. \A f : Owners(f)' = Owners(f) - Is(a, f) + Is(NULL, f)
  <2>1. local' = PutLocal(Level, x, NULL) BY <1>1 DEF PutLocal
  <2>2. \A f : Owners(f)' = Owners(f) - Is(local[Level][x], f) + Is(NULL, f)
    BY <2>1, <1>0, <1>2, LocalMoves
  <2> QED BY <2>2, <1>1
<1>5. rc' \in [Elem -> Int] /\ \A f \in Elem : rc'[f] = rc[f] - Is(a, f) + Is(NULL, f)
  BY <1>0, <1>1, <1>2 DEF Is
<1>6. CountExact' /\ rc' \in [Elem -> 0..Most]
  BY <1>2, <1>3, <1>4, <1>5, Balanced DEF ArraysInv
<1>7. TypeOK' BY <1>0, <1>2, <1>6 DEF ArraysInv, TypeOK, Value, Level, Most
<1> QED BY <1>2, <1>3, <1>6, <1>7, TopLocal DEF ArraysInv

LEMMA OverwriteKeeps ==
  ASSUME ~Touches, ArraysInv, NEW x \in Var, NEW i \in Index, Usable(i),
         arr' = [arr EXCEPT ![i] = Mine(x)], rc' = Incr(Decr(rc, arr[i]), Mine(x)),
         local' = local, frames' = frames
  PROVE  ArraysInv'
<1>0. /\ arr \in [Index -> Value] /\ rc \in [Elem -> 0..Most]
      /\ local \in [0..MaxDepth -> [Var -> Value]] /\ Level \in 0..MaxDepth
      /\ Mine(x) \in Value
  BY ArrayTypes DEF ArraysInv
<1> DEFINE a == arr[i]
           b == Mine(x)
<1>1. a \in Value /\ b \in Value /\ NULL \notin Elem BY <1>0, ArrayAssumption
<1>2. a \notin Dying /\ b \notin Dying BY NotDying
<1>3. rc' = Incr(Decr(rc, a), b) /\ arr[i] = a /\ arr' = [arr EXCEPT ![i] = b] OBVIOUS
<1> HIDE DEF a, b
<1>4. \A f : Owners(f)' = Owners(f) - Is(a, f) + Is(b, f)
  BY <1>0, <1>1, <1>3, SlotMoves DEF PutSlot
<1>5. rc' \in [Elem -> Int] /\ \A f \in Elem : rc'[f] = rc[f] - Is(a, f) + Is(b, f)
  BY <1>0, <1>1, <1>3 DEF Is, Incr, Decr, Value
<1>6. CountExact' /\ rc' \in [Elem -> 0..Most]
  BY <1>1, <1>2, <1>4, <1>5, Balanced DEF ArraysInv
<1>7. TypeOK' BY <1>0, <1>1, <1>3, <1>6 DEF ArraysInv, TypeOK, Value, Level, Most
<1>8. \A k \in DOMAIN frames : frames[k].idx # i BY DEF Usable
<1>9. Suspended'
  BY <1>0, <1>1, <1>2, <1>3, <1>8 DEF ArraysInv, Suspended, Dying
<1>10. FinalisedIsInaccessible' /\ Called'
  BY DEF ArraysInv, FinalisedIsInaccessible, Dying, Called
<1> QED BY <1>6, <1>7, <1>9, <1>10 DEF ArraysInv

(***************************************************************************)
(* Steps that call a finaliser, and its end                                *)
(***************************************************************************)
LEMMA Pushed ==
  ASSUME TypeOK, NEW f \in Frame, Level < MaxDepth, frames' = Append(frames, f)
  PROVE  /\ frames' \in Seq(Frame) /\ Level' = Level + 1 /\ DOMAIN frames' = 1..(Level + 1)
         /\ frames'[Level + 1] = f /\ \A k \in 1..Level : frames'[k] = frames[k]
         /\ Dying' = Dying \cup {f.elem}
<1>1. frames \in Seq(Frame) /\ Level \in Nat /\ DOMAIN frames = 1..Level BY DEF TypeOK, Level
<1>2. /\ frames' \in Seq(Frame) /\ Level' = Level + 1 /\ DOMAIN frames' = 1..(Level + 1)
      /\ frames'[Level + 1] = f /\ \A k \in 1..Level : frames'[k] = frames[k]
  BY <1>1 DEF Level
<1>3. 1..(Level + 1) = (1..Level) \cup {Level + 1} BY <1>1
<1>4. Dying' = Dying \cup {f.elem} BY <1>1, <1>2, <1>3 DEF Dying
<1> QED BY <1>2, <1>4

\* The last reference to e goes out of the program's reach.
LEMMA CallKeeps ==
  ASSUME ArraysInv, NEW x \in Var, NEW e \in Elem, NEW i \in Index \cup {NULL}, NEW v \in Value,
         rc[e] = 1, e \notin Dying, Finalise(e, i, v), arr' = arr, rc' = rc,
         local' \in [0..MaxDepth -> [Var -> Value]],
         \A d \in 0..MaxDepth, y \in Var :
           local'[d][y] # e /\ local'[d][y] \in {local[d][y], NULL},
         \A k \in 1..Level : local'[k - 1] = local[k - 1],
         \A f \in Elem : f # e => Owners(f)' = Owners(f),
         \A j \in Index : arr[j] = e <=> j = i,
         v # NULL => i # NULL /\ local'[Level][x] = v
  PROVE  ArraysInv'
<1> DEFINE new == [elem |-> e, idx |-> i, val |-> v]
<1>0. /\ DOMAIN frames = 1..Level /\ Level \in 0..MaxDepth /\ TypeOK
      /\ \A k \in 1..Level : frames[k].elem \in Dying
  BY ArrayTypes DEF ArraysInv, Dying
<1>1. new \in Frame BY DEF Frame, Value
<1>2. /\ frames' \in Seq(Frame) /\ Level' = Level + 1 /\ DOMAIN frames' = 1..(Level + 1)
      /\ frames'[Level + 1] = new /\ \A k \in 1..Level : frames'[k] = frames[k]
      /\ Dying' = Dying \cup {e} /\ Level < MaxDepth
  <2>1. Level < MaxDepth /\ frames' = Append(frames, new) BY DEF Finalise
  <2>2. new.elem = e OBVIOUS
  <2> HIDE DEF new
  <2> QED BY <2>1, <2>2, <1>0, <1>1, Pushed
<1>3. TypeOK' BY <1>0, <1>2, ArrayAssumption DEF TypeOK, Value
<1>4. CountExact'
  <2> SUFFICES ASSUME NEW f \in Elem PROVE rc'[f] = IF f \in Dying' THEN 1 ELSE Owners(f)'
    BY DEF CountExact
  <2>1. CASE f = e BY <2>1, <1>2
  <2>2. CASE f # e BY <2>2, <1>2 DEF ArraysInv, CountExact
  <2> QED BY <2>1, <2>2
<1>5. FinalisedIsInaccessible'
  <2> SUFFICES ASSUME NEW f \in Dying', NEW d \in 0..MaxDepth, NEW y \in Var
               PROVE local'[d][y] # f
    BY DEF FinalisedIsInaccessible
  <2>1. CASE f = e BY <2>1
  <2>2. CASE f # e
    <3>1. f \in Dying BY <2>2, <1>2
    <3>2. f # NULL BY <3>1, NotDying
    <3> QED BY <3>1, <3>2 DEF ArraysInv, FinalisedIsInaccessible
  <2> QED BY <2>1, <2>2
<1>6. Suspended'
  <2> SUFFICES ASSUME NEW k \in 1..(Level + 1)
               PROVE  LET f == frames'[k] IN
                      /\ \A j \in 1..(Level + 1) : frames'[j].elem = f.elem => j = k
                      /\ \A j \in Index : arr'[j] = f.elem <=> j = f.idx
                      /\ f.val # NULL => f.idx # NULL /\ \E y \in Var : local'[k - 1][y] = f.val
    BY <1>2 DEF Suspended
  <2>1. CASE k = Level + 1
    <3>1. frames'[k] = new BY <2>1, <1>2
    <3>2. \A j \in 1..(Level + 1) : frames'[j].elem = e => j = k
      BY <2>1, <1>0, <1>2
    <3>3. k - 1 = Level BY <2>1, <1>0
    <3> QED BY <3>1, <3>2, <3>3
  <2>2. CASE k # Level + 1
    <3>1. k \in 1..Level /\ frames'[k] = frames[k] BY <2>2, <1>0, <1>2
    <3>2. \A j \in 1..(Level + 1) : frames'[j].elem = frames[k].elem => j = k
      <4>1. frames[k].elem # e BY <3>1, <1>0
      <4>2. frames'[Level + 1].elem = e BY <1>2
      <4>3. \A j \in 1..Level : frames[j].elem = frames[k].elem => j = k
        BY <3>1, <1>0 DEF ArraysInv, Suspended
      <4>4. \A j \in 1..(Level + 1) : j = Level + 1 \/ j \in 1..Level BY <1>0
      <4> QED BY <4>1, <4>2, <4>3, <4>4, <1>2
    <3>3. /\ \A j \in Index : arr[j] = frames[k].elem <=> j = frames[k].idx
          /\ frames[k].val # NULL =>
               frames[k].idx # NULL /\ \E y \in Var : local[k - 1][y] = frames[k].val
      BY <3>1, <1>0 DEF ArraysInv, Suspended
    <3> QED BY <3>1, <3>2, <3>3
  <2> QED BY <2>1, <2>2
<1>7. Called' BY DEF Called
<1> QED BY <1>3, <1>4, <1>5, <1>6, <1>7 DEF ArraysInv

\* arraySet of the last reference.
LEMMA OverwriteCalls ==
  ASSUME ~Touches, ArraysInv, NEW x \in Var, NEW i \in Index, Usable(i), LastReference(arr[i]),
         Finalise(arr[i], i, Mine(x)), UNCHANGED <<arr, rc, local>>
  PROVE  ArraysInv'
<1>0. /\ arr \in [Index -> Value] /\ local \in [0..MaxDepth -> [Var -> Value]]
      /\ Level \in 0..MaxDepth /\ Mine(x) \in Value
  BY ArrayTypes DEF ArraysInv
<1> DEFINE e == arr[i]
           v == Mine(x)
<1>1. e \in Elem /\ rc[e] = 1 /\ e \notin Dying
  BY <1>0, NotDying DEF LastReference, Value
<1>2. Owners(e) = 1 BY <1>1 DEF ArraysInv, CountExact
<1>3. Slots(e) = {i} /\ Holders(e) = {} BY <1>2, OnlySlot
<1>4. \A j \in Index : arr[j] = e <=> j = i BY <1>3 DEF Slots
<1>5. ASSUME NEW d \in 0..MaxDepth, NEW y \in Var PROVE local[d][y] # e
  <2>1. <<d, y>> \notin Holders(e) BY <1>3
  <2> QED BY <2>1 DEF Holders
<1>6. \A f : Owners(f)' = Owners(f) BY DEF Owners, Slots, Holders
<1>7. local[Level][x] = v /\ i # NULL /\ Finalise(e, i, v) BY ArrayAssumption DEF Mine
<1>8. v \in Value BY <1>0
<1> HIDE DEF e, v
<1> QED BY <1>0, <1>1, <1>4, <1>5, <1>6, <1>7, <1>8, CallKeeps

\* removeReference of the last reference.
LEMMA DropCalls ==
  ASSUME ArraysInv, NEW x \in Var, Mine(x) # NULL, LastReference(Mine(x)),
         local' = [local EXCEPT ![Level][x] = NULL],
         Finalise(Mine(x), NULL, NULL), UNCHANGED <<arr, rc>>
  PROVE  ArraysInv'
<1>0. /\ arr \in [Index -> Value] /\ local \in [0..MaxDepth -> [Var -> Value]]
      /\ Level \in 0..MaxDepth /\ Mine(x) \in Value
  BY ArrayTypes DEF ArraysInv
<1> DEFINE e == Mine(x)
           p == <<Level, x>>
<1>1. e \in Elem /\ rc[e] = 1 /\ e \notin Dying /\ local[Level][x] = e
  BY <1>0, NotDying DEF LastReference, Value, Mine
<1>2. Owners(e) = 1 BY <1>1 DEF ArraysInv, CountExact
<1>3. p \in Holders(e) BY <1>0 DEF Holders, Mine
<1>4. Slots(e) = {} /\ Holders(e) = {p}
  <2> HIDE DEF e, p
  <2> QED BY <1>2, <1>3, OnlyLocal
<1>5. \A j \in Index : arr[j] = e <=> j = NULL BY <1>4, ArrayAssumption DEF Slots
<1>6. NULL \in Value /\ NULL \notin Elem BY ArrayAssumption DEF Value
<1>7. local' \in [0..MaxDepth -> [Var -> Value]] BY <1>0, <1>6
<1>8. ASSUME NEW d \in 0..MaxDepth, NEW y \in Var
      PROVE  local'[d][y] # e /\ local'[d][y] \in {local[d][y], NULL}
  <2>1. CASE d = Level /\ y = x BY <2>1, <1>0, <1>1, <1>6
  <2>2. CASE ~(d = Level /\ y = x)
    <3>1. local'[d][y] = local[d][y] BY <2>2, <1>0
    <3>2. <<d, y>> \notin Holders(e) BY <2>2, <1>4
    <3> QED BY <3>1, <3>2 DEF Holders
  <2> QED BY <2>1, <2>2
<1>9. \A k \in 1..Level : local'[k - 1] = local[k - 1] BY <1>0, ArrayAssumption
<1>10. ASSUME NEW f \in Elem, f # e PROVE Owners(f)' = Owners(f)
  <2>1. local' = PutLocal(Level, x, NULL) BY DEF PutLocal
  <2>2. \A g : Owners(g)' = Owners(g) - Is(local[Level][x], g) + Is(NULL, g)
    BY <2>1, <1>0, <1>6, LocalMoves
  <2>3. Is(local[Level][x], f) = 0 /\ Is(NULL, f) = 0 BY <1>1, <1>6, <1>10 DEF Is
  <2> QED BY <2>2, <2>3, OwnersType
<1>11. Finalise(e, NULL, NULL) OBVIOUS
<1> HIDE DEF e, p
<1> QED BY <1>1, <1>5, <1>6, <1>7, <1>8, <1>9, <1>10, <1>11, CallKeeps

LEMMA Popped ==
  ASSUME TypeOK, Suspended, frames # <<>>, frames' = SubSeq(frames, 1, Level - 1)
  PROVE  /\ frames' \in Seq(Frame) /\ Level' = Level - 1 /\ DOMAIN frames' = 1..(Level - 1)
         /\ Level \in 1..MaxDepth /\ \A k \in 1..(Level - 1) : frames'[k] = frames[k]
         /\ Dying' = Dying \ {frames[Level].elem}
<1>1. frames \in Seq(Frame) /\ Level \in Nat /\ DOMAIN frames = 1..Level /\ Level <= MaxDepth
  BY DEF TypeOK, Level
<1>2. Level \in 1..MaxDepth BY <1>1, ArrayAssumption DEF Level
<1>3. /\ frames' \in Seq(Frame) /\ Level' = Level - 1 /\ DOMAIN frames' = 1..(Level - 1)
      /\ \A k \in 1..(Level - 1) : frames'[k] = frames[k]
  BY <1>1, <1>2 DEF Level
<1>4. 1..Level = (1..(Level - 1)) \cup {Level} /\ Level \notin 1..(Level - 1) BY <1>2
<1>5. \A j \in 1..(Level - 1) : frames[j].elem # frames[Level].elem
  BY <1>1, <1>2, <1>4 DEF Suspended
<1>6. Dying' = Dying \ {frames[Level].elem} BY <1>1, <1>3, <1>4, <1>5 DEF Dying
<1> QED BY <1>2, <1>3, <1>6

\* The finaliser returns.
LEMMA FinishKeeps == ASSUME ArraysInv, Finish PROVE ArraysInv'
<1> SUFFICES ASSUME NEW e, NEW i, NEW v, e = frames[Level].elem, i = frames[Level].idx,
                    v = frames[Level].val
             PROVE  ArraysInv'
  OBVIOUS
<1>0. /\ arr \in [Index -> Value] /\ rc \in [Elem -> 0..Most] /\ Level \in 1..MaxDepth
      /\ local \in [0..MaxDepth -> [Var -> Value]] /\ DOMAIN frames = 1..Level /\ MaxDepth \in Nat
      /\ frames' \in Seq(Frame) /\ Level' = Level - 1 /\ DOMAIN frames' = 1..(Level - 1)
      /\ \A k \in 1..(Level - 1) : frames'[k] = frames[k]
      /\ Dying' = Dying \ {e} /\ local' = local
  BY ArrayTypes, Popped, ArrayAssumption DEF ArraysInv, Finish
<1>1. /\ rc' = Incr([rc EXCEPT ![e] = 0], v)
      /\ arr' = IF i = NULL THEN arr ELSE [arr EXCEPT ![i] = v]
  BY DEF Finish
<1>2. e \in Elem /\ i \in Index \cup {NULL} /\ v \in Value /\ e \in Dying
  <2>1. Level \in 1..Level BY <1>0
  <2>2. e \in Elem /\ i \in Index \cup {NULL} /\ v \in Value
    BY <2>1, ArrayTypes DEF ArraysInv
  <2> QED BY <2>1, <2>2, <1>0 DEF Dying
<1>3. /\ \A j \in Index : arr[j] = e <=> j = i
      /\ v # NULL => i # NULL /\ \E x \in Var : local[Level - 1][x] = v
  <2>1. Level \in DOMAIN frames BY <1>0
  <2> QED BY <2>1 DEF ArraysInv, Suspended
<1>4. v \notin Dying
  <2>1. CASE v = NULL BY <2>1, NotDying
  <2>2. CASE v # NULL BY <2>2, <1>0, <1>3 DEF ArraysInv, FinalisedIsInaccessible
  <2> QED BY <2>1, <2>2
<1>5. v # e /\ NULL \notin Elem BY <1>2, <1>4, ArrayAssumption
<1>6. Owners(e)' = 0
  <2>1. Holders(e)' = {}
    BY <1>0, <1>2 DEF ArraysInv, FinalisedIsInaccessible, Holders
  <2>2. Slots(e)' = {} BY <1>0, <1>1, <1>2, <1>3, <1>5, ArrayAssumption DEF Slots
  <2> QED BY <2>1, <2>2, FS_EmptySet DEF Owners
<1>7. ASSUME NEW f \in Elem, f # e PROVE Owners(f)' = Owners(f) + Is(v, f)
  <2>1. CASE i = NULL
    <3>1. v = NULL /\ arr' = arr BY <2>1, <1>1, <1>3
    <3>2. Owners(f)' = Owners(f) BY <3>1, <1>0 DEF Owners, Slots, Holders
    <3> QED BY <3>1, <3>2, <1>5, OwnersType DEF Is
  <2>2. CASE i # NULL
    <3>1. arr' = PutSlot(i, v) /\ i \in Index /\ arr[i] = e
      BY <2>2, <1>1, <1>2, <1>3 DEF PutSlot
    <3>2. \A g : Owners(g)' = Owners(g) - Is(arr[i], g) + Is(v, g)
      BY <3>1, <1>0, <1>2, SlotMoves
    <3>3. Is(arr[i], f) = 0 BY <3>1, <1>7 DEF Is
    <3> QED BY <3>2, <3>3, OwnersType
  <2> QED BY <2>1, <2>2
<1>8. /\ rc' \in [Elem -> Nat] /\ rc'[e] = 0
      /\ \A f \in Elem : f # e => rc'[f] = rc[f] + Is(v, f)
  <2> DEFINE c == [rc EXCEPT ![e] = 0]
  <2>1. /\ c \in [Elem -> Nat] /\ c[e] = 0 /\ \A f \in Elem : f # e => c[f] = rc[f]
        /\ rc' = Incr(c, v)
    BY <1>0, <1>1, <1>2
  <2> HIDE DEF c
  <2>2. CASE v = NULL BY <2>1, <2>2, <1>5, <1>0 DEF Incr, Is
  <2>3. CASE v # NULL
    <3>1. v \in Elem /\ rc' = [c EXCEPT ![v] = @ + 1] BY <2>1, <2>3, <1>2 DEF Incr, Value
    <3> QED BY <2>1, <3>1, <1>5, <1>0, <1>2 DEF Is
  <2> QED BY <2>2, <2>3
<1>9. ASSUME NEW f \in Elem
      PROVE  rc'[f] = (IF f \in Dying' THEN 1 ELSE Owners(f)') /\ rc'[f] \in 0..Most
  <2>1. CASE f = e BY <2>1, <1>0, <1>6, <1>8, OwnersNext
  <2>2. CASE f # e /\ f \in Dying
    <3>1. rc[f] = 1 BY <2>2 DEF ArraysInv, CountExact
    <3>2. Is(v, f) = 0 BY <2>2, <1>4 DEF Is
    <3>3. rc'[f] = 1 /\ rc[f] \in 0..Most BY <3>1, <3>2, <2>2, <1>0, <1>8
    <3> QED BY <3>1, <3>3, <2>2, <1>0
  <2>3. CASE f # e /\ f \notin Dying
    <3>1. rc[f] = Owners(f) BY <2>3 DEF ArraysInv, CountExact
    <3>2. rc'[f] = Owners(f)' BY <3>1, <2>3, <1>7, <1>8
    <3> QED BY <3>2, <2>3, <1>0, OwnersNext
  <2> QED BY <2>1, <2>2, <2>3
<1>10. CountExact' /\ rc' \in [Elem -> 0..Most] BY <1>8, <1>9 DEF CountExact
<1>11. arr' \in [Index -> Value] BY <1>0, <1>1, <1>2
<1>12. TypeOK' BY <1>0, <1>10, <1>11, ArrayAssumption DEF TypeOK, Value, Most
<1>13. FinalisedIsInaccessible' BY <1>0 DEF ArraysInv, FinalisedIsInaccessible
<1>14. Suspended'
  <2> SUFFICES ASSUME NEW k \in DOMAIN frames'
               PROVE  /\ \A j \in DOMAIN frames' : frames'[j].elem = frames'[k].elem => j = k
                      /\ \A j \in Index : arr'[j] = frames'[k].elem <=> j = frames'[k].idx
                      /\ frames'[k].val # NULL =>
                           frames'[k].idx # NULL /\ \E y \in Var : local'[k - 1][y] = frames'[k].val
    BY DEF Suspended
  <2>1. k \in 1..Level /\ k # Level /\ frames'[k] = frames[k] BY <1>0
  <2>2. /\ \A j \in 1..Level : frames[j].elem = frames[k].elem => j = k
        /\ \A j \in Index : arr[j] = frames[k].elem <=> j = frames[k].idx
        /\ frames[k].val # NULL =>
             frames[k].idx # NULL /\ \E y \in Var : local[k - 1][y] = frames[k].val
    BY <2>1, <1>0 DEF ArraysInv, Suspended
  <2>3. \A j \in DOMAIN frames' : j \in 1..Level /\ frames'[j] = frames[j] BY <1>0
  <2>4. frames[k].elem # e /\ frames[k].elem # v
    BY <2>1, <2>2, <1>0, <1>4 DEF Dying
  <2>5. \A j \in Index : arr'[j] = frames[k].elem <=> j = frames[k].idx
    BY <2>2, <2>4, <1>0, <1>1, <1>2, <1>3
  <2> QED BY <2>1, <2>2, <2>3, <2>5, <1>0
<1>15. Called' BY DEF ArraysInv, Called, Finish
<1> QED BY <1>10, <1>12, <1>13, <1>14, <1>15 DEF ArraysInv

LEMMA ArraysStep == ~Touches /\ ArraysInv /\ [Next]_vars => ArraysInv'
<1> SUFFICES ASSUME ~Touches, ArraysInv, [Next]_vars PROVE ArraysInv'
  OBVIOUS
<1>1. ASSUME NEW x \in Var, RemoveReference(x) PROVE ArraysInv'
  BY <1>1, DropKeeps, DropCalls DEF RemoveReference
<1>2. ASSUME NEW x \in Var, NEW i \in Index, ArraySet(x, i) PROVE ArraysInv'
  BY <1>2, OverwriteKeeps, OverwriteCalls DEF ArraySet
<1>3. CASE UNCHANGED vars
  BY <1>3 DEF vars, ArraysInv, TypeOK, Level, CountExact, Dying, Owners, Slots, Holders,
              FinalisedIsInaccessible, Suspended, Called
<1> QED BY <1>1, <1>2, <1>3, FinishKeeps, OnCollectKeeps, ArrayGetKeeps DEF Next

LEMMA ArraysStart == Init => ArraysInv
<1> SUFFICES ASSUME Init PROVE ArraysInv
  OBVIOUS
<1>1. frames = <<>> /\ DOMAIN frames = {} /\ Level = 0 BY DEF Init, Level
<1>2. Dying = {} BY <1>1 DEF Dying
<1>3. \A e \in Elem : Owners(e) = 0
  <2> SUFFICES ASSUME NEW e \in Elem PROVE Owners(e) = 0
    OBVIOUS
  <2>1. Slots(e) = {} /\ Holders(e) = {} BY ArrayAssumption DEF Init, Slots, Holders
  <2> QED BY <2>1, FS_EmptySet DEF Owners
<1>4. CountExact BY <1>2, <1>3 DEF Init, CountExact
<1>5. 0 \in 0..Most BY OwnersType
<1>6. rc \in [Elem -> 0..Most] BY <1>5 DEF Init
<1>7. TypeOK BY <1>1, <1>6, ArrayAssumption DEF Init, TypeOK, Most
<1> QED BY <1>1, <1>2, <1>4, <1>7 DEF ArraysInv, FinalisedIsInaccessible, Suspended, Called

\* A program that uses no array leaves the arrays alone.
LEMMA ArraysHold == ~Touches => (BlocksSpec => []ArraysInv)
<1> SUFFICES ASSUME ~Touches PROVE BlocksSpec => []ArraysInv
  OBVIOUS
<1>1. BlocksInit => ArraysInv BY ArraysStart DEF BlocksInit
<1>2. ArraysInv /\ [BlocksNext]_<<vars, text>> => ArraysInv'
  <2>1. [BlocksNext]_<<vars, text>> => [Next]_vars BY DEF BlocksNext
  <2> QED BY <2>1, ArraysStep
<1> QED BY <1>1, <1>2, PTL DEF BlocksSpec

\* As long as finalisers leave the slots alone whose overwriting called them, the
\* counter of every element is the number of slots and locals that hold it
\* (arrayGet, arraySet, removeReference).
THEOREM ArraysAreCounted == ~Touches => (BlocksSpec => []Inv)
<1>1. ArraysInv => Inv BY DEF ArraysInv, Inv
<1> QED BY <1>1, ArraysHold, PTL

\* Then no program that runs in or after a finaliser has the pointer that is
\* being finalised (onCollect, as ffi.rst promises).
THEOREM FinalisedStaysAway == ~Touches => (BlocksSpec => []FinalisedIsInaccessible)
<1>1. ArraysInv => FinalisedIsInaccessible BY DEF ArraysInv
<1> QED BY <1>1, ArraysHold, PTL

Cell == Text!Char \cup {Byte}

(***************************************************************************)
(* Strings and buffers: induction over a set of numbers                    *)
(***************************************************************************)
\* The least of a set of numbers.
LEMMA LeastNumber ==
  ASSUME NEW T, T \subseteq Nat, T # {}
  PROVE  \E x \in T : \A y \in T : x <= y
<1>1. PICK x \in T : \A y \in T : ~ (<<y, x>> \in OpToRel(<, Nat))
  BY NatLessThanWellFounded, WFMin
<1>2. \A y \in T : ~(y < x)
  BY <1>1 DEF OpToRel
<1> QED
  BY <1>2

\* Induction, for a set of numbers that is at hand.
LEMMA Upwards ==
  ASSUME NEW T, T \subseteq Nat, 0 \in T, \A n \in T : n + 1 \in T
  PROVE  Nat \subseteq T
<1> SUFFICES ASSUME Nat \ T # {} PROVE FALSE
  OBVIOUS
<1>1. PICK x \in Nat \ T : \A y \in Nat \ T : x <= y
  BY LeastNumber, Nat \ T \subseteq Nat
<1>2. x # 0 /\ x - 1 \in Nat
  OBVIOUS
<1>3. x - 1 \in T
  BY <1>1, <1>2
<1> QED
  BY <1>2, <1>3

(***************************************************************************)
(* Memory                                                                  *)
(***************************************************************************)
LEMMA Bytes == /\ Byte \in Nat /\ Byte > 1 /\ Text!NUL = 0 /\ 0 \in Text!Char
               /\ Text!Char \subseteq Cell /\ Byte \in Cell
  BY TextConstants DEF Text!TextAssumption, Text!NUL, Text!Char, Cell

\* What malloc and the clearing of a block leave.
LEMMA Fresh ==
  ASSUME NEW n \in Nat
  PROVE  /\ Text!Malloc(n) \in Seq(Cell) /\ Len(Text!Malloc(n)) = n
         /\ Text!Zeroed(n) \in Seq(Text!Char) /\ Len(Text!Zeroed(n)) = n
         /\ \A i \in 1..n : Text!Zeroed(n)[i] = 0
<1>1. Text!Malloc(n) \in [1..n -> Cell]
  BY Bytes DEF Text!Malloc, Text!Junk
<1>2. Text!Zeroed(n) \in [1..n -> Text!Char]
  BY Bytes DEF Text!Zeroed
<1> QED
  BY <1>1, <1>2 DEF Text!Zeroed

\* memcpy changes the bytes at its offset and no other.
LEMMA Placed ==
  ASSUME NEW S, NEW b \in Seq(S), NEW bytes \in Seq(S), NEW off \in Nat,
         off + Len(bytes) <= Len(b)
  PROVE  /\ Text!Place(b, off, bytes) \in Seq(S)
         /\ Len(Text!Place(b, off, bytes)) = Len(b)
         /\ \A i \in 1..Len(b) :
              Text!Place(b, off, bytes)[i] =
                IF off < i /\ i <= off + Len(bytes) THEN bytes[i - off] ELSE b[i]
<1> DEFINE r == [i \in 1..Len(b) |->
                   IF i \in off + 1 .. off + Len(bytes) THEN bytes[i - off] ELSE b[i]]
<1>1. Len(b) \in Nat /\ Len(bytes) \in Nat /\ DOMAIN b = 1..Len(b)
  OBVIOUS
<1>2. Text!Place(b, off, bytes) = r
  BY <1>1 DEF Text!Place
<1>3. r \in [1..Len(b) -> S]
  <2> SUFFICES ASSUME NEW i \in 1..Len(b)
               PROVE  (IF i \in off + 1 .. off + Len(bytes) THEN bytes[i - off] ELSE b[i]) \in S
    OBVIOUS
  <2>1. i \in off + 1 .. off + Len(bytes) => i - off \in 1..Len(bytes)
    BY <1>1
  <2> QED
    BY <2>1
<1>4. r \in Seq(S) /\ Len(r) = Len(b)
  BY <1>1, <1>3
<1>5. \A i \in 1..Len(b) :
        r[i] = IF off < i /\ i <= off + Len(bytes) THEN bytes[i - off] ELSE b[i]
  BY <1>1
<1> QED
  BY <1>2, <1>4, <1>5

\* A piece of a block.
LEMMA Taken ==
  ASSUME NEW S, NEW b \in Seq(S), NEW off \in Nat, NEW n \in Nat, off + n <= Len(b)
  PROVE  /\ Text!From(b, off, n) \in Seq(S) /\ Len(Text!From(b, off, n)) = n
         /\ \A i \in 1..n : Text!From(b, off, n)[i] = b[off + i]
  BY DEF Text!From

(***************************************************************************)
(* C strings                                                               *)
(***************************************************************************)

\* strlen finds the first NUL, and nothing else is meant by its result.
LEMMA StrLenIs ==
  ASSUME NEW S, NEW b \in Seq(S), NEW n \in 0 .. Len(b) - 1,
         b[n + 1] = 0, \A i \in 1..n : b[i] # 0
  PROVE  Text!StrLen(b) = n /\ Text!Ends(b)
<1>1. Len(b) \in Nat /\ DOMAIN b = 1..Len(b) /\ n + 1 \in 1..Len(b)
  OBVIOUS
<1>2. \A m \in 0 .. Len(b) - 1 : b[m + 1] = 0 /\ (\A i \in 1..m : b[i] # 0) => m = n
  <2> SUFFICES ASSUME NEW m \in 0 .. Len(b) - 1, b[m + 1] = 0, \A i \in 1..m : b[i] # 0, m # n
               PROVE  FALSE
    OBVIOUS
  <2>1. CASE m < n
    BY <2>1
  <2>2. CASE n < m
    BY <2>2
  <2> QED
    BY <2>1, <2>2
<1> QED
  BY <1>1, <1>2, Bytes DEF Text!StrLen, Text!Ends

\* A block with a NUL has a length, the place of its first NUL.
LEMMA StrLenType ==
  ASSUME NEW S, NEW b \in Seq(S), Text!Ends(b)
  PROVE  /\ Text!StrLen(b) \in 0 .. Len(b) - 1 /\ b[Text!StrLen(b) + 1] = 0
         /\ \A i \in 1..Text!StrLen(b) : b[i] # 0
         /\ Text!StrLen(b) \in Nat /\ Len(b) \in Nat
<1> DEFINE T == {m \in 0 .. Len(b) - 1 : b[m + 1] = 0}
<1>0. Len(b) \in Nat /\ DOMAIN b = 1..Len(b)
  OBVIOUS
<1>1. T # {} /\ T \subseteq Nat
  <2>1. PICK i \in 1..Len(b) : b[i] = 0
    BY <1>0, Bytes DEF Text!Ends
  <2>2. i - 1 \in 0 .. Len(b) - 1 /\ (i - 1) + 1 = i
    BY <2>1, <1>0
  <2>3. i - 1 \in T
    BY <2>1, <2>2
  <2>4. T \subseteq Nat
    BY <1>0
  <2> QED
    BY ONLY <2>3, <2>4
<1>2. PICK n \in T : \A m \in T : n <= m
  BY ONLY <1>1, LeastNumber
<1>3. \A i \in 1..n : b[i] # 0
  <2> SUFFICES ASSUME NEW i \in 1..n, b[i] = 0 PROVE FALSE
    OBVIOUS
  <2>1. i - 1 \in 0 .. Len(b) - 1 /\ b[i - 1 + 1] = 0
    BY <1>0
  <2> QED
    BY <2>1, <1>2
<1>4. n \in 0 .. Len(b) - 1 /\ b[n + 1] = 0
  BY <1>2
<1>5. Text!StrLen(b) = n
  BY <1>3, <1>4, StrLenIs
<1> QED
  BY <1>0, <1>3, <1>4, <1>5

\* The text of a block is what lies before its first NUL.
LEMMA CStringIs ==
  ASSUME NEW S, NEW b \in Seq(S), Text!Ends(b)
  PROVE  /\ Text!CString(b) \in Seq(S) /\ Len(Text!CString(b)) = Text!StrLen(b)
         /\ \A i \in 1..Text!StrLen(b) : Text!CString(b)[i] = b[i] /\ b[i] # 0
<1>1. Text!StrLen(b) \in Nat /\ 0 + Text!StrLen(b) <= Len(b) /\ \A i \in 1..Text!StrLen(b) : b[i] # 0
  BY StrLenType
<1>2. /\ Text!From(b, 0, Text!StrLen(b)) \in Seq(S) /\ Len(Text!From(b, 0, Text!StrLen(b))) = Text!StrLen(b)
      /\ \A i \in 1..Text!StrLen(b) : Text!From(b, 0, Text!StrLen(b))[i] = b[0 + i]
  <2> DEFINE n == Text!StrLen(b)
  <2> HIDE DEF n
  <2>1. n \in Nat /\ 0 + n <= Len(b)
    BY <1>1 DEF n
  <2>2. /\ Text!From(b, 0, n) \in Seq(S) /\ Len(Text!From(b, 0, n)) = n
        /\ \A i \in 1..n : Text!From(b, 0, n)[i] = b[0 + i]
    BY <2>1, Taken
  <2> QED
    BY <2>2 DEF n
<1> QED
  BY <1>1, <1>2 DEF Text!CString

\* A block holds text t: t comes first, then a NUL.
Holds(b, t) == b \in Seq(Text!Char) /\ Text!Ends(b) /\ Text!CString(b) = t

\* A text without NUL that is followed by one is the text of its block.
LEMMA Reads ==
  ASSUME NEW b \in Seq(Text!Char), NEW S, NEW t \in Seq(S), Len(t) < Len(b), b[Len(t) + 1] = 0,
         \A i \in 1..Len(t) : b[i] = t[i] /\ t[i] # 0
  PROVE  Holds(b, t)
<1>1. Len(t) \in 0 .. Len(b) - 1
  OBVIOUS
<1>2. Text!StrLen(b) = Len(t) /\ Text!Ends(b)
  BY <1>1, StrLenIs
<1>3. /\ Text!CString(b) \in Seq(Text!Char) /\ Len(Text!CString(b)) = Len(t)
      /\ \A i \in 1..Len(t) : Text!CString(b)[i] = t[i]
  BY <1>2, CStringIs
<1> QED
  BY <1>2, <1>3 DEF Holds


\* What it means that a block holds a text.
LEMMA HoldsWhat ==
  ASSUME NEW b, NEW t, Holds(b, t)
  PROVE  /\ b \in Seq(Text!Char) /\ Text!Ends(b) /\ Text!CString(b) = t
         /\ t \in Seq(Text!Char) /\ Len(t) \in Nat /\ Text!StrLen(b) = Len(t)
         /\ Len(b) \in Nat /\ Len(t) < Len(b) /\ b[Len(t) + 1] = 0
         /\ \A i \in 1..Len(t) : b[i] = t[i] /\ t[i] # 0
<1>1. b \in Seq(Text!Char) /\ Text!Ends(b) /\ Text!CString(b) = t
  BY DEF Holds
<1>2. /\ t \in Seq(Text!Char) /\ Len(t) = Text!StrLen(b)
      /\ \A i \in 1..Text!StrLen(b) : t[i] = b[i] /\ b[i] # 0
  BY <1>1, CStringIs
<1>3. /\ Text!StrLen(b) \in 0 .. Len(b) - 1 /\ b[Text!StrLen(b) + 1] = 0
      /\ Text!StrLen(b) \in Nat /\ Len(b) \in Nat
  BY <1>1, StrLenType
<1> QED
  BY <1>1, <1>2, <1>3

(***************************************************************************)
(* What the operations make                                                *)
(***************************************************************************)

\* A copy of a string holds the same text (idris2_mkString).
LEMMA MkStringHolds ==
  ASSUME NEW s, NEW t, Holds(s, t)
  PROVE  Holds(Text!MkString(s), t)
<1> DEFINE z == Text!Zeroed(Len(t) + 1)
           r == Text!Place(z, 0, t)
<1>1. t \in Seq(Text!Char) /\ Len(t) \in Nat /\ \A i \in 1..Len(t) : t[i] # 0
  BY HoldsWhat
<1>2. Text!MkString(s) = r
  BY HoldsWhat DEF Text!MkString
<1>3. /\ z \in Seq(Text!Char) /\ Len(z) = Len(t) + 1 /\ \A i \in 1..Len(t) + 1 : z[i] = 0
  BY <1>1, Fresh
<1> HIDE DEF z
<1>4. /\ r \in Seq(Text!Char) /\ Len(r) = Len(z)
      /\ \A i \in 1..Len(z) : r[i] = IF 0 < i /\ i <= 0 + Len(t) THEN t[i - 0] ELSE z[i]
  BY <1>1, <1>3, Placed
<1> HIDE DEF r
<1>5. /\ \A i \in 1..Len(t) : r[i] = t[i] /\ t[i] # 0
      /\ r[Len(t) + 1] = 0 /\ Len(t) < Len(r)
  BY <1>1, <1>3, <1>4
<1> QED
  BY <1>1, <1>2, <1>4, <1>5, Reads

\* A block that starts with a NUL holds the empty text.
LEMMA EmptyHolds ==
  ASSUME NEW b \in Seq(Text!Char), 0 < Len(b), b[1] = 0
  PROVE  Holds(b, <<>>)
<1> DEFINE e == <<>>
<1>1. e \in Seq(Text!Char) /\ Len(e) = 0
  OBVIOUS
<1> HIDE DEF e
<1>2. b[Len(e) + 1] = 0 /\ Len(e) < Len(b) /\ \A i \in 1..Len(e) : b[i] = e[i] /\ e[i] # 0
  BY <1>1
<1>3. Holds(b, e)
  BY <1>1, <1>2, Reads
<1> QED
  BY <1>3 DEF e

LEMMA ZeroHolds == Holds(Text!Zeroed(1), <<>>)
<1> DEFINE z == Text!Zeroed(1)
<1>1. z \in Seq(Text!Char) /\ Len(z) = 1 /\ \A i \in 1..1 : z[i] = 0
  BY Fresh
<1> HIDE DEF z
<1>2. 0 < Len(z) /\ z[1] = 0
  BY <1>1
<1>3. Holds(z, <<>>)
  BY <1>1, <1>2, EmptyHolds
<1> QED
  BY <1>3 DEF z

\* An emitted constant holds the UTF-8 of its characters.
LEMMA LiteralHolds ==
  ASSUME NEW l \in Literals
  PROVE  /\ Holds(Text!Literal(l).block, Text!Utf8(l))
         /\ Text!Literal(l).meaning = Text!Utf8(l)
<1> DEFINE u == Text!Utf8(l)
<1>1. u \in Seq(Text!Char \ {0})
  BY TextConstants, Bytes DEF Text!TextAssumption
<1> HIDE DEF u
<1>2. u \in Seq(Text!Char) /\ Len(u) \in Nat /\ \A i \in 1..Len(u) : u[i] # 0
  BY <1>1
<1> DEFINE b == Append(u, 0)
<1>3. /\ b \in Seq(Text!Char) /\ Len(b) = Len(u) + 1 /\ b[Len(u) + 1] = 0
      /\ \A i \in 1..Len(u) : b[i] = u[i]
  BY <1>2, Bytes
<1> HIDE DEF b
<1>4. Holds(b, u)
  BY <1>2, <1>3, Reads
<1> QED
  BY <1>4, Bytes DEF Text!Literal, Text!Value, b, u

\* A piece of a string, copied into a block of zeros that is one longer.
LEMMA PieceHolds ==
  ASSUME NEW s, NEW t, Holds(s, t), NEW off \in Nat, NEW n \in Nat, off + n <= Len(t)
  PROVE  Holds(Text!Place(Text!Zeroed(n + 1), 0, Text!From(s, off, n)), SubSeq(t, off + 1, off + n))
<1> DEFINE z == Text!Zeroed(n + 1)
           f == Text!From(s, off, n)
           r == Text!Place(z, 0, f)
           u == SubSeq(t, off + 1, off + n)
<1>1. /\ s \in Seq(Text!Char) /\ t \in Seq(Text!Char) /\ Len(t) \in Nat /\ Len(s) \in Nat
      /\ Len(t) < Len(s) /\ \A i \in 1..Len(t) : s[i] = t[i] /\ t[i] # 0
  BY HoldsWhat
<1>2. /\ u \in Seq(Text!Char) /\ Len(u) = n
      /\ \A i \in 1..n : u[i] = t[off + i]
  <2>1. \A i \in 1..n : u[i] = t[(off + 1) + i - 1] /\ (off + 1) + i - 1 = off + i
    BY <1>1
  <2> QED
    BY <1>1, <2>1
<1>3. f \in Seq(Text!Char) /\ Len(f) = n /\ \A i \in 1..n : f[i] = s[off + i]
  <2>1. off + n <= Len(s)
    BY <1>1
  <2> QED
    BY <1>1, <2>1, Taken
<1>4. z \in Seq(Text!Char) /\ Len(z) = n + 1 /\ \A i \in 1..n + 1 : z[i] = 0
  BY Fresh
<1> HIDE DEF z, f, u
<1>5. /\ r \in Seq(Text!Char) /\ Len(r) = Len(z)
      /\ \A i \in 1..Len(z) : r[i] = IF 0 < i /\ i <= 0 + Len(f) THEN f[i - 0] ELSE z[i]
  BY <1>3, <1>4, Placed
<1> HIDE DEF r
<1>6. \A i \in 1..n : r[i] = u[i] /\ u[i] # 0
  <2> SUFFICES ASSUME NEW i \in 1..n PROVE r[i] = u[i] /\ u[i] # 0
    OBVIOUS
  <2>1. off + i \in 1..Len(t)
    BY <1>1
  <2>2. r[i] = f[i] /\ f[i] = s[off + i] /\ u[i] = t[off + i]
    BY <1>2, <1>3, <1>4, <1>5
  <2> QED
    BY <1>1, <2>1, <2>2
<1>7. r[n + 1] = 0
  BY <1>3, <1>4, <1>5
<1>8. Holds(r, u)
  BY <1>2, <1>4, <1>5, <1>6, <1>7, Reads
<1> QED
  BY <1>8 DEF r, z, f, u

\* tail, strSubstr and reverse hold the tail, a piece and the reverse.
LEMMA StrTailHolds ==
  ASSUME NEW s, NEW t, Holds(s, t)
  PROVE  Holds(Text!StrTail(s), IF t = <<>> THEN <<>> ELSE Tail(t))
<1>1. t \in Seq(Text!Char) /\ Len(t) \in Nat /\ Text!StrLen(s) = Len(t)
  BY HoldsWhat
<1>2. CASE t = <<>>
  BY <1>1, <1>2, ZeroHolds DEF Text!StrTail
<1>3. CASE t # <<>>
  <2>1. Len(t) # 0 /\ Len(t) - 1 \in Nat /\ 1 + (Len(t) - 1) <= Len(t)
    BY <1>1, <1>3
  <2>2. Holds(Text!Place(Text!Zeroed(Len(t) - 1 + 1), 0, Text!From(s, 1, Len(t) - 1)),
              SubSeq(t, 1 + 1, 1 + (Len(t) - 1)))
    BY <2>1, PieceHolds
  <2>3. SubSeq(t, 1 + 1, 1 + (Len(t) - 1)) = Tail(t) /\ Len(t) - 1 + 1 = Len(t)
    BY <1>1, <2>1, TailIsSubSeq
  <2> QED
    BY <1>1, <1>3, <2>1, <2>2, <2>3 DEF Text!StrTail
<1> QED
  BY <1>2, <1>3

LEMMA StrSubstrHolds ==
  ASSUME NEW s, NEW t, Holds(s, t), NEW i \in Nat, NEW n \in Nat, i <= Len(t)
  PROVE  Holds(Text!StrSubstr(i, n, s), SubSeq(t, i + 1, Text!Least(i + n, Len(t))))
<1> DEFINE l == Text!Least(Len(t) - i, n)
<1>1. Len(t) \in Nat /\ Text!StrLen(s) = Len(t)
  BY HoldsWhat
<1>2. l \in Nat /\ i + l <= Len(t) /\ i + l = Text!Least(i + n, Len(t))
  BY <1>1 DEF Text!Least
<1>3. Text!StrSubstr(i, n, s) = Text!Place(Text!Zeroed(l + 1), 0, Text!From(s, i, l))
  BY <1>1 DEF Text!StrSubstr
<1> HIDE DEF l
<1> QED
  BY <1>2, <1>3, PieceHolds

LEMMA StrReverseHolds ==
  ASSUME NEW s, NEW t, Holds(s, t)
  PROVE  Holds(Text!StrReverse(s), [i \in DOMAIN t |-> t[Len(t) + 1 - i]])
<1> DEFINE u == [i \in 1..Len(t) |-> t[Len(t) + 1 - i]]
           f == [i \in 1..Len(t) |-> s[Len(t) + 1 - i]]
           z == Text!Zeroed(Len(t) + 1)
           r == Text!Place(z, 0, f)
<1>1. /\ s \in Seq(Text!Char) /\ t \in Seq(Text!Char) /\ Len(t) \in Nat /\ Text!StrLen(s) = Len(t)
      /\ \A i \in 1..Len(t) : s[i] = t[i] /\ t[i] # 0 /\ t[i] \in Text!Char
  <2>1. t \in Seq(Text!Char) => \A i \in 1..Len(t) : t[i] \in Text!Char
    OBVIOUS
  <2> QED
    BY <2>1, HoldsWhat
<1>2. \A i \in 1..Len(t) : Len(t) + 1 - i \in 1..Len(t)
  BY <1>1
<1>3. u \in [1..Len(t) -> Text!Char] /\ f = u
  BY <1>1, <1>2
<1>4. u \in Seq(Text!Char) /\ Len(u) = Len(t) /\ \A i \in 1..Len(t) : u[i] # 0
  BY <1>1, <1>2, <1>3
<1>5. DOMAIN t = 1..Len(t) /\ Text!StrReverse(s) = r
  BY <1>1 DEF Text!StrReverse
<1>6. z \in Seq(Text!Char) /\ Len(z) = Len(t) + 1 /\ \A i \in 1..Len(t) + 1 : z[i] = 0
  BY <1>1, Fresh
<1> HIDE DEF z, f, u
<1>7. /\ r \in Seq(Text!Char) /\ Len(r) = Len(z)
      /\ \A i \in 1..Len(z) : r[i] = IF 0 < i /\ i <= 0 + Len(f) THEN f[i - 0] ELSE z[i]
  BY <1>1, <1>3, <1>4, <1>6, Placed
<1> HIDE DEF r
<1>8. /\ \A i \in 1..Len(u) : r[i] = u[i] /\ u[i] # 0
      /\ r[Len(u) + 1] = 0 /\ Len(u) < Len(r)
  BY <1>1, <1>3, <1>4, <1>6, <1>7
<1>9. Holds(r, u)
  BY <1>4, <1>7, <1>8, Reads
<1> QED
  BY <1>5, <1>9 DEF u

\* Two pieces of text one after the other, in a block of zeros that is one
\* longer than both.
LEMMA PairHolds ==
  ASSUME NEW t \in Seq(Text!Char), NEW u \in Seq(Text!Char),
         \A i \in 1..Len(t) : t[i] # 0, \A i \in 1..Len(u) : u[i] # 0
  PROVE  Holds(Text!Place(Text!Place(Text!Zeroed(Len(t) + Len(u) + 1), 0, t), Len(t), u), t \o u)
<1> DEFINE z == Text!Zeroed(Len(t) + Len(u) + 1)
           p == Text!Place(z, 0, t)
           r == Text!Place(p, Len(t), u)
           w == t \o u
<1>1. Len(t) \in Nat /\ Len(u) \in Nat
  OBVIOUS
<1>2. /\ w \in Seq(Text!Char) /\ Len(w) = Len(t) + Len(u)
      /\ \A i \in 1..Len(w) : w[i] = IF i <= Len(t) THEN t[i] ELSE u[i - Len(t)]
  OBVIOUS
<1>3. z \in Seq(Text!Char) /\ Len(z) = Len(t) + Len(u) + 1 /\ \A i \in 1..Len(z) : z[i] = 0
  BY <1>1, Fresh
<1> HIDE DEF z, w
<1>4. /\ p \in Seq(Text!Char) /\ Len(p) = Len(z)
      /\ \A i \in 1..Len(z) : p[i] = IF 0 < i /\ i <= 0 + Len(t) THEN t[i - 0] ELSE z[i]
  BY <1>1, <1>3, Placed
<1> HIDE DEF p
<1>5. /\ r \in Seq(Text!Char) /\ Len(r) = Len(p)
      /\ \A i \in 1..Len(p) :
           r[i] = IF Len(t) < i /\ i <= Len(t) + Len(u) THEN u[i - Len(t)] ELSE p[i]
  <2>1. Len(t) + Len(u) <= Len(p)
    BY <1>1, <1>3, <1>4
  <2> QED
    BY <1>1, <1>4, <2>1, Placed
<1> HIDE DEF r
<1>6. \A i \in 1..Len(w) : r[i] = w[i] /\ w[i] # 0
  <2> SUFFICES ASSUME NEW i \in 1..Len(w) PROVE r[i] = w[i] /\ w[i] # 0
    OBVIOUS
  <2>0. i \in Nat /\ i \in 1..Len(z) /\ i \in 1..Len(p) /\ 0 < i
    BY <1>1, <1>2, <1>3, <1>4
  <2>1. CASE i <= Len(t)
    <3>1. r[i] = p[i] /\ p[i] = t[i] /\ w[i] = t[i] /\ i \in 1..Len(t)
      BY <2>0, <2>1, <1>1, <1>2, <1>4, <1>5
    <3> QED
      BY <3>1
  <2>2. CASE i > Len(t)
    <3>1. i - Len(t) \in 1..Len(u) /\ i <= Len(t) + Len(u)
      BY <2>2, <1>1, <1>2
    <3>2. r[i] = u[i - Len(t)] /\ w[i] = u[i - Len(t)]
      BY <2>0, <2>2, <3>1, <1>1, <1>2, <1>5
    <3> QED
      BY <3>1, <3>2
  <2> QED
    BY <1>1, <1>2, <2>1, <2>2
<1>7. r[Len(w) + 1] = 0 /\ Len(w) < Len(r)
  BY <1>1, <1>2, <1>3, <1>4, <1>5
<1>8. Holds(r, w)
  BY <1>2, <1>5, <1>6, <1>7, Reads
<1> QED
  BY <1>8 DEF r, p, z, w

\* strAppend holds both texts.
LEMMA StrAppendHolds ==
  ASSUME NEW a, NEW t, Holds(a, t), NEW b, NEW u, Holds(b, u)
  PROVE  Holds(Text!StrAppend(a, b), t \o u)
<1>1. /\ Text!StrLen(a) = Len(t) /\ Text!CString(a) = t /\ t \in Seq(Text!Char)
      /\ \A i \in 1..Len(t) : t[i] # 0
  BY HoldsWhat
<1>2. /\ Text!StrLen(b) = Len(u) /\ Text!CString(b) = u /\ u \in Seq(Text!Char)
      /\ \A i \in 1..Len(u) : u[i] # 0
  BY HoldsWhat
<1> QED
  BY <1>1, <1>2, PairHolds DEF Text!StrAppend

\* A character that is no NUL goes before the text; a NUL ends it at once.
LEMMA StrConsHolds ==
  ASSUME NEW c \in Text!Char, NEW s, NEW t, Holds(s, t)
  PROVE  Holds(Text!StrCons(c, s), IF c = 0 THEN <<>> ELSE <<c>> \o t)
<1>1. /\ Text!StrLen(s) = Len(t) /\ Text!CString(s) = t /\ t \in Seq(Text!Char) /\ Len(t) \in Nat
      /\ \A i \in 1..Len(t) : t[i] # 0
  BY HoldsWhat
<1> DEFINE h == <<c>>
           z == Text!Zeroed(Len(t) + 2)
           p == Text!Place(z, 0, h)
           r == Text!Place(p, 1, t)
<1>2. h \in Seq(Text!Char) /\ Len(h) = 1 /\ h[1] = c
  OBVIOUS
<1>3. Text!StrCons(c, s) = r
  BY <1>1 DEF Text!StrCons
<1> HIDE DEF h
<1>4. CASE c # 0
  <2>1. \A i \in 1..Len(h) : h[i] # 0
    BY <1>2, <1>4
  <2>2. Len(h) + Len(t) + 1 = Len(t) + 2
    BY <1>1, <1>2
  <2>3. Holds(Text!Place(Text!Place(Text!Zeroed(Len(h) + Len(t) + 1), 0, h), Len(h), t), h \o t)
    BY <1>1, <1>2, <2>1, PairHolds
  <2>4. Holds(r, h \o t)
    BY <1>2, <2>2, <2>3
  <2> QED
    BY <1>3, <1>4, <2>4 DEF h
<1>5. CASE c = 0
  <2>1. z \in Seq(Text!Char) /\ Len(z) = Len(t) + 2
    BY <1>1, Fresh
  <2> HIDE DEF z
  <2>2. /\ p \in Seq(Text!Char) /\ Len(p) = Len(z)
        /\ \A i \in 1..Len(z) : p[i] = IF 0 < i /\ i <= 0 + Len(h) THEN h[i - 0] ELSE z[i]
    BY <1>1, <1>2, <2>1, Placed
  <2> HIDE DEF p
  <2>3. /\ r \in Seq(Text!Char) /\ Len(r) = Len(p)
        /\ \A i \in 1..Len(p) : r[i] = IF 1 < i /\ i <= 1 + Len(t) THEN t[i - 1] ELSE p[i]
    BY <1>1, <2>1, <2>2, Placed
  <2> HIDE DEF r
  <2>4. r[1] = 0 /\ 0 < Len(r)
    BY <1>1, <1>2, <1>5, <2>1, <2>2, <2>3
  <2>5. Holds(r, <<>>)
    BY <2>3, <2>4, EmptyHolds
  <2> QED
    BY <1>3, <1>5, <2>5
<1> QED
  BY <1>4, <1>5

(***************************************************************************)
(* Recursive functions                                                     *)
(***************************************************************************)
\* A function on 0..n that is given by its start and by a step from each
\* value to the next exists, and has values where it should.
Steps(n, S) == [1..n -> [S -> S]]
Unfolds(f, n, start, step) == f[0] = start /\ \A k \in 1..n : f[k] = step[k][f[k - 1]]

LEMMA Recursion ==
  ASSUME NEW n \in Nat, NEW S, NEW start \in S, NEW step \in Steps(n, S)
  PROVE  \E f \in [0..n -> S] : Unfolds(f, n, start, step)
<1>0. step \in [1..n -> [S -> S]]
  BY DEF Steps
<1> DEFINE Up(m, f) == f = [k \in 0..m |-> IF k = 0 THEN start ELSE step[k][f[k - 1]]]
           T == {m \in Nat : m <= n => \E f \in [0..m -> S] : Up(m, f)}
<1>1. 0 \in T
  <2>1. Up(0, [k \in 0..0 |-> start])
    OBVIOUS
  <2> QED
    BY <2>1
<1>2. ASSUME NEW m \in T PROVE m + 1 \in T
  <2>1. m \in Nat /\ (m <= n => \E f \in [0..m -> S] : Up(m, f))
    OBVIOUS
  <2>2. ASSUME m + 1 <= n PROVE \E f \in [0..m + 1 -> S] : Up(m + 1, f)
    <3>1. PICK f \in [0..m -> S] : Up(m, f)
      BY <2>1, <2>2
    <3> DEFINE g == [k \in 0..m + 1 |-> IF k = m + 1 THEN step[m + 1][f[m]] ELSE f[k]]
    <3>2. m + 1 \in 1..n /\ f[m] \in S /\ step[m + 1] \in [S -> S]
      BY <1>0, <2>1, <2>2
    <3>3. g \in [0..m + 1 -> S]
      BY <2>1, <3>2
    <3>4. \A k \in 0..m + 1 : g[k] = IF k = 0 THEN start ELSE step[k][g[k - 1]]
      <4> SUFFICES ASSUME NEW k \in 0..m + 1
                   PROVE  g[k] = IF k = 0 THEN start ELSE step[k][g[k - 1]]
        OBVIOUS
      <4>1. CASE k = m + 1
        BY <2>1, <3>2, <4>1
      <4>2. CASE k # m + 1
        <5>1. k \in 0..m /\ g[k] = f[k] /\ (k # 0 => k - 1 \in 0..m /\ g[k - 1] = f[k - 1])
          BY <2>1, <4>2
        <5>2. f[k] = IF k = 0 THEN start ELSE step[k][f[k - 1]]
          BY <3>1, <5>1
        <5> QED
          BY <5>1, <5>2
      <4> QED
        BY <4>1, <4>2
    <3>5. Up(m + 1, g)
      BY <3>3, <3>4
    <3> QED
      BY <3>3, <3>5
  <2> HIDE DEF Up
  <2> QED
    BY <2>1, <2>2
<1> HIDE DEF Up
<1>3. Nat \subseteq T
  BY <1>1, <1>2, Upwards
<1>4. PICK f \in [0..n -> S] : Up(n, f)
  BY <1>3
<1>5. Unfolds(f, n, start, step)
  BY <1>4 DEF Up, Unfolds
<1> QED
  BY <1>5

\* A block in which every byte has been set, and one seen with those that have not.
LEMMA Filled ==
  ASSUME NEW b \in Seq(Cell), \A i \in 1..Len(b) : b[i] \in Text!Char
  PROVE  b \in Seq(Text!Char)
  OBVIOUS

LEMMA Wider ==
  ASSUME NEW b \in Seq(Text!Char)
  PROVE  b \in Seq(Cell)
<1>1. \A i \in 1..Len(b) : b[i] \in Text!Char
  OBVIOUS
<1>2. \A i \in 1..Len(b) : b[i] \in Cell
  BY <1>1, Bytes
<1> QED
  BY <1>2

\* Writing bytes into a block leaves a block.
LEMMA PlaceType ==
  ASSUME NEW S, NEW b \in Seq(S), NEW bytes \in Seq(S), NEW off \in Nat
  PROVE  Text!Place(b, off, bytes) \in Seq(S)
<1>1. CASE off + Len(bytes) <= Len(b)
  BY <1>1, Placed
<1>2. CASE off + Len(bytes) > Len(b)
  BY <1>2 DEF Text!Place
<1> QED
  BY <1>1, <1>2

(***************************************************************************)
(* Strings that are put together from many                                 *)
(***************************************************************************)
\* fastPack fills its whole block; without a NUL among them the text is the
\* characters.
LEMMA FastPackHolds ==
  ASSUME NEW items \in Seq(Text!Char)
  PROVE  /\ Text!FastPack(items) \in Seq(Text!Char) /\ Text!Ends(Text!FastPack(items))
         /\ (\A i \in 1..Len(items) : items[i] # 0) => Holds(Text!FastPack(items), items)
<1> DEFINE l == Len(items)
           m == Text!Malloc(l + 1)
           e == <<0>>
           p == Text!Place(m, l, e)
           r == Text!Place(p, 0, items)
<1>1. l \in Nat /\ items \in Seq(Cell) /\ DOMAIN items = 1..l
  BY Wider
<1>2. m \in Seq(Cell) /\ Len(m) = l + 1
  BY <1>1, Fresh
<1>3. e \in Seq(Cell) /\ Len(e) = 1 /\ e[1] = 0
  BY Bytes
<1>4. Text!FastPack(items) = r
  BY Bytes DEF Text!FastPack
<1> HIDE DEF m, e
<1>5. /\ p \in Seq(Cell) /\ Len(p) = Len(m)
      /\ \A i \in 1..Len(m) : p[i] = IF l < i /\ i <= l + Len(e) THEN e[i - l] ELSE m[i]
  <2>1. l + Len(e) <= Len(m)
    BY <1>1, <1>2, <1>3
  <2> QED
    BY <1>1, <1>2, <1>3, <2>1, Placed
<1> HIDE DEF p
<1>6. /\ r \in Seq(Cell) /\ Len(r) = Len(p)
      /\ \A i \in 1..Len(p) : r[i] = IF 0 < i /\ i <= 0 + Len(items) THEN items[i - 0] ELSE p[i]
  <2>1. 0 + Len(items) <= Len(p)
    BY <1>1, <1>2, <1>5
  <2> QED
    BY <1>1, <1>5, <2>1, Placed
<1> HIDE DEF r
<1>7. Len(r) = l + 1 /\ r[l + 1] = 0 /\ \A i \in 1..l : r[i] = items[i]
  <2>1. l + 1 \in 1..Len(m) /\ l + 1 \in 1..Len(p) /\ (l + 1) - l = 1
    BY <1>1, <1>2, <1>5
  <2>2. p[l + 1] = 0
    BY <1>1, <1>3, <1>5, <2>1
  <2>3. r[l + 1] = p[l + 1]
    BY <1>1, <1>6, <2>1
  <2>4. \A i \in 1..l : r[i] = items[i]
    BY <1>1, <1>2, <1>5, <1>6
  <2> QED
    BY <1>1, <1>2, <1>5, <1>6, <2>2, <2>3, <2>4
<1>8. r \in Seq(Text!Char)
  <2>1. \A i \in 1..Len(r) : r[i] \in Text!Char
    BY <1>1, <1>7, Bytes
  <2> QED
    BY <1>6, <2>1, Filled
<1>9. Text!Ends(r)
  BY <1>1, <1>7, <1>8, Bytes DEF Text!Ends
<1>10. (\A i \in 1..l : items[i] # 0) => Holds(r, items)
  BY <1>1, <1>7, <1>8, Reads
<1> QED
  BY <1>4, <1>8, <1>9, <1>10

\* fastConcat leaves no byte unset, and holds the texts one after another.
LEMMA FastConcatHolds ==
  ASSUME NEW a, NEW b, NEW c, NEW t, NEW u, NEW v,
         Holds(a.block, t), Holds(b.block, u), Holds(c.block, v)
  PROVE  Holds(Text!FastConcat(<<a, b, c>>), t \o (u \o v))
<1> DEFINE parts == <<a, b, c>>
           Offset(f) == f = [k \in 0 .. Len(parts) |->
                               IF k = 0 THEN 0 ELSE f[k - 1] + Text!StrLen(parts[k].block)]
           offset == CHOOSE f : Offset(f)
           total  == offset[Len(parts)]
           first  == Text!Place(Text!Malloc(total + 1), total, <<Text!NUL>>)
           Fill(f) == f = [k \in 0 .. Len(parts) |->
                             IF k = 0 THEN first
                             ELSE Text!Place(f[k - 1], offset[k - 1], Text!CString(parts[k].block))]
           filled == CHOOSE f : Fill(f)
<1>1. Text!FastConcat(parts) = filled[Len(parts)]
  BY DEF Text!FastConcat
<1>2. Len(parts) = 3 /\ parts[1] = a /\ parts[2] = b /\ parts[3] = c
  OBVIOUS
<1> HIDE DEF parts
<1>3. /\ \A i \in 1..Len(t) : t[i] # 0
      /\ \A i \in 1..Len(u) : u[i] # 0
      /\ \A i \in 1..Len(v) : v[i] # 0
      /\ t \in Seq(Text!Char) /\ u \in Seq(Text!Char) /\ v \in Seq(Text!Char)
      /\ Len(t) \in Nat /\ Len(u) \in Nat /\ Len(v) \in Nat
      /\ Text!StrLen(parts[1].block) = Len(t) /\ Text!CString(parts[1].block) = t
      /\ Text!StrLen(parts[2].block) = Len(u) /\ Text!CString(parts[2].block) = u
      /\ Text!StrLen(parts[3].block) = Len(v) /\ Text!CString(parts[3].block) = v
  BY <1>2, HoldsWhat
<1>4. t \in Seq(Cell) /\ u \in Seq(Cell) /\ v \in Seq(Cell)
  BY <1>3, Wider
<1>5. \A k \in 1..3 : k = 1 \/ k = 2 \/ k = 3
  OBVIOUS
<1>6. Offset(offset)
  <2> DEFINE step == [k \in 1..3 |-> [x \in Nat |-> x + Text!StrLen(parts[k].block)]]
  <2>1. \A k \in 1..3 : Text!StrLen(parts[k].block) \in Nat
    BY <1>3, <1>5
  <2>2. step \in Steps(3, Nat)
    BY <2>1 DEF Steps
  <2> HIDE DEF step
  <2>0. 3 \in Nat /\ 0 \in Nat
    OBVIOUS
  <2>3. PICK f \in [0..3 -> Nat] : Unfolds(f, 3, 0, step)
    BY ONLY <2>0, <2>2, Recursion
  <2>4. Offset(f)
    <3>1. ASSUME NEW k \in 0..3, k # 0
          PROVE  f[k] = f[k - 1] + Text!StrLen(parts[k].block)
      <4>1. k \in 1..3 /\ f[k - 1] \in Nat
        BY <3>1, <2>3
      <4> QED
        BY <2>3, <4>1 DEF step, Unfolds
    <3> QED
      BY <2>3, <3>1, <1>2 DEF Unfolds
  <2> QED
    BY <2>4
<1>7. offset[0] = 0 /\ offset[1] = Len(t) /\ offset[2] = Len(t) + Len(u) /\ total = Len(t) + Len(u) + Len(v)
  <2> HIDE DEF offset
  <2>1. \A k \in 0..3 : offset[k] = IF k = 0 THEN 0 ELSE offset[k - 1] + Text!StrLen(parts[k].block)
    BY <1>2, <1>6
  <2>2. offset[0] = 0
    BY <2>1
  <2>3. offset[1] = offset[0] + Text!StrLen(parts[1].block)
    BY <2>1
  <2>4. offset[2] = offset[1] + Text!StrLen(parts[2].block)
    BY <2>1
  <2>5. offset[3] = offset[2] + Text!StrLen(parts[3].block)
    BY <2>1
  <2> QED
    BY <1>2, <1>3, <2>2, <2>3, <2>4, <2>5
<1> HIDE DEF offset, total
<1>8. first \in Seq(Cell) /\ Len(first) = total + 1 /\ first[total + 1] = 0
  <2> DEFINE m == Text!Malloc(total + 1)
             e == <<Text!NUL>>
  <2>1. e \in Seq(Cell) /\ Len(e) = 1 /\ e[1] = 0
    BY Bytes
  <2>2. total \in Nat /\ total + 1 \in Nat
    BY <1>3, <1>7
  <2>6. m \in Seq(Cell) /\ Len(m) = total + 1
    BY <2>2, Fresh
  <2> HIDE DEF m, e
  <2>7. total + Len(e) <= Len(m)
    BY <2>1, <2>2, <2>6
  <2>3. /\ Text!Place(m, total, e) \in Seq(Cell) /\ Len(Text!Place(m, total, e)) = Len(m)
        /\ \A i \in 1..Len(m) :
             Text!Place(m, total, e)[i] = IF total < i /\ i <= total + Len(e) THEN e[i - total] ELSE m[i]
    BY <2>1, <2>2, <2>6, <2>7, Placed
  <2>4. first = Text!Place(m, total, e)
    BY DEF m, e
  <2>5. total + 1 \in 1..Len(m) /\ total < total + 1 /\ (total + 1) - total = 1
    BY <2>2, <2>6
  <2> QED
    BY <2>1, <2>2, <2>3, <2>4, <2>5, <2>6
<1> HIDE DEF first
<1>9. Fill(filled)
  <2> DEFINE step == [k \in 1..3 |-> [x \in Seq(Cell) |->
                        Text!Place(x, offset[k - 1], Text!CString(parts[k].block))]]
  <2>1. \A k \in 1..3 : offset[k - 1] \in Nat /\ Text!CString(parts[k].block) \in Seq(Cell)
    BY <1>3, <1>4, <1>5, <1>7
  <2>2. step \in Steps(3, Seq(Cell))
    BY <2>1, PlaceType DEF Steps
  <2> HIDE DEF step
  <2>0. 3 \in Nat
    OBVIOUS
  <2>3. PICK f \in [0..3 -> Seq(Cell)] :
          Unfolds(f, 3, first, step)
    BY ONLY <1>8, <2>0, <2>2, Recursion
  <2>4. Fill(f)
    <3>1. ASSUME NEW k \in 0..3, k # 0
          PROVE  f[k] = Text!Place(f[k - 1], offset[k - 1], Text!CString(parts[k].block))
      <4>1. k \in 1..3 /\ f[k - 1] \in Seq(Cell)
        BY <3>1, <2>3
      <4> QED
        BY <2>3, <4>1 DEF step, Unfolds
    <3> QED
      BY <2>3, <3>1, <1>2 DEF Unfolds
  <2> QED
    BY <2>4
<1> DEFINE p == Text!Place(first, 0, t)
           q == Text!Place(p, Len(t), u)
           r == Text!Place(q, Len(t) + Len(u), v)
<1>10. filled[Len(parts)] = r
  <2> HIDE DEF filled
  <2>1. \A k \in 0..3 : filled[k] =
          IF k = 0 THEN first
          ELSE Text!Place(filled[k - 1], offset[k - 1], Text!CString(parts[k].block))
    BY <1>2, <1>9
  <2>2. filled[0] = first
    BY <2>1
  <2>3. filled[1] = Text!Place(filled[0], offset[0], Text!CString(parts[1].block))
    BY <2>1
  <2>4. filled[2] = Text!Place(filled[1], offset[1], Text!CString(parts[2].block))
    BY <2>1
  <2>5. filled[3] = Text!Place(filled[2], offset[2], Text!CString(parts[3].block))
    BY <2>1
  <2> QED
    BY <1>2, <1>3, <1>7, <2>2, <2>3, <2>4, <2>5
<1>11. /\ p \in Seq(Cell) /\ Len(p) = total + 1
       /\ \A i \in 1..total + 1 : p[i] = IF 0 < i /\ i <= 0 + Len(t) THEN t[i - 0] ELSE first[i]
  <2>1. 0 + Len(t) <= Len(first)
    BY <1>3, <1>7, <1>8
  <2> QED
    BY <1>4, <1>8, <2>1, Placed
<1> HIDE DEF p
<1>12. /\ q \in Seq(Cell) /\ Len(q) = total + 1
       /\ \A i \in 1..total + 1 :
            q[i] = IF Len(t) < i /\ i <= Len(t) + Len(u) THEN u[i - Len(t)] ELSE p[i]
  <2>1. Len(t) + Len(u) <= Len(p)
    BY <1>3, <1>7, <1>11
  <2> QED
    BY <1>3, <1>4, <1>11, <2>1, Placed
<1> HIDE DEF q
<1>13. /\ r \in Seq(Cell) /\ Len(r) = total + 1
       /\ \A i \in 1..total + 1 :
            r[i] = IF Len(t) + Len(u) < i /\ i <= Len(t) + Len(u) + Len(v)
                     THEN v[i - (Len(t) + Len(u))] ELSE q[i]
  <2>1. Len(t) + Len(u) + Len(v) <= Len(q) /\ Len(t) + Len(u) \in Nat
    BY <1>3, <1>7, <1>12
  <2> QED
    BY <1>4, <1>12, <2>1, Placed
<1> HIDE DEF r
<1> DEFINE x == u \o v
           w == t \o x
<1>14. /\ x \in Seq(Text!Char) /\ Len(x) = Len(u) + Len(v)
       /\ \A i \in 1..Len(u) + Len(v) : x[i] = IF i <= Len(u) THEN u[i] ELSE v[i - Len(u)]
  BY <1>3
<1> HIDE DEF x
<1>15. /\ w \in Seq(Text!Char) /\ Len(w) = total
       /\ \A i \in 1..total : w[i] = IF i <= Len(t) THEN t[i] ELSE x[i - Len(t)]
  BY <1>3, <1>7, <1>14
<1> HIDE DEF w
<1>16. \A i \in 1..total : r[i] = w[i] /\ w[i] # 0
  <2> SUFFICES ASSUME NEW i \in 1..total PROVE r[i] = w[i] /\ w[i] # 0
    OBVIOUS
  <2>0. i \in Nat /\ 0 < i /\ i \in 1..total + 1 /\ i <= Len(t) + Len(u) + Len(v)
    BY <1>3, <1>7
  <2>1. CASE i <= Len(t)
    <3>1. i \in 1..Len(t) /\ ~(Len(t) < i) /\ ~(Len(t) + Len(u) < i)
      BY <1>3, <2>0, <2>1
    <3>2. r[i] = t[i] /\ w[i] = t[i]
      BY <2>0, <2>1, <3>1, <1>11, <1>12, <1>13, <1>15
    <3> QED
      BY <1>3, <3>1, <3>2
  <2>2. CASE Len(t) < i /\ i <= Len(t) + Len(u)
    <3>1. i - Len(t) \in 1..Len(u) /\ i - Len(t) \in 1..Len(u) + Len(v) /\ ~(Len(t) + Len(u) < i)
      BY <1>3, <2>0, <2>2
    <3>2. r[i] = u[i - Len(t)]
      BY <2>0, <2>2, <3>1, <1>12, <1>13
    <3>3. w[i] = x[i - Len(t)]
      BY <1>3, <2>0, <2>2, <1>15
    <3>4. x[i - Len(t)] = u[i - Len(t)]
      BY <3>1, <1>14
    <3> QED
      BY <1>3, <3>1, <3>2, <3>3, <3>4
  <2>3. CASE Len(t) + Len(u) < i
    <3>1. /\ i - Len(t) \in 1..Len(u) + Len(v) /\ ~(i - Len(t) <= Len(u)) /\ ~(i <= Len(t))
          /\ i - (Len(t) + Len(u)) \in 1..Len(v) /\ i - Len(t) - Len(u) = i - (Len(t) + Len(u))
      BY <1>3, <2>0, <2>3
    <3>2. r[i] = v[i - (Len(t) + Len(u))] /\ w[i] = x[i - Len(t)]
      BY <2>0, <2>3, <3>1, <1>13, <1>15
    <3>3. x[i - Len(t)] = v[i - (Len(t) + Len(u))]
      BY <3>1, <1>14
    <3> QED
      BY <1>3, <3>1, <3>2, <3>3
  <2> QED
    BY <1>3, <2>0, <2>1, <2>2, <2>3
<1>17. r[total + 1] = 0 /\ total \in Nat
  <2>1. total \in Nat /\ total + 1 \in 1..total + 1 /\ ~(total + 1 <= Len(t))
        /\ ~(total + 1 <= Len(t) + Len(u)) /\ ~(total + 1 <= Len(t) + Len(u) + Len(v))
    BY <1>3, <1>7
  <2>2. r[total + 1] = q[total + 1]
    BY <2>1, <1>13
  <2>3. q[total + 1] = p[total + 1]
    BY <2>1, <1>12
  <2>4. p[total + 1] = first[total + 1]
    BY <2>1, <1>11
  <2> QED
    BY <2>1, <2>2, <2>3, <2>4, <1>8
<1>18. r \in Seq(Text!Char)
  <2>1. \A i \in 1..total : w[i] \in Text!Char
    BY <1>15
  <2>2. \A i \in 1..Len(r) : r[i] \in Text!Char
    BY <2>1, <1>13, <1>16, <1>17, Bytes
  <2> QED
    BY <1>13, <2>2, Filled
<1>19. Holds(r, w)
  BY <1>13, <1>15, <1>16, <1>17, <1>18, Reads
<1> QED
  BY <1>1, <1>10, <1>19 DEF w, x, parts

\* A sequence with one more element.
LEMMA OneMore ==
  ASSUME NEW S, NEW f \in Seq(S), NEW x \in S
  PROVE  /\ f \o <<x>> \in Seq(S) /\ Len(f \o <<x>>) = Len(f) + 1
         /\ (f \o <<x>>)[Len(f) + 1] = x
         /\ \A i \in 1..Len(f) : (f \o <<x>>)[i] = f[i]
<1>1. f \o <<x>> = Append(f, x)
  OBVIOUS
<1> QED
  BY <1>1

\* getBufferString holds the bytes up to the first NUL or to the end of the range.
LEMMA BufferStringHolds ==
  ASSUME NEW data \in Seq(Text!Char), NEW loc \in Nat, NEW n \in Nat, loc + n <= Len(data)
  PROVE  /\ Holds(Text!BufferString(data, loc, n), Text!CString(Text!From(data, loc, n) \o <<0>>))
         /\ Text!Ends(Text!From(data, loc, n) \o <<0>>)
<1> DEFINE f == Text!From(data, loc, n)
           e == <<0>>
           got == f \o e
           t == Text!CString(got)
           m == Text!Malloc(n + 1)
           z == Text!Zeroed(n)
           p == Text!Place(m, 0, z)
           q == Text!Place(p, 0, t)
           r == Text!Place(q, n, e)
<1>1. f \in Seq(Text!Char) /\ Len(f) = n
  BY Taken
<1>2. e \in Seq(Text!Char) /\ Len(e) = 1 /\ e[1] = 0
  BY Bytes
<1>3. Text!BufferString(data, loc, n) = r
  BY Bytes DEF Text!BufferString
<1> HIDE DEF f, e
<1>4. got \in Seq(Text!Char) /\ Len(got) = n + 1 /\ got[n + 1] = 0 /\ n + 1 \in DOMAIN got
  <2>1. got \in Seq(Text!Char) /\ Len(got) = Len(f) + 1 /\ got[Len(f) + 1] = 0
    BY <1>1, Bytes, OneMore DEF e
  <2> HIDE DEF got
  <2> QED
    BY <1>1, <2>1
<1>5. Text!Ends(got)
  BY <1>4, Bytes DEF Text!Ends
<1> HIDE DEF got
<1>6. /\ t \in Seq(Text!Char) /\ Len(t) \in Nat /\ Len(t) <= n
      /\ \A i \in 1..Len(t) : t[i] # 0
  BY <1>4, <1>5, CStringIs, StrLenType
<1> HIDE DEF t
<1>7. m \in Seq(Cell) /\ Len(m) = n + 1
  BY Fresh
<1>8. z \in Seq(Text!Char) /\ Len(z) = n /\ \A i \in 1..n : z[i] = 0
  BY Fresh
<1> HIDE DEF m, z
<1>9. z \in Seq(Cell) /\ t \in Seq(Cell) /\ e \in Seq(Cell)
  BY <1>2, <1>6, <1>8, Wider
<1>10. /\ p \in Seq(Cell) /\ Len(p) = n + 1
       /\ \A i \in 1..n + 1 : p[i] = IF 0 < i /\ i <= 0 + Len(z) THEN z[i - 0] ELSE m[i]
  <2>1. 0 + Len(z) <= Len(m)
    BY <1>7, <1>8
  <2> QED
    <3>1. /\ p \in Seq(Cell) /\ Len(p) = Len(m)
          /\ \A i \in 1..Len(m) : p[i] = IF 0 < i /\ i <= 0 + Len(z) THEN z[i - 0] ELSE m[i]
      BY ONLY 0 \in Nat, <1>7, <1>9, <2>1, Placed
    <3> QED
      BY <1>7, <3>1
<1> HIDE DEF p
<1>11. /\ q \in Seq(Cell) /\ Len(q) = n + 1
       /\ \A i \in 1..n + 1 : q[i] = IF 0 < i /\ i <= 0 + Len(t) THEN t[i - 0] ELSE p[i]
  <2>1. 0 + Len(t) <= Len(p)
    BY <1>6, <1>10
  <2> QED
    <3>1. /\ q \in Seq(Cell) /\ Len(q) = Len(p)
          /\ \A i \in 1..Len(p) : q[i] = IF 0 < i /\ i <= 0 + Len(t) THEN t[i - 0] ELSE p[i]
      BY ONLY 0 \in Nat, <1>9, <1>10, <2>1, Placed
    <3> QED
      BY <1>10, <3>1
<1> HIDE DEF q
<1>12. /\ r \in Seq(Cell) /\ Len(r) = n + 1
       /\ \A i \in 1..n + 1 : r[i] = IF n < i /\ i <= n + Len(e) THEN e[i - n] ELSE q[i]
  <2>1. n + Len(e) <= Len(q)
    BY <1>2, <1>11
  <2> QED
    <3>1. /\ r \in Seq(Cell) /\ Len(r) = Len(q)
          /\ \A i \in 1..Len(q) : r[i] = IF n < i /\ i <= n + Len(e) THEN e[i - n] ELSE q[i]
      BY <1>9, <1>11, <2>1, Placed
    <3> QED
      BY <1>11, <3>1
<1> HIDE DEF r
<1>13. \A i \in 1..n + 1 : r[i] = IF i <= Len(t) THEN t[i] ELSE 0
  <2> SUFFICES ASSUME NEW i \in 1..n + 1 PROVE r[i] = IF i <= Len(t) THEN t[i] ELSE 0
    OBVIOUS
  <2>1. CASE i = n + 1
    <3>1. r[n + 1] = e[(n + 1) - n] /\ (n + 1) - n = 1 /\ ~(n + 1 <= Len(t))
      BY <1>2, <1>6, <1>12
    <3> QED
      BY <1>2, <2>1, <3>1
  <2>2. CASE i <= n
    <3>1. r[i] = q[i] /\ i \in 1..n
      BY <1>12, <2>2
    <3>2. p[i] = 0
      BY <1>8, <1>10, <3>1
    <3> QED
      BY <1>6, <1>11, <3>1, <3>2
  <2> QED
    BY <2>1, <2>2
<1>14. r \in Seq(Text!Char)
  <2>1. \A i \in 1..Len(t) : t[i] \in Text!Char
    BY <1>6
  <2>2. \A i \in 1..Len(r) : r[i] \in Text!Char
    BY <2>1, <1>6, <1>12, <1>13, Bytes
  <2> QED
    BY <1>12, <2>2, Filled
<1>15. Holds(r, t)
  <2>1. r[Len(t) + 1] = 0 /\ Len(t) < Len(r)
    BY <1>6, <1>12, <1>13
  <2>2. \A i \in 1..Len(t) : r[i] = t[i] /\ t[i] # 0
    BY <1>6, <1>13
  <2> QED
    BY <1>6, <1>14, <2>1, <2>2, Reads
<1> QED
  BY <1>3, <1>5, <1>15 DEF t, got, f, e

(***************************************************************************)
(* Numbers in a buffer                                                     *)
(***************************************************************************)

\* The three recursions of the model, unfolded.
LEMMA PowerIs ==
  ASSUME NEW w \in Nat
  PROVE  \E p \in [0..w -> Nat \ {0}] :
           /\ p[0] = 1 /\ \A k \in 1..w : p[k] = Byte * p[k - 1]
           /\ Text!Power(w) = p[w]
<1> DEFINE S == Nat \ {0}
           Up(f) == f = [k \in 0..w |-> IF k = 0 THEN 1 ELSE Byte * f[k - 1]]
           p == CHOOSE f : Up(f)
           step == [k \in 1..w |-> [x \in S |-> Byte * x]]
<1>1. Text!Power(w) = p[w]
  BY DEF Text!Power
<1>2. step \in Steps(w, S)
  <2>1. \A x \in S : Byte * x \in S
    BY Bytes
  <2> QED
    BY <2>1 DEF Steps
<1> HIDE DEF step
<1>3. PICK f \in [0..w -> S] : Unfolds(f, w, 1, step)
  <2>1. 1 \in S
    OBVIOUS
  <2> HIDE DEF S
  <2> QED
    BY ONLY w \in Nat, <1>2, <2>1, Recursion
<1>4. Up(f)
  <2>1. ASSUME NEW k \in 0..w, k # 0 PROVE f[k] = Byte * f[k - 1]
    <3>1. k \in 1..w /\ f[k - 1] \in S
      BY <2>1, <1>3
    <3> QED
      BY <1>3, <3>1 DEF step, Unfolds
  <2> QED
    BY <1>3, <2>1 DEF Unfolds
<1>5. Up(p)
  BY <1>4
<1> HIDE DEF p
<1>6. p[0] = 1 /\ \A k \in 1..w : p[k] = Byte * p[k - 1]
  BY <1>5
<1>7. \A k \in 0..w : p[k] \in S
  <2> DEFINE T == {k \in Nat : k <= w => p[k] \in S}
  <2>1. 0 \in T
    BY <1>6
  <2>2. ASSUME NEW k \in T PROVE k + 1 \in T
    <3>1. ASSUME k + 1 <= w PROVE p[k + 1] \in S
      <4>1. p[k] \in S /\ k + 1 \in 1..w /\ (k + 1) - 1 = k
        BY <3>1
      <4>2. p[k + 1] = Byte * p[k]
        BY <1>6, <4>1
      <4> QED
        BY <4>1, <4>2, Bytes
    <3> QED
      BY <3>1
  <2> HIDE DEF S
  <2>3. Nat \subseteq T
    BY <2>1, <2>2, Upwards
  <2> QED
    BY <2>3
<1>8. p \in [0..w -> S]
  BY <1>5, <1>7
<1> QED
  BY <1>1, <1>6, <1>8

LEMMA UIntLEIs ==
  ASSUME NEW v \in Int, NEW w \in Nat
  PROVE  \E val \in [0..w -> Int] :
           /\ val[0] = v /\ \A k \in 1..w : val[k] = val[k - 1] \div Byte
           /\ Text!UIntLE(v, w) = [i \in 1..w |-> val[i - 1] % Byte]
<1> DEFINE Up(f) == f = [k \in 0..w |-> IF k = 0 THEN v ELSE f[k - 1] \div Byte]
           p == CHOOSE f : Up(f)
           step == [k \in 1..w |-> [x \in Int |-> x \div Byte]]
<1>1. Text!UIntLE(v, w) = [i \in 1..w |-> p[i - 1] % Byte]
  BY DEF Text!UIntLE
<1>2. step \in Steps(w, Int)
  <2>1. \A x \in Int : x \div Byte \in Int
    BY Bytes
  <2> QED
    BY <2>1 DEF Steps
<1> HIDE DEF step
<1>3. PICK f \in [0..w -> Int] : Unfolds(f, w, v, step)
  BY ONLY w \in Nat, v \in Int, <1>2, Recursion
<1>4. Up(f)
  <2>1. ASSUME NEW k \in 0..w, k # 0 PROVE f[k] = f[k - 1] \div Byte
    <3>1. k \in 1..w /\ f[k - 1] \in Int
      BY <2>1, <1>3
    <3> QED
      BY <1>3, <3>1 DEF step, Unfolds
  <2> QED
    BY <1>3, <2>1 DEF Unfolds
<1>5. Up(p)
  BY <1>4
<1> HIDE DEF p
<1>6. p[0] = v /\ \A k \in 1..w : p[k] = p[k - 1] \div Byte
  BY <1>5
<1>7. \A k \in 0..w : p[k] \in Int
  <2> DEFINE T == {k \in Nat : k <= w => p[k] \in Int}
  <2>1. 0 \in T
    BY <1>6
  <2>2. ASSUME NEW k \in T PROVE k + 1 \in T
    <3>1. ASSUME k + 1 <= w PROVE p[k + 1] \in Int
      <4>1. p[k] \in Int /\ k + 1 \in 1..w /\ (k + 1) - 1 = k
        BY <3>1
      <4>2. p[k + 1] = p[k] \div Byte
        BY <1>6, <4>1
      <4> QED
        BY <4>1, <4>2, Bytes
    <3> QED
      BY <3>1
  <2>3. Nat \subseteq T
    BY <2>1, <2>2, Upwards
  <2> QED
    BY <2>3
<1>8. p \in [0..w -> Int]
  BY <1>5, <1>7
<1> QED
  BY <1>1, <1>6, <1>8

LEMMA BufferUIntLEIs ==
  ASSUME NEW data \in Seq(Text!Char), NEW loc \in Nat, NEW w \in Nat, loc + w <= Len(data)
  PROVE  \E r \in [0..w -> Int] :
           /\ r[0] = 0 /\ \A k \in 1..w : r[k] = r[k - 1] * Byte + data[loc + w + 1 - k]
           /\ Text!BufferUIntLE(data, loc, w) = r[w]
<1> DEFINE Up(f) == f = [k \in 0..w |-> IF k = 0 THEN 0 ELSE f[k - 1] * Byte + data[loc + w + 1 - k]]
           p == CHOOSE f : Up(f)
           step == [k \in 1..w |-> [x \in Int |-> x * Byte + data[loc + w + 1 - k]]]
<1>0. \A k \in 1..w : data[loc + w + 1 - k] \in Int
  <2>1. \A i \in 1..Len(data) : data[i] \in Text!Char
    OBVIOUS
  <2>2. \A i \in 1..Len(data) : data[i] \in Int
    BY <2>1, Bytes DEF Text!Char
  <2>3. \A k \in 1..w : loc + w + 1 - k \in 1..Len(data)
    OBVIOUS
  <2> QED
    BY <2>2, <2>3
<1>1. Text!BufferUIntLE(data, loc, w) = p[w]
  BY DEF Text!BufferUIntLE
<1>2. step \in Steps(w, Int)
  <2>1. \A k \in 1..w : \A x \in Int : x * Byte + data[loc + w + 1 - k] \in Int
    BY <1>0, Bytes
  <2> QED
    BY <2>1 DEF Steps
<1> HIDE DEF step
<1>3. PICK f \in [0..w -> Int] : Unfolds(f, w, 0, step)
  <2>1. 0 \in Int
    OBVIOUS
  <2> QED
    BY ONLY w \in Nat, <1>2, <2>1, Recursion
<1>4. Up(f)
  <2>1. ASSUME NEW k \in 0..w, k # 0 PROVE f[k] = f[k - 1] * Byte + data[loc + w + 1 - k]
    <3>1. k \in 1..w /\ f[k - 1] \in Int
      BY <2>1, <1>3
    <3> QED
      BY <1>3, <3>1 DEF step, Unfolds
  <2> QED
    BY <1>3, <2>1 DEF Unfolds
<1>5. Up(p)
  BY <1>4
<1> HIDE DEF p
<1>6. p[0] = 0 /\ \A k \in 1..w : p[k] = p[k - 1] * Byte + data[loc + w + 1 - k]
  BY <1>5
<1>7. \A k \in 0..w : p[k] \in Int
  <2> DEFINE T == {k \in Nat : k <= w => p[k] \in Int}
  <2>1. 0 \in T
    BY <1>6
  <2>2. ASSUME NEW k \in T PROVE k + 1 \in T
    <3>1. ASSUME k + 1 <= w PROVE p[k + 1] \in Int
      <4>1. p[k] \in Int /\ k + 1 \in 1..w /\ (k + 1) - 1 = k
        BY <3>1
      <4>2. p[k + 1] = p[k] * Byte + data[loc + w + 1 - (k + 1)]
        BY <1>6, <4>1
      <4>3. data[loc + w + 1 - (k + 1)] \in Int
        BY <1>0, <4>1
      <4>4. p[k] * Byte \in Int
        BY <4>1, Bytes
      <4> QED
        BY <4>2, <4>3, <4>4
    <3> QED
      BY <3>1
  <2>3. Nat \subseteq T
    BY <2>1, <2>2, Upwards
  <2> QED
    BY <2>3
<1>8. p \in [0..w -> Int]
  BY <1>5, <1>7
<1> QED
  BY <1>1, <1>6, <1>8

\* A number in w bytes is w bytes.
LEMMA UIntLEType ==
  ASSUME NEW v \in Int, NEW w \in Nat
  PROVE  Text!UIntLE(v, w) \in Seq(Text!Char) /\ Len(Text!UIntLE(v, w)) = w
<1>1. PICK val \in [0..w -> Int] : Text!UIntLE(v, w) = [i \in 1..w |-> val[i - 1] % Byte]
  BY UIntLEIs
<1>2. \A i \in 1..w : val[i - 1] % Byte \in Text!Char
  <2> SUFFICES ASSUME NEW i \in 1..w PROVE val[i - 1] % Byte \in Text!Char
    OBVIOUS
  <2>1. val[i - 1] \in Int
    OBVIOUS
  <2> QED
    BY <2>1, Bytes DEF Text!Char
<1>3. [i \in 1..w |-> val[i - 1] % Byte] \in [1..w -> Text!Char]
  BY <1>2
<1>4. Text!UIntLE(v, w) \in [1..w -> Text!Char]
  BY <1>1, <1>3
<1> QED
  BY <1>4

\* The digit that is taken apart, and the one that is put together.
LEMMA Digit ==
  ASSUME NEW B \in Nat, B > 1, NEW x \in Int, NEW V \in Int, NEW P \in Nat \ {0}, NEW r \in Int,
         x \div B = V * P + r, 0 <= r, r < P
  PROVE  /\ x = V * (B * P) + (r * B + (x % B))
         /\ 0 <= r * B + (x % B) /\ r * B + (x % B) < B * P
<1> DEFINE q == x \div B
           d == x % B
<1>1. q \in Int /\ d \in 0..B - 1 /\ x = B * q + d
  OBVIOUS
<1> HIDE DEF q, d
<1>2. x = B * (V * P + r) + d
  BY <1>1 DEF q
<1>3. V * P \in Int /\ B * P \in Int /\ r * B \in Int /\ B * (V * P + r) = V * (B * P) + r * B
  OBVIOUS
<1>4. 0 <= r * B
  OBVIOUS
<1>5. r * B + B <= B * P
  <2>1. (r + 1) * B <= P * B
    <3>1. r + 1 <= P /\ r + 1 \in Nat
      OBVIOUS
    <3> QED
      BY <3>1
  <2> QED
    BY <2>1
<1>6. x = V * (B * P) + (r * B + d) /\ 0 <= r * B + d /\ r * B + d < B * P
  BY <1>1, <1>2, <1>3, <1>4, <1>5
<1> QED
  BY <1>6 DEF d

\* What was taken apart is put together again, but for what did not fit.
LEMMA ReadBack ==
  ASSUME NEW v \in Int, NEW w \in Nat, NEW data \in Seq(Text!Char), NEW loc \in Nat,
         loc + w <= Len(data), \A i \in 1..w : data[loc + i] = Text!UIntLE(v, w)[i]
  PROVE  \E V \in Int : \E P \in Nat \ {0} : \E r \in Int :
           /\ Text!Power(w) = P /\ Text!BufferUIntLE(data, loc, w) = r
           /\ v = V * P + r /\ 0 <= r /\ r < P
<1>1. PICK val \in [0..w -> Int] :
        /\ val[0] = v /\ \A k \in 1..w : val[k] = val[k - 1] \div Byte
        /\ Text!UIntLE(v, w) = [i \in 1..w |-> val[i - 1] % Byte]
  BY UIntLEIs
<1>2. PICK p \in [0..w -> Nat \ {0}] :
        /\ p[0] = 1 /\ \A k \in 1..w : p[k] = Byte * p[k - 1]
        /\ Text!Power(w) = p[w]
  BY PowerIs
<1>3. PICK r \in [0..w -> Int] :
        /\ r[0] = 0 /\ \A k \in 1..w : r[k] = r[k - 1] * Byte + data[loc + w + 1 - k]
        /\ Text!BufferUIntLE(data, loc, w) = r[w]
  BY BufferUIntLEIs
<1> DEFINE V == val[w]
           T == {k \in Nat : k <= w => val[w - k] = V * p[k] + r[k] /\ 0 <= r[k] /\ r[k] < p[k]}
<1>4. 0 \in T
  <2>1. V \in Int /\ w - 0 = w
    OBVIOUS
  <2> QED
    BY <2>1, <1>2, <1>3
<1>5. ASSUME NEW k \in T PROVE k + 1 \in T
  <2>1. k \in Nat /\ (k <= w => val[w - k] = V * p[k] + r[k] /\ 0 <= r[k] /\ r[k] < p[k])
    OBVIOUS
  <2>2. ASSUME k + 1 <= w
        PROVE  /\ val[w - (k + 1)] = V * p[k + 1] + r[k + 1]
               /\ 0 <= r[k + 1] /\ r[k + 1] < p[k + 1]
    <3> DEFINE x == val[w - (k + 1)]
    <3>1. /\ w - k \in 1..w /\ k + 1 \in 1..w /\ (k + 1) - 1 = k /\ (w - k) - 1 = w - (k + 1)
          /\ k \in 0..w /\ w - (k + 1) \in 0..w /\ loc + w + 1 - (k + 1) = loc + (w - k)
      BY <2>1, <2>2
    <3>2. x \in Int /\ V \in Int /\ p[k] \in Nat \ {0} /\ r[k] \in Int
      BY <3>1
    <3>3. val[w - k] = x \div Byte
      BY <1>1, <3>1
    <3>4. data[loc + (w - k)] = x % Byte
      BY <1>1, <3>1
    <3>5. r[k + 1] = r[k] * Byte + (x % Byte)
      BY <1>3, <3>1, <3>4
    <3>6. p[k + 1] = Byte * p[k]
      BY <1>2, <3>1
    <3>7. x \div Byte = V * p[k] + r[k] /\ 0 <= r[k] /\ r[k] < p[k]
      BY <2>1, <2>2, <3>3
    <3> HIDE DEF x, V
    <3>8. /\ x = V * (Byte * p[k]) + (r[k] * Byte + (x % Byte))
          /\ 0 <= r[k] * Byte + (x % Byte) /\ r[k] * Byte + (x % Byte) < Byte * p[k]
      BY ONLY Bytes, <3>2, <3>7, Digit
    <3>9. x = V * p[k + 1] + r[k + 1] /\ 0 <= r[k + 1] /\ r[k + 1] < p[k + 1]
      BY ONLY <3>5, <3>6, <3>8
    <3> QED
      BY <3>9 DEF x
  <2> QED
    BY <2>1, <2>2
<1>6. Nat \subseteq T
  BY <1>4, <1>5, Upwards
<1>7. val[0] = V * p[w] + r[w] /\ 0 <= r[w] /\ r[w] < p[w] /\ V \in Int /\ w - w = 0
  <2>1. w \in T /\ w - w = 0
    BY <1>6
  <2>2. val[w - w] = V * p[w] + r[w] /\ 0 <= r[w] /\ r[w] < p[w]
    BY <2>1
  <2> QED
    BY <2>1, <2>2
<1>8. /\ Text!Power(w) = p[w] /\ Text!BufferUIntLE(data, loc, w) = r[w]
      /\ v = V * p[w] + r[w] /\ 0 <= r[w] /\ r[w] < p[w]
      /\ V \in Int /\ p[w] \in Nat \ {0} /\ r[w] \in Int
  <2>1. w \in 0..w
    OBVIOUS
  <2> QED
    BY <2>1, <1>1, <1>2, <1>3, <1>7
<1> HIDE DEF V
<1> QED
  BY <1>8

\* A number and what was left of it differ by at most one turn.
LEMMA Residue ==
  ASSUME NEW V \in Int, NEW P \in Nat \ {0}, NEW r \in Int, NEW v \in Int,
         v = V * P + r, 0 <= r, r < P, v < P, -P <= v
  PROVE  (v >= 0 => r = v) /\ (v < 0 => r = v + P)
<1>1. CASE V >= 1
  <2>1. V * P >= P
    BY <1>1
  <2> QED
    BY <2>1
<1>2. CASE V <= -2
  <2>1. V * P <= (-2) * P
    BY <1>2
  <2> QED
    BY <2>1
<1>3. CASE V = 0
  BY <1>3
<1>4. CASE V = -1
  BY <1>4
<1> QED
  BY <1>1, <1>2, <1>3, <1>4

\* A number of the width it is written in is read back with its sign.
LEMMA NumberBack ==
  ASSUME NEW kind \in {"unsigned", "signed"}, NEW w \in Nat, NEW v \in Text!Numbers(kind, w),
         NEW data \in Seq(Text!Char), NEW loc \in Nat,
         loc + w <= Len(data), \A i \in 1..w : data[loc + i] = Text!UIntLE(v, w)[i]
  PROVE  Text!Number(kind, data, loc, w) = v
<1>1. PICK p \in [0..w -> Nat \ {0}] : Text!Power(w) = p[w]
  BY PowerIs
<1> DEFINE P == Text!Power(w)
           h == P \div 2
<1>2. P \in Nat \ {0} /\ h \in Nat /\ 2 * h <= P /\ P <= 2 * h + 1
  BY <1>1
<1>3. v \in IF kind = "signed" THEN -h .. -h + P - 1 ELSE 0 .. P - 1
  BY <1>2 DEF Text!Numbers
<1>4. v \in Int /\ -P <= v /\ v < P
  <2> HIDE DEF P, h
  <2> QED
    BY <1>2, <1>3
<1>5. PICK V \in Int, Q \in Nat \ {0}, r \in Int :
           /\ P = Q /\ Text!BufferUIntLE(data, loc, w) = r
           /\ v = V * Q + r /\ 0 <= r /\ r < Q
  BY <1>4, ReadBack
<1>6. Text!Number(kind, data, loc, w) = IF kind = "signed" /\ 2 * r >= P THEN r - P ELSE r
  BY <1>5 DEF Text!Number
<1> HIDE DEF P
<1>7. (v >= 0 => r = v) /\ (v < 0 => r = v + P)
  <2>1. V \in Int /\ Q \in Nat \ {0} /\ r \in Int /\ v = V * Q + r /\ 0 <= r /\ r < Q
    BY <1>5
  <2>2. v \in Int /\ -Q <= v /\ v < Q
    BY <1>4, <1>5
  <2>3. (v >= 0 => r = v) /\ (v < 0 => r = v + Q)
    BY ONLY <2>1, <2>2, Residue
  <2> QED
    BY <2>3, <1>5
<1>8. CASE v >= 0
  <2>1. r = v
    BY <1>7, <1>8
  <2>2. kind = "signed" => ~ (2 * v >= P)
    <3> HIDE DEF h
    <3> QED
      BY <1>2, <1>3, <1>4
  <2> QED
    BY <1>6, <2>1, <2>2
<1>9. CASE v < 0
  <2>1. r = v + P
    BY <1>7, <1>9
  <2>2. kind = "signed" /\ 2 * (v + P) >= P
    <3> HIDE DEF h
    <3> QED
      BY <1>2, <1>3, <1>4, <1>9
  <2>3. r - P = v
    BY <1>2, <1>4, <2>1
  <2> QED
    BY <1>6, <2>1, <2>2, <2>3
<1> QED
  BY <1>4, <1>8, <1>9

\* Equal bytes, wherever they are, are equal numbers and equal texts.
\* Two places that hold the same n bytes.
Alike(d, l, e, m, n) ==
  /\ l + n <= Len(d) /\ m + n <= Len(e)
  /\ \A i \in 1..n : d[l + i] = e[m + i]

\* The same bytes read as the same number and as the same text.
LEMMA SameNumber ==
  ASSUME NEW w \in Nat, NEW d \in Seq(Text!Char), NEW e \in Seq(Text!Char),
         NEW l \in Nat, NEW m \in Nat, Alike(d, l, e, m, w)
  PROVE  Text!BufferUIntLE(d, l, w) = Text!BufferUIntLE(e, m, w)
<1>0. /\ l + w <= Len(d) /\ m + w <= Len(e)
      /\ \A i \in 1..w : d[l + i] = e[m + i]
  BY DEF Alike
<1>1. PICK r \in [0..w -> Int] :
        /\ r[0] = 0 /\ \A k \in 1..w : r[k] = r[k - 1] * Byte + d[l + w + 1 - k]
        /\ Text!BufferUIntLE(d, l, w) = r[w]
  BY <1>0, BufferUIntLEIs
<1>2. PICK s \in [0..w -> Int] :
        /\ s[0] = 0 /\ \A k \in 1..w : s[k] = s[k - 1] * Byte + e[m + w + 1 - k]
        /\ Text!BufferUIntLE(e, m, w) = s[w]
  BY <1>0, BufferUIntLEIs
<1> DEFINE T == {k \in Nat : k <= w => r[k] = s[k]}
<1>3. 0 \in T
  BY <1>1, <1>2
<1>4. ASSUME NEW k \in T PROVE k + 1 \in T
  <2>1. ASSUME k + 1 <= w PROVE r[k + 1] = s[k + 1]
    <3>0. k \in Nat /\ (k <= w => r[k] = s[k])
      OBVIOUS
    <3>1. /\ r[k] = s[k] /\ k + 1 \in 1..w /\ (k + 1) - 1 = k /\ w - k \in 1..w
          /\ l + w + 1 - (k + 1) = l + (w - k) /\ m + w + 1 - (k + 1) = m + (w - k)
      BY <2>1, <3>0
    <3>2. d[l + (w - k)] = e[m + (w - k)]
      BY <1>0, <3>1
    <3>3. r[k + 1] = r[k] * Byte + d[l + (w - k)]
      BY <1>1, <3>1
    <3>4. s[k + 1] = s[k] * Byte + e[m + (w - k)]
      BY <1>2, <3>1
    <3> QED
      BY ONLY <3>1, <3>2, <3>3, <3>4
  <2> QED
    BY <2>1
<1>5. Nat \subseteq T
  BY <1>3, <1>4, Upwards
<1>6. r[w] = s[w]
  BY <1>5
<1> QED
  BY <1>1, <1>2, <1>6

LEMMA SameSeq ==
  ASSUME NEW S, NEW s \in Seq(S), NEW t \in Seq(S), Len(s) = Len(t),
         \A i \in 1..Len(s) : s[i] = t[i]
  PROVE  s = t
  OBVIOUS

LEMMA SameText ==
  ASSUME NEW n \in Nat, NEW d \in Seq(Text!Char), NEW e \in Seq(Text!Char),
         NEW l \in Nat, NEW m \in Nat, Alike(d, l, e, m, n)
  PROVE  Text!CString(Text!MkString(Text!BufferString(d, l, n)))
           = Text!CString(Text!MkString(Text!BufferString(e, m, n)))
<1> DEFINE f == Text!From(d, l, n)
           g == Text!From(e, m, n)
<1>0. /\ l + n <= Len(d) /\ m + n <= Len(e)
      /\ \A i \in 1..n : d[l + i] = e[m + i]
  BY DEF Alike
<1>1. /\ f \in Seq(Text!Char) /\ Len(f) = n /\ \A i \in 1..n : f[i] = d[l + i]
      /\ g \in Seq(Text!Char) /\ Len(g) = n /\ \A i \in 1..n : g[i] = e[m + i]
  <2>1. f \in Seq(Text!Char) /\ Len(f) = n /\ \A i \in 1..n : f[i] = d[l + i]
    <3>1. d \in Seq(Text!Char) /\ l \in Nat /\ n \in Nat /\ l + n <= Len(d)
      BY <1>0
    <3> QED
      BY ONLY <3>1, Taken
  <2>2. g \in Seq(Text!Char) /\ Len(g) = n /\ \A i \in 1..n : g[i] = e[m + i]
    <3>1. e \in Seq(Text!Char) /\ m \in Nat /\ n \in Nat /\ m + n <= Len(e)
      BY <1>0
    <3> QED
      BY ONLY <3>1, Taken
  <2> QED
    BY <2>1, <2>2
<1> HIDE DEF f, g
<1>2. f = g
  <2>1. Len(f) = Len(g) /\ \A i \in 1..Len(f) : f[i] = g[i]
    BY <1>0, <1>1
  <2> QED
    BY ONLY <1>1, <2>1, SameSeq
<1>3. Text!BufferString(d, l, n) = Text!BufferString(e, m, n)
  BY <1>2 DEF Text!BufferString, f, g
<1> QED
  BY <1>3

\* A text that was written is read back.
LEMMA TextBack ==
  ASSUME NEW d \in Seq(Text!Char), NEW l \in Nat, NEW t \in Seq(Text!Char),
         l + Len(t) <= Len(d), \A i \in 1..Len(t) : d[l + i] = t[i] /\ t[i] # 0
  PROVE  Text!CString(Text!MkString(Text!BufferString(d, l, Len(t)))) = t
<1> DEFINE n == Len(t)
           f == Text!From(d, l, n)
           g == f \o <<0>>
<1>1. n \in Nat
  OBVIOUS
<1>2. f \in Seq(Text!Char) /\ Len(f) = n /\ \A i \in 1..n : f[i] = t[i]
  BY <1>1, Taken
<1> HIDE DEF f
<1>3. /\ g \in Seq(Text!Char) /\ Len(g) = n + 1 /\ g[n + 1] = 0 /\ \A i \in 1..n : g[i] = t[i]
  BY <1>2, Bytes, OneMore
<1> HIDE DEF g
<1>4. Holds(g, t)
  BY <1>1, <1>3, Reads
<1>5. Holds(Text!BufferString(d, l, n), Text!CString(g))
  BY <1>1, BufferStringHolds DEF f, g
<1>6. Holds(Text!MkString(Text!BufferString(d, l, n)), Text!CString(g))
  BY <1>5, MkStringHolds
<1> QED
  BY <1>4, <1>6 DEF Holds

(***************************************************************************)
(* The invariant of strings, lists, iterators and the buffer               *)
(***************************************************************************)
\* Lost where the program did what the representation cannot follow.
Meaning == Seq(Text!Char) \cup {Lost}

\* A block and what Idris says that it holds.
Spells(b, m) ==
  /\ b \in Seq(Text!Char) /\ Text!Ends(b)
  /\ m \in Meaning /\ (m # Lost => Text!CString(b) = m)

StrRight  == Spells(str.block, str.meaning)
ListRight ==
  /\ list.items \in Seq(Text!Char) /\ list.meaning \in Meaning
  /\ list.meaning # Lost => list.items = list.meaning

\* An iterator has given the start of its text and has the rest of it.
Iterator == [block : Seq(Text!Char), pos : Nat, of : Meaning, given : Seq(Text!Char)]
ItRight ==
  it # None =>
    /\ it \in Iterator /\ Text!Ends(it.block) /\ it.pos \in 0 .. Text!StrLen(it.block)
    /\ it.of # Lost =>
         it.given \o Text!From(it.block, it.pos, Text!StrLen(it.block) - it.pos) = it.of

\* What was written into the buffer lies in it, and is read back from it.
SlotType == [kind : {"unsigned", "signed", "text"}, loc : Nat, len : Nat, val : Seq(Int)]
Lies(s, b) == s.loc + s.len <= Len(b)
Keeps(s, b) ==
  s.val = IF s.kind = "text" THEN Text!CString(Text!MkString(Text!BufferString(b, s.loc, s.len)))
          ELSE <<Text!Number(s.kind, b, s.loc, s.len)>>
BufRight ==
  /\ buf \in Seq(Text!Char) /\ Len(buf) <= MaxSize /\ slots \subseteq SlotType
  /\ \A s \in slots : Lies(s, buf) /\ Keeps(s, buf)
  /\ \A s, t \in slots : s = t \/ Text!Apart(s, t.loc, t.len)

Flags == uses \in Programs /\ status \in {"runs", "stopped", "crashed"}
TextInv == Flags /\ StrRight /\ ListRight /\ ItRight /\ BufRight

\* What the operations on strings need and what they leave.
LEMMA SpellsWhat ==
  ASSUME NEW b, NEW m, Spells(b, m)
  PROVE  Holds(b, Text!CString(b)) /\ (m # Lost => Holds(b, m)) /\ m \in Meaning
  BY DEF Spells, Holds

LEMMA HoldsSpells ==
  ASSUME NEW b, NEW t, Holds(b, t), NEW m, m = Lost \/ m = t
  PROVE  Spells(b, m)
<1>1. t \in Seq(Text!Char)
  BY HoldsWhat
<1> QED
  BY <1>1 DEF Holds, Spells, Meaning

LEMMA OperandSpells ==
  ASSUME StrRight, NEW a \in Text!Operand
  PROVE  Spells(a.block, a.meaning)
<1>1. CASE a = str
  BY <1>1 DEF StrRight
<1>2. ASSUME NEW l \in Literals, a = Text!Literal(l) PROVE Spells(a.block, a.meaning)
  BY <1>2, LiteralHolds, HoldsSpells
<1> QED
  BY <1>1, <1>2 DEF Text!Operand

\* An operation that makes a string is right when the string is.
LEMMA OnlyStrKeeps ==
  ASSUME TextInv, Text!OnlyStr, NEW b, NEW m, Spells(b, m), str' = Text!Value(b, m)
  PROVE  TextInv'
<1>1. str'.block = b /\ str'.meaning = m
  BY DEF Text!Value
<1> QED
  BY <1>1 DEF TextInv, Flags, StrRight, ListRight, ItRight, BufRight, Text!OnlyStr

(***************************************************************************)
(* Operations on strings                                                   *)
(***************************************************************************)
LEMMA UseKeeps ==
  ASSUME TextInv, Text!Use
  PROVE  TextInv'
<1>1. PICK l \in Literals : str' = Text!Literal(l)
  BY DEF Text!Use
<1>2. Spells(Text!Literal(l).block, Text!Literal(l).meaning)
  BY LiteralHolds, HoldsSpells
<1>3. str' = Text!Value(Text!Literal(l).block, Text!Literal(l).meaning)
  BY <1>1 DEF Text!Literal, Text!Value
<1> QED
  BY <1>2, <1>3, OnlyStrKeeps DEF Text!Use

LEMMA DropFirstKeeps ==
  ASSUME TextInv, Text!DropFirst
  PROVE  TextInv'
<1> DEFINE t == Text!CString(str.block)
           m == IF str.meaning # <<>> /\ Text!PlainTo(1, str.meaning)
                  THEN Tail(str.meaning) ELSE Lost
<1>1. Holds(str.block, t) /\ (str.meaning # Lost => t = str.meaning)
  BY SpellsWhat DEF TextInv, StrRight, Spells
<1>2. Holds(Text!StrTail(str.block), IF t = <<>> THEN <<>> ELSE Tail(t))
  BY <1>1, StrTailHolds
<1>3. m = Lost \/ m = IF t = <<>> THEN <<>> ELSE Tail(t)
  BY <1>1 DEF Text!PlainTo
<1>4. Spells(Text!StrTail(str.block), m)
  BY <1>2, <1>3, HoldsSpells
<1> QED
  BY <1>4, OnlyStrKeeps DEF Text!DropFirst, Text!Keep

LEMMA TurnKeeps ==
  ASSUME TextInv, Text!Turn
  PROVE  TextInv'
<1> DEFINE t == Text!CString(str.block)
           Turned(s) == [i \in DOMAIN s |-> s[Len(s) + 1 - i]]
           m == IF str.meaning = Lost \/ ~Text!Plain(str.meaning) THEN Lost
                ELSE Turned(str.meaning)
<1>1. Holds(str.block, t) /\ (str.meaning # Lost => t = str.meaning)
  BY SpellsWhat DEF TextInv, StrRight, Spells
<1>2. Holds(Text!StrReverse(str.block), Turned(t))
  BY <1>1, StrReverseHolds
<1>3. m = Lost \/ m = Turned(t)
  BY <1>1
<1>4. str' = Text!Value(Text!StrReverse(str.block), m) /\ Text!OnlyStr
  BY DEF Text!Turn, Text!Keep
<1> HIDE DEF m, Turned
<1> QED
  BY <1>2, <1>3, <1>4, HoldsSpells, OnlyStrKeeps

LEMMA ConsKeeps ==
  ASSUME TextInv, NEW c \in Text!Char, Text!Cons(c)
  PROVE  TextInv'
<1> DEFINE t == Text!CString(str.block)
           m == IF c = 0 \/ c >= Ascii THEN Lost ELSE Text!Joined(<<c>>, str.meaning)
           u == IF c = 0 THEN <<>> ELSE <<c>> \o t
<1>1. Holds(str.block, t) /\ (str.meaning # Lost => t = str.meaning)
  BY SpellsWhat DEF TextInv, StrRight, Spells
<1>2. Holds(Text!StrCons(c, str.block), u)
  BY <1>1, StrConsHolds
<1>3. m = Lost \/ m = u
  BY <1>1 DEF Text!Joined
<1>4. str' = Text!Value(Text!StrCons(c, str.block), m) /\ Text!OnlyStr
  BY Bytes DEF Text!Cons, Text!Keep
<1> HIDE DEF m, u
<1> QED
  BY <1>2, <1>3, <1>4, HoldsSpells, OnlyStrKeeps

LEMMA ConcatenateKeeps ==
  ASSUME TextInv, NEW a \in Text!Operand, NEW b \in Text!Operand, Text!Concatenate(a, b)
  PROVE  TextInv'
<1> DEFINE t == Text!CString(a.block)
           u == Text!CString(b.block)
           m == Text!Joined(a.meaning, b.meaning)
<1>1. /\ Holds(a.block, t) /\ (a.meaning # Lost => t = a.meaning)
      /\ Holds(b.block, u) /\ (b.meaning # Lost => u = b.meaning)
  <2>1. Spells(a.block, a.meaning) /\ Spells(b.block, b.meaning)
    BY OperandSpells DEF TextInv
  <2> QED
    BY <2>1 DEF Spells, Holds
<1>2. Holds(Text!StrAppend(a.block, b.block), t \o u)
  BY <1>1, StrAppendHolds
<1>3. m = Lost \/ m = t \o u
  BY <1>1 DEF Text!Joined
<1>4. str' = Text!Value(Text!StrAppend(a.block, b.block), m) /\ Text!OnlyStr
  BY DEF Text!Concatenate, Text!Keep
<1> HIDE DEF m, t, u
<1> QED
  BY <1>2, <1>3, <1>4, HoldsSpells, OnlyStrKeeps

LEMMA ConcatKeeps ==
  ASSUME TextInv, NEW a \in Text!Operand, NEW b \in Text!Operand, NEW c \in Text!Operand,
         Text!Concat(a, b, c)
  PROVE  TextInv'
<1> DEFINE t == Text!CString(a.block)
           u == Text!CString(b.block)
           v == Text!CString(c.block)
           m == Text!Joined(a.meaning, Text!Joined(b.meaning, c.meaning))
           r == Text!MkString(Text!FastConcat(<<a, b, c>>))
<1>1. /\ Holds(a.block, t) /\ (a.meaning # Lost => t = a.meaning)
      /\ Holds(b.block, u) /\ (b.meaning # Lost => u = b.meaning)
      /\ Holds(c.block, v) /\ (c.meaning # Lost => v = c.meaning)
  <2>1. Spells(a.block, a.meaning) /\ Spells(b.block, b.meaning) /\ Spells(c.block, c.meaning)
    BY OperandSpells DEF TextInv
  <2> QED
    BY <2>1 DEF Spells, Holds
<1>2. Holds(r, t \o (u \o v))
  BY <1>1, FastConcatHolds, MkStringHolds
<1>3. m = Lost \/ m = t \o (u \o v)
  BY <1>1 DEF Text!Joined
<1>4. str' = Text!Value(r, m) /\ Text!OnlyStr
  BY DEF Text!Concat, Text!Keep
<1> HIDE DEF m, t, u, v, r
<1> QED
  BY <1>2, <1>3, <1>4, HoldsSpells, OnlyStrKeeps

LEMMA SubstrKeeps ==
  ASSUME TextInv, NEW i \in 0..MaxLen, NEW n \in Text!Lengths, Text!Substr(i, n)
  PROVE  TextInv'
<1> DEFINE t == Text!CString(str.block)
           k == Text!ToCInt(n)
<1>1. Holds(str.block, t) /\ (str.meaning # Lost => t = str.meaning)
  BY SpellsWhat DEF TextInv, StrRight, Spells
<1>2. Len(t) \in Nat /\ Text!StrLen(str.block) = Len(t)
  BY <1>1, HoldsWhat
<1>3. n \in Int /\ i \in Nat /\ k \in Int
  BY TextConstants DEF Text!TextAssumption, Text!Lengths, Text!ToCInt
<1>4. Text!OnlyStr
  BY DEF Text!Substr
<1>5. CASE i < Len(t)
  <2> DEFINE m == IF str.meaning = Lost \/ n # k THEN Lost
                  ELSE LET end == Text!Least(i + n, Len(str.meaning)) IN
                       IF Text!PlainTo(end, str.meaning) THEN SubSeq(str.meaning, i + 1, end)
                       ELSE Lost
  <2>1. k >= 0 /\ str' = Text!Value(Text!StrSubstr(i, k, str.block), m)
    BY <1>2, <1>5 DEF Text!Substr, Text!Keep
  <2>2. Holds(Text!StrSubstr(i, k, str.block), SubSeq(t, i + 1, Text!Least(i + k, Len(t))))
    BY <1>1, <1>2, <1>3, <1>5, <2>1, StrSubstrHolds
  <2>3. m = Lost \/ m = SubSeq(t, i + 1, Text!Least(i + k, Len(t)))
    BY <1>1
  <2> HIDE DEF m
  <2> QED
    BY <1>4, <2>1, <2>2, <2>3, HoldsSpells, OnlyStrKeeps
<1>6. CASE ~(i < Len(t))
  <2> DEFINE m == IF str.meaning = Lost THEN Lost ELSE <<>>
  <2>1. str' = Text!Value(Text!Zeroed(1), m)
    BY <1>2, <1>6 DEF Text!Substr, Text!Keep
  <2> QED
    BY <1>4, <2>1, ZeroHolds, HoldsSpells, OnlyStrKeeps
<1> QED
  BY <1>5, <1>6

(***************************************************************************)
(* Lists and iterators                                                     *)
(***************************************************************************)
\* An operation that makes a list is right when the list is.
LEMMA OnlyListKeeps ==
  ASSUME TextInv, Text!OnlyList, ListRight'
  PROVE  TextInv'
  BY DEF TextInv, Flags, StrRight, ItRight, BufRight, Text!OnlyList

\* A character before a list, with what it means.
LEMMA Prepended ==
  ASSUME ListRight, NEW c \in Text!Char, NEW d \in Seq(Text!Char) \cup {Lost},
         NEW m, m = Text!Joined(d, list.meaning), d = Lost \/ d = <<c>>,
         list' = [items |-> <<c>> \o list.items, meaning |-> m]
  PROVE  ListRight'
<1>1. <<c>> \in Seq(Text!Char) /\ <<c>> \o list.items \in Seq(Text!Char)
  BY DEF ListRight
<1>2. m = Lost \/ (list.meaning # Lost /\ m = <<c>> \o list.meaning)
  BY DEF Text!Joined
<1>3. m \in Meaning
  BY <1>1, <1>2 DEF Meaning, ListRight
<1> QED
  BY <1>1, <1>2, <1>3 DEF ListRight

LEMMA StrIndexKeeps ==
  ASSUME TextInv, NEW k \in 0 .. MaxLen - 1, Text!StrIndex(k)
  PROVE  TextInv'
<1> DEFINE t == Text!CString(str.block)
           c == str.block[k + 1]
           plain == Text!PlainTo(k + 1, str.meaning)
           d == IF plain THEN <<str.meaning[k + 1]>> ELSE Lost
           m == IF plain THEN Text!Joined(<<str.meaning[k + 1]>>, list.meaning) ELSE Lost
<1>1. Holds(str.block, t) /\ (str.meaning # Lost => t = str.meaning)
  BY SpellsWhat DEF TextInv, StrRight, Spells
<1>2. /\ Len(t) \in Nat /\ k \in Nat /\ k < Len(t) /\ Len(t) < Len(str.block)
      /\ str.block \in Seq(Text!Char) /\ \A i \in 1..Len(t) : str.block[i] = t[i]
  BY <1>1, HoldsWhat, TextConstants DEF Text!StrIndex, Text!TextAssumption
<1>3. k + 1 \in 1..Len(t) /\ c \in Text!Char /\ c = t[k + 1]
  BY <1>2
<1>4. list' = [items |-> <<c>> \o list.items, meaning |-> m] /\ Text!OnlyList
  BY DEF Text!StrIndex
<1>5. ListRight
  BY DEF TextInv
<1>6. CASE ~plain
  <2>1. <<c>> \o list.items \in Seq(Text!Char)
    BY <1>3, <1>5 DEF ListRight
  <2>2. ListRight'
    BY <1>4, <1>6, <2>1 DEF ListRight, Meaning
  <2> QED
    BY <1>4, <2>2, OnlyListKeeps
<1>7. CASE plain
  <2>0. str.meaning # Lost
    BY <1>7 DEF Text!PlainTo
  <2>1. d = <<c>> /\ d \in Seq(Text!Char) /\ m = Text!Joined(d, list.meaning)
    BY <1>1, <1>3, <1>7, <2>0
  <2> HIDE DEF c, m, d
  <2>2. ListRight'
    BY <1>3, <1>4, <1>5, <2>1, Prepended
  <2> QED
    BY <1>4, <2>2, OnlyListKeeps
<1> QED
  BY <1>6, <1>7

LEMMA PrependKeeps ==
  ASSUME TextInv, NEW c \in Text!Char, Text!Prepend(c)
  PROVE  TextInv'
<1> DEFINE d == <<c>>
           m == Text!Joined(d, list.meaning)
<1>1. /\ list' = [items |-> <<c>> \o list.items, meaning |-> m] /\ Text!OnlyList
      /\ d \in Seq(Text!Char) /\ ListRight
  BY DEF Text!Prepend, TextInv
<1>2. d = <<c>>
  OBVIOUS
<1> HIDE DEF m, d
<1>3. m = Text!Joined(d, list.meaning)
  BY DEF m
<1>4. ListRight'
  BY <1>1, <1>2, <1>3, Prepended
<1> QED
  BY <1>1, <1>4, OnlyListKeeps

LEMMA UnpackKeeps ==
  ASSUME TextInv, Text!Unpack
  PROVE  TextInv'
<1>1. /\ Holds(str.block, Text!CString(str.block)) /\ str.meaning \in Meaning
      /\ (str.meaning # Lost => Text!CString(str.block) = str.meaning)
  BY SpellsWhat DEF TextInv, StrRight, Spells
<1>2. Text!CString(str.block) \in Seq(Text!Char)
  BY <1>1, HoldsWhat
<1>3. ListRight'
  BY <1>1, <1>2 DEF Text!Unpack, Text!Spelled, ListRight, Meaning
<1> QED
  BY <1>3, OnlyListKeeps DEF Text!Unpack

LEMMA PackKeeps ==
  ASSUME TextInv, Text!Pack
  PROVE  TextInv'
<1> DEFINE b == Text!FastPack(list.items)
           m == IF \E i \in DOMAIN list.items : list.items[i] = Text!NUL \/ list.items[i] >= Ascii
                  THEN Lost ELSE list.meaning
<1>1. /\ list.items \in Seq(Text!Char) /\ list.meaning \in Meaning
      /\ list.meaning # Lost => list.items = list.meaning
  BY DEF TextInv, ListRight
<1>2. /\ b \in Seq(Text!Char) /\ Text!Ends(b)
      /\ (\A i \in 1..Len(list.items) : list.items[i] # 0) => Holds(b, list.items)
  BY <1>1, FastPackHolds
<1>3. str' = Text!Value(Text!MkString(b), m) /\ Text!OnlyStr
  BY DEF Text!Pack, Text!Keep
<1>4. Holds(b, Text!CString(b))
  BY <1>2 DEF Holds
<1>5. m = Lost \/ m = Text!CString(b)
  <2>1. DOMAIN list.items = 1..Len(list.items)
    BY <1>1
  <2>2. ASSUME m # Lost PROVE Holds(b, list.items) /\ m = list.items
    BY <1>1, <1>2, <2>1, <2>2, Bytes
  <2> HIDE DEF m, b
  <2> QED
    BY <2>2 DEF Holds
<1> HIDE DEF m, b
<1>6. Holds(Text!MkString(b), Text!CString(b))
  BY <1>4, MkStringHolds
<1> QED
  BY <1>3, <1>5, <1>6, HoldsSpells, OnlyStrKeeps

(* The iterator. *)

LEMMA Joins ==
  ASSUME NEW S, NEW s \in Seq(S), NEW t \in Seq(S)
  PROVE  /\ s \o t \in Seq(S) /\ Len(s \o t) = Len(s) + Len(t)
         /\ \A i \in 1..Len(s) + Len(t) : (s \o t)[i] = IF i <= Len(s) THEN s[i] ELSE t[i - Len(s)]
  OBVIOUS

LEMMA TakenTo ==
  ASSUME NEW S, NEW b \in Seq(S), NEW p \in Nat, NEW l \in Nat, p <= l, l <= Len(b)
  PROVE  /\ Text!From(b, p, l - p) \in Seq(S) /\ Len(Text!From(b, p, l - p)) = l - p
         /\ \A i \in 1..l - p : Text!From(b, p, l - p)[i] = b[p + i]
<1> DEFINE n == l - p
<1>1. n \in Nat /\ p + n <= Len(b)
  OBVIOUS
<1> HIDE DEF n
<1>2. /\ Text!From(b, p, n) \in Seq(S) /\ Len(Text!From(b, p, n)) = n
      /\ \A i \in 1..n : Text!From(b, p, n)[i] = b[p + i]
  BY <1>1, Taken
<1> QED
  BY <1>2 DEF n

LEMMA RestOf ==
  ASSUME NEW S, NEW s \in Seq(S), NEW t \in Seq(S)
  PROVE  SubSeq(s \o t, Len(s) + 1, Len(s \o t)) = t
<1> DEFINE c == s \o t
           u == SubSeq(c, Len(s) + 1, Len(c))
<1>1. /\ c \in Seq(S) /\ Len(c) = Len(s) + Len(t)
      /\ \A i \in 1..Len(s) + Len(t) : c[i] = IF i <= Len(s) THEN s[i] ELSE t[i - Len(s)]
  OBVIOUS
<1>2. Len(s) \in Nat /\ Len(t) \in Nat
  OBVIOUS
<1> HIDE DEF c
<1>3. /\ u \in Seq(S) /\ Len(u) = Len(t)
      /\ \A i \in 1..Len(t) : u[i] = c[(Len(s) + 1) + i - 1]
  BY <1>1, <1>2
<1> HIDE DEF u
<1>4. \A i \in 1..Len(u) : u[i] = t[i]
  <2> SUFFICES ASSUME NEW i \in 1..Len(t) PROVE u[i] = t[i]
    BY <1>3
  <2>1. /\ (Len(s) + 1) + i - 1 = Len(s) + i /\ Len(s) + i \in 1..Len(s) + Len(t)
        /\ ~(Len(s) + i <= Len(s)) /\ (Len(s) + i) - Len(s) = i
    BY <1>2
  <2> QED
    BY <1>1, <1>3, <2>1
<1>5. u = t
  BY ONLY <1>3, <1>4, t \in Seq(S), SameSeq
<1> QED
  BY <1>5 DEF u, c

LEMMA IteratorNewKeeps ==
  ASSUME TextInv, NEW s \in Text!Operand, Text!IteratorNew(s)
  PROVE  TextInv'
<1> DEFINE t == Text!CString(s.block)
           l == Len(t)
           f == Text!From(s.block, 0, l + 1)
           m == Text!Malloc(l + 1)
           b == Text!Place(m, 0, f)
<1>1. Spells(s.block, s.meaning)
  BY OperandSpells DEF TextInv
<1>2. Holds(s.block, t) /\ (s.meaning # Lost => t = s.meaning) /\ s.meaning \in Meaning
  BY <1>1 DEF Spells, Holds
<1>3. /\ s.block \in Seq(Text!Char) /\ t \in Seq(Text!Char) /\ l \in Nat /\ Text!StrLen(s.block) = l
      /\ 0 + (l + 1) <= Len(s.block) /\ s.block[l + 1] = 0
      /\ \A i \in 1..l : s.block[i] = t[i] /\ t[i] # 0
  BY <1>2, HoldsWhat
<1>4. it' = [block |-> b, pos |-> 0, of |-> s.meaning, given |-> <<>>]
  BY <1>3 DEF Text!IteratorNew
<1>5. f \in Seq(Text!Char) /\ Len(f) = l + 1 /\ \A i \in 1..l + 1 : f[i] = s.block[i]
  <2> DEFINE n == l + 1
             sb == s.block
  <2>1. n \in Nat /\ 0 \in Nat /\ 0 + n <= Len(sb) /\ sb \in Seq(Text!Char)
    BY <1>3
  <2> HIDE DEF n, sb
  <2>2. /\ Text!From(sb, 0, n) \in Seq(Text!Char) /\ Len(Text!From(sb, 0, n)) = n
        /\ \A i \in 1..n : Text!From(sb, 0, n)[i] = sb[0 + i]
    BY ONLY <2>1, Taken
  <2> QED
    BY <2>2 DEF n, sb
<1>6. m \in Seq(Cell) /\ Len(m) = l + 1
  <2>1. l + 1 \in Nat
    BY <1>3
  <2> QED
    BY <2>1, Fresh
<1> HIDE DEF t
<1> HIDE DEF m, f
<1>7. b \in Seq(Text!Char) /\ Len(b) = l + 1 /\ \A i \in 1..l + 1 : b[i] = s.block[i]
  <2>1. f \in Seq(Cell) /\ 0 \in Nat /\ 0 + Len(f) <= Len(m)
    BY <1>3, <1>5, <1>6, Wider
  <2>2. /\ b \in Seq(Cell) /\ Len(b) = Len(m)
        /\ \A i \in 1..Len(m) : b[i] = IF 0 < i /\ i <= 0 + Len(f) THEN f[i - 0] ELSE m[i]
    BY ONLY <1>6, <2>1, Placed
  <2> HIDE DEF b
  <2>3. Len(b) = l + 1 /\ \A i \in 1..l + 1 : b[i] = f[i]
    BY <1>3, <1>5, <1>6, <2>2
  <2>4. \A i \in 1..Len(b) : b[i] \in Text!Char
    BY <1>5, <2>3
  <2>5. b \in Seq(Text!Char)
    BY <2>2, <2>4, Filled
  <2> QED
    BY <1>5, <2>3, <2>5
<1> HIDE DEF b
<1>8. Holds(b, t)
  <2>1. b[l + 1] = 0 /\ \A i \in 1..l : b[i] = t[i] /\ t[i] # 0
    BY <1>3, <1>7
  <2> QED
    BY <1>3, <1>7, <2>1, Reads
<1>9. Text!StrLen(b) = l /\ Text!CString(b) = t /\ Text!Ends(b)
  BY <1>8, HoldsWhat
<1>10. Text!From(b, 0, Text!StrLen(b) - 0) = t
  BY <1>3, <1>9 DEF Text!CString
<1> DEFINE e == <<>>
<1>11. e \in Seq(Text!Char) /\ e \o t = t
  BY <1>3
<1> HIDE DEF e
<1>12. it' = [block |-> b, pos |-> 0, of |-> s.meaning, given |-> e]
  BY <1>4 DEF e
<1>13. ItRight'
  <2>1. it' \in Iterator
    BY <1>2, <1>7, <1>11, <1>12 DEF Iterator
  <2>2. it'.block = b /\ it'.pos = 0 /\ it'.of = s.meaning /\ it'.given = e
    BY <1>12
  <2> QED
    BY <1>2, <1>3, <1>9, <1>10, <1>11, <2>1, <2>2 DEF ItRight
<1> QED
  BY <1>13 DEF TextInv, Flags, StrRight, ListRight, BufRight, Text!IteratorNew

\* One character further, and the same text.
LEMMA Advanced ==
  ASSUME NEW b \in Seq(Text!Char), NEW g \in Seq(Text!Char), NEW p \in Nat, NEW l \in Nat,
         p < l, l <= Len(b)
  PROVE  Append(g, b[p + 1]) \o Text!From(b, p + 1, l - (p + 1)) = g \o Text!From(b, p, l - p)
<1> DEFINE h == Append(g, b[p + 1])
           x == Text!From(b, p + 1, l - (p + 1))
           y == Text!From(b, p, l - p)
<1>1. /\ h \in Seq(Text!Char) /\ Len(h) = Len(g) + 1 /\ h[Len(g) + 1] = b[p + 1]
      /\ \A i \in 1..Len(g) : h[i] = g[i]
  <2>1. b[p + 1] \in Text!Char
    OBVIOUS
  <2> QED
    BY <2>1
<1>2. /\ x \in Seq(Text!Char) /\ Len(x) = l - (p + 1)
      /\ \A i \in 1..l - (p + 1) : x[i] = b[(p + 1) + i]
  <2> DEFINE q == p + 1
  <2>1. q \in Nat /\ q <= l
    OBVIOUS
  <2> HIDE DEF q
  <2>2. /\ Text!From(b, q, l - q) \in Seq(Text!Char) /\ Len(Text!From(b, q, l - q)) = l - q
        /\ \A i \in 1..l - q : Text!From(b, q, l - q)[i] = b[q + i]
    BY <2>1, TakenTo
  <2> QED
    BY <2>2 DEF q
<1>3. y \in Seq(Text!Char) /\ Len(y) = l - p /\ \A i \in 1..l - p : y[i] = b[p + i]
  <2>1. p <= l
    OBVIOUS
  <2> QED
    BY <2>1, TakenTo
<1> HIDE DEF h, x, y
<1> DEFINE u == h \o x
           v == g \o y
<1>4. /\ u \in Seq(Text!Char) /\ Len(u) = Len(h) + Len(x)
      /\ \A i \in 1..Len(h) + Len(x) : u[i] = IF i <= Len(h) THEN h[i] ELSE x[i - Len(h)]
  BY <1>1, <1>2, Joins
<1>5. /\ v \in Seq(Text!Char) /\ Len(v) = Len(g) + Len(y)
      /\ \A i \in 1..Len(g) + Len(y) : v[i] = IF i <= Len(g) THEN g[i] ELSE y[i - Len(g)]
  BY <1>3, Joins
<1> HIDE DEF u, v
<1>6. Len(g) \in Nat /\ Len(u) = Len(g) + (l - p) /\ Len(v) = Len(g) + (l - p)
  BY <1>1, <1>2, <1>3, <1>4, <1>5
<1>7. \A i \in 1..Len(u) : u[i] = v[i]
  <2> SUFFICES ASSUME NEW i \in 1..Len(u) PROVE u[i] = v[i]
    OBVIOUS
  <2>0. i \in 1..Len(g) + (l - p) /\ i \in 1..Len(h) + Len(x) /\ i \in 1..Len(g) + Len(y)
    BY <1>1, <1>2, <1>3, <1>6
  <2>a. u[i] = IF i <= Len(h) THEN h[i] ELSE x[i - Len(h)]
    BY ONLY <2>0, <1>4
  <2>b. v[i] = IF i <= Len(g) THEN g[i] ELSE y[i - Len(g)]
    BY ONLY <2>0, <1>5
  <2>1. CASE i <= Len(g)
    <3>1. i \in 1..Len(g) /\ i <= Len(h)
      BY <2>0, <2>1, <1>1, <1>6
    <3> QED
      BY <1>1, <2>1, <2>a, <2>b, <3>1
  <2>2. CASE i = Len(g) + 1
    <3>1. i <= Len(h) /\ ~(i <= Len(g)) /\ i - Len(g) = 1 /\ 1 \in 1..l - p
      BY <2>2, <1>1, <1>6
    <3>2. u[i] = b[p + 1]
      BY <1>1, <2>2, <2>a, <3>1
    <3>3. v[i] = b[p + 1]
      BY <1>3, <2>b, <3>1
    <3> QED
      BY <3>2, <3>3
  <2>3. CASE i > Len(g) + 1
    <3> DEFINE j == i - Len(h)
    <3>1. /\ ~(i <= Len(h)) /\ ~(i <= Len(g)) /\ j \in 1..l - (p + 1) /\ i - Len(g) = j + 1
          /\ j + 1 \in 1..l - p /\ (p + 1) + j = p + (j + 1)
      BY <2>0, <2>3, <1>1, <1>6
    <3>2. u[i] = x[j]
      BY <2>a, <3>1
    <3>3. v[i] = y[j + 1]
      BY <2>b, <3>1
    <3> HIDE DEF j
    <3>4. x[j] = b[(p + 1) + j] /\ y[j + 1] = b[p + (j + 1)]
      BY <1>2, <1>3, <3>1
    <3> QED
      BY <3>1, <3>2, <3>3, <3>4
  <2> QED
    BY <2>0, <2>1, <2>2, <2>3, <1>6
<1>8. u = v
  BY ONLY <1>4, <1>5, <1>6, <1>7, SameSeq
<1> QED
  BY <1>8 DEF u, v, h, x, y

\* What the invariant says of an open iterator.
LEMMA ItWhat ==
  ASSUME TextInv, it # None
  PROVE  /\ it.block \in Seq(Text!Char) /\ Text!Ends(it.block)
         /\ it.given \in Seq(Text!Char) /\ it.of \in Meaning /\ it \in Iterator
         /\ Text!StrLen(it.block) \in Nat /\ it.pos \in Nat /\ it.pos <= Text!StrLen(it.block)
         /\ Text!StrLen(it.block) < Len(it.block) /\ Len(it.block) \in Nat
         /\ it.block[Text!StrLen(it.block) + 1] = 0
         /\ \A i \in 1..Text!StrLen(it.block) : it.block[i] # 0
         /\ it.of # Lost =>
              it.given \o Text!From(it.block, it.pos, Text!StrLen(it.block) - it.pos) = it.of
<1>1. /\ it \in Iterator /\ Text!Ends(it.block) /\ it.pos \in 0 .. Text!StrLen(it.block)
      /\ it.of # Lost =>
           it.given \o Text!From(it.block, it.pos, Text!StrLen(it.block) - it.pos) = it.of
  BY DEF TextInv, ItRight
<1>2. /\ it.block \in Seq(Text!Char) /\ it.given \in Seq(Text!Char) /\ it.of \in Meaning /\ it.pos \in Nat
  BY <1>1 DEF Iterator
<1>3. /\ Text!StrLen(it.block) \in 0 .. Len(it.block) - 1 /\ it.block[Text!StrLen(it.block) + 1] = 0
      /\ \A i \in 1..Text!StrLen(it.block) : it.block[i] # 0
      /\ Text!StrLen(it.block) \in Nat /\ Len(it.block) \in Nat
  BY <1>1, <1>2, StrLenType
<1> DEFINE l == Text!StrLen(it.block)
           n == Len(it.block)
           p == it.pos
<1>4. l \in Nat /\ p <= l /\ l < n
  <2>1. l \in 0 .. n - 1 /\ p \in 0 .. l /\ l \in Nat /\ n \in Nat
    BY <1>1, <1>3
  <2> HIDE DEF l, n, p
  <2> QED
    BY <2>1
<1> QED
  BY <1>1, <1>2, <1>3, <1>4

LEMMA IteratorNextKeeps ==
  ASSUME TextInv, Text!IteratorNext
  PROVE  TextInv'
<1> DEFINE b == it.block
           l == Text!StrLen(b)
           p == it.pos
           c == b[p + 1]
<1>1. it # None /\ c # 0 /\ it' = [it EXCEPT !.pos = @ + 1, !.given = Append(@, c)]
  BY Bytes DEF Text!IteratorNext
<1>2. /\ b \in Seq(Text!Char) /\ Text!Ends(b)
      /\ it.given \in Seq(Text!Char) /\ it.of \in Meaning /\ it \in Iterator
      /\ l \in Nat /\ p \in Nat /\ p <= l /\ l < Len(b) /\ Len(b) \in Nat /\ b[l + 1] = 0
      /\ it.of # Lost => it.given \o Text!From(b, p, l - p) = it.of
  BY <1>1, ItWhat
<1>3. p < l /\ c \in Text!Char
  BY <1>1, <1>2
<1>4. /\ it' \in Iterator /\ it'.block = it.block /\ it'.pos = p + 1 /\ it'.of = it.of
      /\ it'.given = Append(it.given, c)
  <2> HIDE DEF c, b, l, p
  <2>1. Append(it.given, c) \in Seq(Text!Char) /\ it.pos + 1 \in Nat
    BY <1>2, <1>3 DEF p
  <2> QED
    BY <1>1, <1>2, <2>1 DEF Iterator, p
<1>5. Append(it.given, c) \o Text!From(b, p + 1, l - (p + 1)) = it.given \o Text!From(b, p, l - p)
  <2>1. l <= Len(b)
    BY <1>2
  <2> HIDE DEF b, l, p
  <2> QED
    BY <1>2, <1>3, <2>1, Advanced DEF c
<1>6. ItRight'
  <2> DEFINE i2 == it'
  <2>1. /\ i2 \in Iterator /\ i2.block = b /\ i2.pos = p + 1 /\ i2.of = it.of
        /\ i2.given = Append(it.given, c)
    BY <1>4
  <2>2. p + 1 \in 0 .. l
    BY <1>2, <1>3
  <2>3. i2.of # Lost => i2.given \o Text!From(i2.block, i2.pos, Text!StrLen(i2.block) - i2.pos) = i2.of
    BY <1>2, <1>5, <2>1
  <2>4. Text!Ends(i2.block) /\ i2.pos \in 0 .. Text!StrLen(i2.block)
    BY <1>2, <2>1, <2>2
  <2> HIDE DEF i2
  <2>5. i2 # None => /\ i2 \in Iterator /\ Text!Ends(i2.block) /\ i2.pos \in 0 .. Text!StrLen(i2.block)
                     /\ i2.of # Lost =>
                          i2.given \o Text!From(i2.block, i2.pos, Text!StrLen(i2.block) - i2.pos) = i2.of
    BY <2>1, <2>3, <2>4
  <2> QED
    BY <2>5 DEF i2, ItRight
<1> QED
  BY <1>6 DEF TextInv, Flags, StrRight, ListRight, BufRight, Text!IteratorNext

LEMMA IteratorEOFKeeps ==
  ASSUME TextInv, Text!IteratorEOF
  PROVE  TextInv'
<1> DEFINE b == it.block
           l == Text!StrLen(b)
           p == it.pos
           e == Text!From(b, p, l - p)
<1>1. /\ it # None /\ b[p + 1] = 0 /\ it' = None
      /\ list' = [items |-> it.given, meaning |-> Text!Spelled(it.of)]
  BY Bytes DEF Text!IteratorEOF
<1>2. /\ b \in Seq(Text!Char) /\ it.given \in Seq(Text!Char) /\ it.of \in Meaning
      /\ l \in Nat /\ p \in Nat /\ p <= l /\ l < Len(b) /\ \A i \in 1..l : b[i] # 0
      /\ it.of # Lost => it.given \o e = it.of
  BY <1>1, ItWhat
<1>3. p = l
  BY <1>1, <1>2
<1>4. e = <<>>
  BY <1>2, <1>3 DEF Text!From
<1>5. it.of # Lost => it.given = it.of
  <2>1. it.given \o <<>> = it.given
    BY <1>2
  <2> QED
    BY <1>2, <1>4, <2>1
<1>6. ListRight'
  BY <1>1, <1>2, <1>5 DEF ListRight, Text!Spelled, Meaning
<1>7. ItRight'
  BY <1>1 DEF ItRight
<1> QED
  BY <1>6, <1>7 DEF TextInv, Flags, StrRight, BufRight, Text!IteratorEOF

LEMMA IteratorToStringKeeps ==
  ASSUME TextInv, Text!IteratorToString
  PROVE  TextInv'
<1> DEFINE b == it.block
           l == Text!StrLen(b)
           p == it.pos
           t == Text!From(b, p, l - p)
           f == Text!From(b, p, Len(b) - p)
           m == IF Text!PlainTo(Len(it.given), it.of)
                  THEN SubSeq(it.of, Len(it.given) + 1, Len(it.of)) ELSE Lost
<1>1. it # None /\ str' = Text!Value(Text!MkString(f), m) /\ it' = None
  BY DEF Text!IteratorToString, Text!IteratorRest
<1>2. /\ b \in Seq(Text!Char) /\ it.given \in Seq(Text!Char) /\ it.of \in Meaning
      /\ l \in Nat /\ p \in Nat /\ p <= l /\ l < Len(b) /\ Len(b) \in Nat
      /\ b[l + 1] = 0 /\ \A i \in 1..l : b[i] # 0
      /\ it.of # Lost => it.given \o t = it.of
  BY <1>1, ItWhat
<1>3. t \in Seq(Text!Char) /\ Len(t) = l - p /\ \A i \in 1..l - p : t[i] = b[p + i]
  <2>1. l <= Len(b)
    BY <1>2
  <2> HIDE DEF l, p, b
  <2> QED
    BY <1>2, <2>1, TakenTo
<1>4. f \in Seq(Text!Char) /\ Len(f) = Len(b) - p /\ \A i \in 1..Len(b) - p : f[i] = b[p + i]
  <2> DEFINE n == Len(b)
  <2>1. n \in Nat /\ p <= n /\ n <= Len(b)
    BY <1>2
  <2> HIDE DEF l, p, b, n
  <2>2. /\ Text!From(b, p, n - p) \in Seq(Text!Char) /\ Len(Text!From(b, p, n - p)) = n - p
        /\ \A i \in 1..n - p : Text!From(b, p, n - p)[i] = b[p + i]
    <3>1. b \in Seq(Text!Char) /\ p \in Nat
      BY <1>2
    <3> QED
      BY ONLY <2>1, <3>1, TakenTo
  <2> QED
    BY <2>2 DEF n
<1>5. m = Lost \/ m = t
  <2>1. CASE it.of = Lost
    BY <2>1 DEF Text!PlainTo
  <2>2. CASE it.of # Lost
    <3>1. it.of = it.given \o t
      BY <1>2, <2>2
    <3>2. SubSeq(it.given \o t, Len(it.given) + 1, Len(it.given \o t)) = t
      BY ONLY <1>2, <1>3, RestOf
    <3> QED
      BY ONLY <3>1, <3>2 DEF m
  <2> QED
    BY <2>1, <2>2
<1> HIDE DEF t, f, m
<1> HIDE DEF l, p, b
<1>6. Holds(f, t)
  <2>1. Len(t) < Len(f) /\ \A i \in 1..Len(t) : p + i \in 1..l /\ f[i] = t[i] /\ t[i] # 0
    BY <1>2, <1>3, <1>4
  <2>2. Len(t) + 1 \in 1..Len(b) - p /\ p + (Len(t) + 1) = l + 1
    BY <1>2, <1>3
  <2>3. f[Len(t) + 1] = b[p + (Len(t) + 1)]
    BY <1>4, <2>2
  <2> QED
    BY <1>2, <1>3, <1>4, <2>1, <2>2, <2>3, Reads
<1>7. Spells(Text!MkString(f), m)
  BY <1>5, <1>6, MkStringHolds, HoldsSpells
<1>8. StrRight'
  BY <1>1, <1>7 DEF StrRight, Text!Value
<1>9. ItRight'
  BY <1>1 DEF ItRight
<1> QED
  BY <1>8, <1>9 DEF TextInv, Flags, ListRight, BufRight, Text!IteratorToString

(***************************************************************************)
(* The buffer                                                              *)
(***************************************************************************)
\* A program that ends keeps everything else.
LEMMA StatusKeeps ==
  ASSUME TextInv, status' \in {"stopped", "crashed"}, UNCHANGED <<uses, str, list, it, buf, slots>>
  PROVE  TextInv'
  BY DEF TextInv, Flags, StrRight, ListRight, ItRight, BufRight

LEMMA OnlyBufKeeps ==
  ASSUME TextInv, UNCHANGED <<uses, str, list, it, status>>, BufRight'
  PROVE  TextInv'
  BY DEF TextInv, Flags, StrRight, ListRight, ItRight

\* What was written is kept while its bytes are, wherever they go.
LEMMA KeptWithItsBytes ==
  ASSUME NEW s \in SlotType, NEW z \in SlotType, s.kind = z.kind, s.len = z.len, s.val = z.val,
         NEW d \in Seq(Text!Char), NEW e \in Seq(Text!Char),
         Lies(s, d), Lies(z, e), Keeps(s, d),
         \A i \in 1..s.len : d[s.loc + i] = e[z.loc + i]
  PROVE  Keeps(z, e)
<1> DEFINE n == s.len
           l == s.loc
           m == z.loc
           k == s.kind
<1>1. n \in Nat /\ l \in Nat /\ m \in Nat
  BY DEF SlotType
<1>2. Alike(d, l, e, m, n)
  BY DEF Alike, Lies
<1> HIDE DEF n, l, m, k
<1>3. d \in Seq(Text!Char) /\ e \in Seq(Text!Char)
  OBVIOUS
<1>4. Text!Number(k, d, l, n) = Text!Number(k, e, m, n)
  <2>1. Text!BufferUIntLE(d, l, n) = Text!BufferUIntLE(e, m, n)
    BY ONLY <1>1, <1>2, <1>3, SameNumber
  <2> QED
    BY <2>1 DEF Text!Number
<1>5. Text!CString(Text!MkString(Text!BufferString(d, l, n)))
        = Text!CString(Text!MkString(Text!BufferString(e, m, n)))
  BY ONLY <1>1, <1>2, <1>3, SameText
<1> QED
  BY <1>4, <1>5 DEF Keeps, n, l, m, k

LEMMA SlotWhat ==
  ASSUME NEW s \in SlotType
  PROVE  s.kind \in {"unsigned", "signed", "text"} /\ s.loc \in Nat /\ s.len \in Nat /\ s.val \in Seq(Int)
  BY DEF SlotType

\* Bytes are written, and new slots lie where they are.
LEMMA WriteKeeps ==
  ASSUME TextInv, UNCHANGED <<uses, str, list, it, status>>,
         NEW bytes \in Seq(Text!Char), NEW n, n = Len(bytes), NEW loc \in Int, Text!InRange(loc, n),
         buf' = Text!Place(buf, loc, bytes),
         NEW new \in SUBSET SlotType, slots' = Text!Spared(loc, n) \cup new,
         \A s \in new : loc <= s.loc /\ s.loc + s.len <= loc + n /\ Keeps(s, buf'),
         \A s, t \in new : s = t \/ Text!Apart(s, t.loc, t.len)
  PROVE  TextInv'
<1>1. /\ buf \in Seq(Text!Char) /\ Len(buf) <= MaxSize /\ slots \subseteq SlotType
      /\ \A s \in slots : Lies(s, buf) /\ Keeps(s, buf)
      /\ \A s, t \in slots : s = t \/ Text!Apart(s, t.loc, t.len)
  BY DEF TextInv, BufRight
<1>2. loc \in Nat /\ n \in Nat /\ loc + n <= Len(buf) /\ Len(buf) \in Nat
  BY <1>1 DEF Text!InRange
<1>3. /\ buf' \in Seq(Text!Char) /\ Len(buf') = Len(buf)
      /\ \A i \in 1..Len(buf) :
           buf'[i] = IF loc < i /\ i <= loc + n THEN bytes[i - loc] ELSE buf[i]
  BY <1>1, <1>2, Placed
<1>4. ASSUME NEW s \in Text!Spared(loc, n) PROVE Lies(s, buf') /\ Keeps(s, buf') /\ s \in SlotType
  <2>1. s \in slots /\ s \in SlotType /\ Lies(s, buf) /\ Keeps(s, buf)
        /\ (s.loc + s.len <= loc \/ loc + n <= s.loc)
    BY <1>1 DEF Text!Spared, Text!Apart
  <2>2. s.loc \in Nat /\ s.len \in Nat
    BY <2>1, SlotWhat
  <2>3. Lies(s, buf')
    BY <1>3, <2>1 DEF Lies
  <2>4. \A i \in 1..s.len : buf[s.loc + i] = buf'[s.loc + i]
    <3> SUFFICES ASSUME NEW i \in 1..s.len PROVE buf[s.loc + i] = buf'[s.loc + i]
      OBVIOUS
    <3>1. s.loc + i \in 1..Len(buf) /\ ~(loc < s.loc + i /\ s.loc + i <= loc + n)
      BY <1>2, <2>1, <2>2 DEF Lies
    <3> QED
      BY <1>3, <3>1
  <2>5. Keeps(s, buf')
    BY <1>1, <1>3, <2>1, <2>3, <2>4, KeptWithItsBytes
  <2> QED
    BY <2>1, <2>3, <2>5
<1>5. ASSUME NEW s \in new PROVE Lies(s, buf') /\ Keeps(s, buf') /\ s \in SlotType
  <2>1. s.loc \in Nat /\ s.len \in Nat
    BY SlotWhat
  <2> QED
    BY <1>2, <1>3, <2>1 DEF Lies
<1>6. ASSUME NEW s \in slots', NEW t \in slots' PROVE s = t \/ Text!Apart(s, t.loc, t.len)
  <2>1. CASE s \in new /\ t \in new
    BY <2>1
  <2>2. CASE s \in Text!Spared(loc, n) /\ t \in Text!Spared(loc, n)
    BY <2>2, <1>1 DEF Text!Spared
  <2>3. CASE s \in new /\ t \in Text!Spared(loc, n)
    <3>1. loc <= s.loc /\ s.loc + s.len <= loc + n /\ (t.loc + t.len <= loc \/ loc + n <= t.loc)
      BY <2>3 DEF Text!Spared, Text!Apart
    <3>2. s.loc \in Nat /\ s.len \in Nat /\ t.loc \in Nat /\ t.len \in Nat
      BY <2>3, <1>4, SlotWhat
    <3> QED
      BY <1>2, <3>1, <3>2 DEF Text!Apart
  <2>4. CASE t \in new /\ s \in Text!Spared(loc, n)
    <3>1. loc <= t.loc /\ t.loc + t.len <= loc + n /\ (s.loc + s.len <= loc \/ loc + n <= s.loc)
      BY <2>4 DEF Text!Spared, Text!Apart
    <3>2. s.loc \in Nat /\ s.len \in Nat /\ t.loc \in Nat /\ t.len \in Nat
      BY <2>4, <1>4, SlotWhat
    <3> QED
      BY <1>2, <3>1, <3>2 DEF Text!Apart
  <2> QED
    BY <2>1, <2>2, <2>3, <2>4
<1>7. BufRight'
  <2>1. slots' \subseteq SlotType /\ \A s \in slots' : Lies(s, buf') /\ Keeps(s, buf')
    BY <1>4, <1>5
  <2>2. buf' \in Seq(Text!Char) /\ Len(buf') <= MaxSize
    BY <1>1, <1>3
  <2>3. (\A s \in slots : Lies(s, buf) /\ Keeps(s, buf))' <=> \A s \in slots' : Lies(s, buf') /\ Keeps(s, buf')
    BY DEF Lies, Keeps
  <2> QED
    BY <1>6, <2>1, <2>2, <2>3 DEF BufRight
<1> QED
  BY <1>7, OnlyBufKeeps

\* A slot that is alone where bytes are written.
LEMMA OneSlot ==
  ASSUME NEW kind \in {"unsigned", "signed", "text"}, NEW loc \in Nat, NEW n \in Nat, NEW val \in Seq(Int)
  PROVE  /\ Text!Slot(kind, loc, n, val) \in SlotType
         /\ Text!Slot(kind, loc, n, val).kind = kind /\ Text!Slot(kind, loc, n, val).loc = loc
         /\ Text!Slot(kind, loc, n, val).len = n /\ Text!Slot(kind, loc, n, val).val = val
  BY DEF Text!Slot, SlotType

LEMMA OneSlotKeeps ==
  ASSUME TextInv, UNCHANGED <<uses, str, list, it, status>>,
         NEW bytes \in Seq(Text!Char), NEW n, n = Len(bytes), NEW loc \in Int, Text!InRange(loc, n),
         buf' = Text!Place(buf, loc, bytes),
         NEW s \in SlotType, s.loc = loc, s.len = n, Keeps(s, buf'),
         slots' = Text!Spared(loc, n) \cup {s}
  PROVE  TextInv'
<1> DEFINE new == {s}
<1>1. new \in SUBSET SlotType /\ slots' = Text!Spared(loc, n) \cup new
  OBVIOUS
<1>2. \A t \in new : loc <= t.loc /\ t.loc + t.len <= loc + n /\ Keeps(t, buf')
  BY SlotWhat
<1>3. \A t, u \in new : t = u \/ Text!Apart(t, u.loc, u.len)
  OBVIOUS
<1> HIDE DEF new
<1> QED
  BY <1>1, <1>2, <1>3, WriteKeeps

LEMMA SetNumberKeeps ==
  ASSUME TextInv, NEW kind \in {"unsigned", "signed"}, NEW loc \in Text!Location, NEW w \in Width,
         NEW v \in Text!Numbers(kind, w), Text!SetNumber(kind, loc, w, v)
  PROVE  TextInv'
<1> DEFINE bytes == Text!UIntLE(v, w)
           s == Text!Slot(kind, loc, w, <<v>>)
<1>1. w \in Nat /\ loc \in Int
  BY TextConstants DEF Text!TextAssumption, Text!Location
<1>2. CASE Text!Stop
  BY <1>2, StatusKeeps DEF Text!Stop
<1>3. CASE /\ Text!InRange(loc, w) /\ buf' = Text!Place(buf, loc, bytes)
           /\ slots' = Text!Spared(loc, w) \cup {s}
           /\ UNCHANGED <<uses, str, list, it, status>>
  <2>1. v \in Int
    <3>1. PICK p \in [0..w -> Nat \ {0}] : Text!Power(w) = p[w]
      BY <1>1, PowerIs
    <3>2. Text!Power(w) \in Nat
      BY <1>1, <3>1
    <3> QED
      BY <3>2 DEF Text!Numbers
  <2>2. bytes \in Seq(Text!Char) /\ Len(bytes) = w
    BY <1>1, <2>1, UIntLEType
  <2>3. buf \in Seq(Text!Char) /\ loc \in Nat /\ loc + w <= Len(buf) /\ Len(buf) \in Nat
    BY <1>1, <1>3 DEF TextInv, BufRight, Text!InRange
  <2> HIDE DEF bytes
  <2>4. /\ buf' \in Seq(Text!Char) /\ Len(buf') = Len(buf)
        /\ \A i \in 1..Len(buf) :
             buf'[i] = IF loc < i /\ i <= loc + Len(bytes) THEN bytes[i - loc] ELSE buf[i]
    BY <1>3, <2>2, <2>3, Placed
  <2>5. \A i \in 1..w : buf'[loc + i] = bytes[i]
    <3> SUFFICES ASSUME NEW i \in 1..w PROVE buf'[loc + i] = bytes[i]
      OBVIOUS
    <3>1. loc + i \in 1..Len(buf) /\ loc < loc + i /\ loc + i <= loc + w /\ (loc + i) - loc = i
      BY <1>1, <2>3
    <3> QED
      BY <2>2, <2>4, <3>1
  <2>6. Text!Number(kind, buf', loc, w) = v
    <3>1. loc + w <= Len(buf')
      BY <2>3, <2>4
    <3> QED
      BY <1>1, <2>3, <2>4, <2>5, <3>1, NumberBack DEF bytes
  <2>7. /\ s \in SlotType /\ s.kind = kind /\ s.loc = loc /\ s.len = w /\ s.val = <<v>>
    <3> DEFINE val == <<v>>
    <3>1. val \in Seq(Int)
      BY <2>1
    <3>2. kind \in {"unsigned", "signed", "text"}
      OBVIOUS
    <3> HIDE DEF val
    <3>3. /\ Text!Slot(kind, loc, w, val) \in SlotType
          /\ Text!Slot(kind, loc, w, val).kind = kind /\ Text!Slot(kind, loc, w, val).loc = loc
          /\ Text!Slot(kind, loc, w, val).len = w /\ Text!Slot(kind, loc, w, val).val = val
      BY ONLY <1>1, <2>3, <3>1, <3>2, OneSlot
    <3> QED
      BY <3>3 DEF val
  <2> HIDE DEF s
  <2>8. Keeps(s, buf')
    BY <2>6, <2>7 DEF Keeps
  <2> QED
    BY <1>1, <1>3, <2>2, <2>3, <2>7, <2>8, OneSlotKeeps
<1> QED
  BY <1>2, <1>3 DEF Text!SetNumber

LEMMA SetStringKeeps ==
  ASSUME TextInv, NEW loc \in Text!Location, NEW a \in Text!Operand, Text!SetString(loc, a)
  PROVE  TextInv'
<1> DEFINE t == Text!CString(a.block)
           n == Text!StrLen(a.block)
           s == Text!Slot("text", loc, n, a.meaning)
           new == IF a.meaning = Lost \/ n = 0 THEN {} ELSE {s}
<1>0. loc \in Int
  BY TextConstants DEF Text!TextAssumption, Text!Location
<1>1. Spells(a.block, a.meaning)
  BY OperandSpells DEF TextInv
<1>2. Holds(a.block, t) /\ (a.meaning # Lost => t = a.meaning)
  BY <1>1 DEF Spells, Holds
<1>3. t \in Seq(Text!Char) /\ Len(t) = n /\ n \in Nat /\ \A i \in 1..n : t[i] # 0
  BY <1>2, HoldsWhat
<1>4. CASE Text!Stop
  BY <1>4, StatusKeeps DEF Text!Stop
<1>5. CASE /\ Text!InRange(loc, n) /\ buf' = Text!Place(buf, loc, t)
           /\ slots' = Text!Spared(loc, n) \cup new
           /\ UNCHANGED <<uses, str, list, it, status>>
  <2>1. buf \in Seq(Text!Char) /\ loc \in Nat /\ loc + n <= Len(buf) /\ Len(buf) \in Nat
    BY <1>0, <1>3, <1>5 DEF TextInv, BufRight, Text!InRange
  <2> HIDE DEF t, n
  <2>2. /\ buf' \in Seq(Text!Char) /\ Len(buf') = Len(buf)
        /\ \A i \in 1..Len(buf) :
             buf'[i] = IF loc < i /\ i <= loc + Len(t) THEN t[i - loc] ELSE buf[i]
    BY <1>3, <1>5, <2>1, Placed
  <2>3. \A i \in 1..Len(t) : buf'[loc + i] = t[i] /\ t[i] # 0
    <3> SUFFICES ASSUME NEW i \in 1..Len(t) PROVE buf'[loc + i] = t[i] /\ t[i] # 0
      OBVIOUS
    <3>1. loc + i \in 1..Len(buf) /\ loc < loc + i /\ loc + i <= loc + Len(t) /\ (loc + i) - loc = i
      BY <1>3, <2>1
    <3> QED
      BY <1>3, <2>2, <3>1
  <2>4. Text!CString(Text!MkString(Text!BufferString(buf', loc, n))) = t
    <3>1. loc + Len(t) <= Len(buf')
      BY <1>3, <2>1, <2>2
    <3>2. Text!CString(Text!MkString(Text!BufferString(buf', loc, Len(t)))) = t
      BY <1>3, <2>1, <2>2, <2>3, <3>1, TextBack
    <3> QED
      BY <1>3, <3>2
  <2>5. CASE new = {}
    <3>1. new \in SUBSET SlotType
      BY <2>5
    <3> QED
      BY <1>0, <1>3, <1>5, <2>1, <2>5, <3>1, WriteKeeps
  <2>6. CASE new = {s} /\ a.meaning # Lost
    <3>1. /\ s \in SlotType /\ s.kind = "text" /\ s.loc = loc /\ s.len = n /\ s.val = t
      <4>1. a.meaning = t
        BY <1>2, <2>6
      <4>2. \A i \in 1..Len(t) : t[i] \in Text!Char
        BY <1>3
      <4>3. \A i \in 1..Len(t) : t[i] \in Int
        BY <4>2, Bytes DEF Text!Char
      <4>4. t \in Seq(Int)
        BY <1>3, <4>3
      <4> QED
        BY <1>3, <2>1, <4>1, <4>4, OneSlot
    <3> HIDE DEF s
    <3>2. Keeps(s, buf')
      BY <2>4, <3>1 DEF Keeps
    <3> QED
      BY <1>0, <1>3, <1>5, <2>1, <2>6, <3>1, <3>2, OneSlotKeeps
  <2> QED
    BY <2>5, <2>6
<1> QED
  BY <1>4, <1>5 DEF Text!SetString

LEMMA GetStringKeeps ==
  ASSUME TextInv, NEW loc \in Text!Location, NEW n \in 0..MaxSize, Text!GetString(loc, n)
  PROVE  TextInv'
<1> DEFINE At(s) == s.kind = "text" /\ s.loc = loc /\ s.len = n
           b == Text!BufferString(buf, loc, n)
           m == IF \E s \in slots : At(s) THEN (CHOOSE s \in slots : At(s)).val ELSE Lost
<1>0. loc \in Int /\ n \in Nat
  BY TextConstants DEF Text!TextAssumption, Text!Location
<1>1. CASE Text!Stop
  BY <1>1, StatusKeeps DEF Text!Stop
<1>2. CASE Text!InRange(loc, n) /\ str' = Text!Value(Text!MkString(b), m) /\ Text!OnlyStr
  <2>1. /\ buf \in Seq(Text!Char) /\ loc \in Nat /\ loc + n <= Len(buf)
        /\ \A s \in slots : Keeps(s, buf)
    BY <1>0, <1>2 DEF TextInv, BufRight, Text!InRange
  <2> DEFINE t == Text!CString(Text!From(buf, loc, n) \o <<0>>)
  <2>2. Holds(b, t)
    BY <1>0, <2>1, BufferStringHolds
  <2> HIDE DEF t
  <2>3. Holds(Text!MkString(b), t)
    BY <2>2, MkStringHolds
  <2>4. m = Lost \/ m = t
    <3>1. CASE \E s \in slots : At(s)
      <4> DEFINE s == CHOOSE s \in slots : At(s)
      <4>1. s \in slots /\ At(s)
        BY <3>1
      <4>2. m = s.val
        BY <3>1
      <4> HIDE DEF s
      <4>3. s.val = Text!CString(Text!MkString(b))
        BY <2>1, <4>1 DEF Keeps
      <4> HIDE DEF m, b
      <4> QED
        BY <2>3, <4>2, <4>3 DEF Holds
    <3>2. CASE ~ \E s \in slots : At(s)
      BY <3>2
    <3> QED
      BY <3>1, <3>2
  <2> HIDE DEF m, b
  <2> QED
    BY <1>2, <2>3, <2>4, HoldsSpells, OnlyStrKeeps
<1> QED
  BY <1>1, <1>2 DEF Text!GetString, Text!Keep

\* A byte that is zero reads as the number 0.
LEMMA ZeroByte ==
  ASSUME NEW b \in Seq(Text!Char), NEW locs \in SUBSET Nat, NEW s \in Text!ZeroBytes(locs),
         \A l \in locs : l + 1 <= Len(b) /\ b[l + 1] = 0
  PROVE  s \in SlotType /\ s.loc \in locs /\ s.len = 1 /\ Keeps(s, b) /\ Lies(s, b)
<1>1. PICK loc \in locs : s = Text!Slot("unsigned", loc, 1, <<0>>)
  BY DEF Text!ZeroBytes
<1>2. s \in SlotType /\ s.kind = "unsigned" /\ s.loc = loc /\ s.len = 1 /\ s.val = <<0>>
  <2> DEFINE val == <<0>>
  <2>1. val \in Seq(Int) /\ "unsigned" \in {"unsigned", "signed", "text"} /\ loc \in Nat /\ 1 \in Nat
    OBVIOUS
  <2>2. s = Text!Slot("unsigned", loc, 1, val)
    BY <1>1
  <2> HIDE DEF val
  <2>3. s \in SlotType /\ s.kind = "unsigned" /\ s.loc = loc /\ s.len = 1 /\ s.val = val
    BY ONLY <2>1, <2>2, OneSlot
  <2> QED
    BY <2>3 DEF val
<1>3. loc \in Nat /\ loc + 1 <= Len(b) /\ b[loc + 1] = 0
  OBVIOUS
<1>4. Text!BufferUIntLE(b, loc, 1) = 0
  <2> DEFINE w == 1
  <2>1. w \in Nat /\ loc + w <= Len(b)
    BY <1>3
  <2> HIDE DEF w
  <2>2. PICK r \in [0..w -> Int] :
          /\ r[0] = 0 /\ \A k \in 1..w : r[k] = r[k - 1] * Byte + b[loc + w + 1 - k]
          /\ Text!BufferUIntLE(b, loc, w) = r[w]
    BY <1>3, <2>1, BufferUIntLEIs
  <2>3. r[1] = r[0] * Byte + b[loc + 1] /\ Text!BufferUIntLE(b, loc, 1) = r[1]
    <3>1. 1 \in 1..w /\ 1 - 1 = 0 /\ loc + w + 1 - 1 = loc + 1
      BY <1>3 DEF w
    <3> QED
      BY <2>2, <3>1 DEF w
  <2> QED
    BY <1>3, <2>2, <2>3, Bytes
<1>5. Text!Number("unsigned", b, loc, 1) = 0
  BY <1>4 DEF Text!Number
<1> QED
  BY <1>2, <1>3, <1>5 DEF Keeps, Lies

\* A buffer and its slots, when every one of them is right.
LEMMA SlotsKeep ==
  ASSUME TextInv, UNCHANGED <<uses, str, list, it, status>>,
         buf' \in Seq(Text!Char), Len(buf') <= MaxSize, slots' \subseteq SlotType,
         \A s \in slots' : Lies(s, buf') /\ Keeps(s, buf'),
         \A s, t \in slots' : s = t \/ Text!Apart(s, t.loc, t.len)
  PROVE  TextInv'
<1>1. (\A s \in slots : Lies(s, buf) /\ Keeps(s, buf))' <=> \A s \in slots' : Lies(s, buf') /\ Keeps(s, buf')
  BY DEF Lies, Keeps
<1>2. BufRight'
  BY <1>1 DEF BufRight
<1> QED
  BY <1>2, OnlyBufKeeps

LEMMA ZerosApart ==
  ASSUME NEW locs \in SUBSET Nat, NEW s \in Text!ZeroBytes(locs), NEW t \in Text!ZeroBytes(locs)
  PROVE  s = t \/ Text!Apart(s, t.loc, t.len)
<1>1. PICK l \in locs : s = Text!Slot("unsigned", l, 1, <<0>>)
  BY DEF Text!ZeroBytes
<1>2. PICK m \in locs : t = Text!Slot("unsigned", m, 1, <<0>>)
  BY DEF Text!ZeroBytes
<1>3. l \in Nat /\ m \in Nat
  OBVIOUS
<1>4. s.loc = l /\ s.len = 1 /\ t.loc = m /\ t.len = 1
  BY <1>1, <1>2 DEF Text!Slot
<1>5. CASE l = m
  BY <1>1, <1>2, <1>5
<1>6. CASE l # m
  <2>1. l + 1 <= m \/ m + 1 <= l
    BY <1>3, <1>6
  <2> QED
    BY <1>4, <2>1 DEF Text!Apart
<1> QED
  BY <1>5, <1>6

LEMMA NewBufferKeeps ==
  ASSUME TextInv, NEW n \in 0..MaxSize, Text!NewBuffer(n)
  PROVE  TextInv'
<1> DEFINE locs == 0 .. n - 1
<1>1. n \in Nat /\ n <= MaxSize /\ locs \in SUBSET Nat
  BY TextConstants DEF Text!TextAssumption
<1>2. /\ buf' = Text!Zeroed(n) /\ slots' = Text!ZeroBytes(locs)
      /\ UNCHANGED <<uses, str, list, it, status>>
  BY DEF Text!NewBuffer
<1>3. buf' \in Seq(Text!Char) /\ Len(buf') = n /\ \A i \in 1..n : buf'[i] = 0
  BY <1>1, <1>2, Fresh
<1>4. \A l \in locs : l + 1 <= Len(buf') /\ buf'[l + 1] = 0
  BY <1>1, <1>3
<1> HIDE DEF locs
<1>5. ASSUME NEW s \in slots' PROVE s \in SlotType /\ Keeps(s, buf') /\ Lies(s, buf')
  BY <1>1, <1>2, <1>3, <1>4, ZeroByte
<1>6. ASSUME NEW s \in slots', NEW t \in slots' PROVE s = t \/ Text!Apart(s, t.loc, t.len)
  BY <1>1, <1>2, ZerosApart
<1> QED
  BY <1>1, <1>2, <1>3, <1>5, <1>6, SlotsKeep

LEMMA ResizeKeeps ==
  ASSUME TextInv, NEW n \in 0..MaxSize, Text!Resize(n)
  PROVE  TextInv'
<1> DEFINE kept == Text!Least(n, Len(buf))
           z == Text!Zeroed(n)
           f == Text!From(buf, 0, kept)
           old == {s \in slots : Text!Within(s, 0, kept)}
           locs == kept .. n - 1
<1>1. /\ buf' = Text!Place(z, 0, f) /\ slots' = old \cup Text!ZeroBytes(locs)
      /\ UNCHANGED <<uses, str, list, it, status>>
  BY DEF Text!Resize
<1>2. /\ buf \in Seq(Text!Char) /\ slots \subseteq SlotType /\ Len(buf) \in Nat
      /\ \A s \in slots : Lies(s, buf) /\ Keeps(s, buf)
      /\ \A s, t \in slots : s = t \/ Text!Apart(s, t.loc, t.len)
  BY DEF TextInv, BufRight
<1>3. n \in Nat /\ n <= MaxSize /\ kept \in Nat /\ kept <= n /\ kept <= Len(buf)
  BY <1>2, TextConstants DEF Text!TextAssumption, Text!Least
<1> HIDE DEF kept
<1>4. f \in Seq(Text!Char) /\ Len(f) = kept /\ \A i \in 1..kept : f[i] = buf[i]
  <2>1. 0 \in Nat /\ 0 + kept <= Len(buf)
    BY <1>2, <1>3
  <2>2. f \in Seq(Text!Char) /\ Len(f) = kept /\ \A i \in 1..kept : f[i] = buf[0 + i]
    BY ONLY <1>2, <1>3, <2>1, Taken
  <2> QED
    BY <2>2
<1>5. z \in Seq(Text!Char) /\ Len(z) = n /\ \A i \in 1..n : z[i] = 0
  BY <1>3, Fresh
<1> HIDE DEF f, z
<1>6. /\ buf' \in Seq(Text!Char) /\ Len(buf') = n
      /\ \A i \in 1..n : buf'[i] = IF i <= kept THEN buf[i] ELSE 0
  <2> DEFINE r == Text!Place(z, 0, f)
  <2>1. 0 \in Nat /\ 0 + Len(f) <= Len(z)
    BY <1>3, <1>4, <1>5
  <2>2. /\ r \in Seq(Text!Char) /\ Len(r) = Len(z)
        /\ \A i \in 1..Len(z) : r[i] = IF 0 < i /\ i <= 0 + Len(f) THEN f[i - 0] ELSE z[i]
    BY ONLY <1>4, <1>5, <2>1, Placed
  <2> HIDE DEF r
  <2>3. \A i \in 1..n : r[i] = IF i <= kept THEN buf[i] ELSE 0
    BY <1>3, <1>4, <1>5, <2>2
  <2> QED
    BY <1>1, <1>5, <2>2, <2>3 DEF r
<1>7. locs \in SUBSET Nat /\ \A l \in locs : l + 1 <= Len(buf') /\ buf'[l + 1] = 0
  BY <1>3, <1>6
<1>8. ASSUME NEW s \in old
      PROVE  /\ s \in SlotType /\ Lies(s, buf') /\ Keeps(s, buf')
             /\ s.loc \in Nat /\ s.len \in Nat /\ s.loc + s.len <= kept
  <2>1. /\ s \in slots /\ s \in SlotType /\ Lies(s, buf) /\ Keeps(s, buf)
        /\ s.loc \in Nat /\ s.len \in Nat /\ s.loc + s.len <= 0 + kept
    BY <1>2, SlotWhat DEF Text!Within
  <2>2. s.loc + s.len <= kept
    BY <1>3, <2>1
  <2>3. Lies(s, buf')
    BY <1>3, <1>6, <2>1, <2>2 DEF Lies
  <2>4. \A i \in 1..s.len : buf[s.loc + i] = buf'[s.loc + i]
    BY <1>3, <1>6, <2>1, <2>2
  <2>5. Keeps(s, buf')
    BY <1>2, <1>6, <2>1, <2>3, <2>4, KeptWithItsBytes
  <2> QED
    BY <2>1, <2>2, <2>3, <2>5
<1> HIDE DEF locs
<1>9. ASSUME NEW s \in Text!ZeroBytes(locs)
      PROVE  s \in SlotType /\ Lies(s, buf') /\ Keeps(s, buf') /\ s.loc \in locs /\ s.len = 1
  BY <1>6, <1>7, ZeroByte
<1>10. \A l \in locs : l \in Nat /\ kept <= l
  BY <1>3 DEF locs
<1>11. ASSUME NEW s \in slots', NEW t \in slots' PROVE s = t \/ Text!Apart(s, t.loc, t.len)
  <2>1. CASE s \in old /\ t \in old
    BY <2>1, <1>2
  <2>2. CASE s \in Text!ZeroBytes(locs) /\ t \in Text!ZeroBytes(locs)
    BY <2>2, <1>7, ZerosApart
  <2>3. CASE s \in old /\ t \in Text!ZeroBytes(locs)
    <3>1. s.loc + s.len <= kept /\ t.loc \in Nat /\ kept <= t.loc /\ s.loc \in Nat /\ s.len \in Nat
      BY <2>3, <1>8, <1>9, <1>10
    <3> QED
      BY <1>3, <3>1 DEF Text!Apart
  <2>4. CASE t \in old /\ s \in Text!ZeroBytes(locs)
    <3>1. t.loc + t.len <= kept /\ s.loc \in Nat /\ kept <= s.loc /\ t.loc \in Nat /\ t.len \in Nat
      BY <2>4, <1>8, <1>9, <1>10
    <3> QED
      BY <1>3, <3>1 DEF Text!Apart
  <2> QED
    BY <1>1, <2>1, <2>2, <2>3, <2>4
<1>12. \A s \in slots' : s \in SlotType /\ Lies(s, buf') /\ Keeps(s, buf')
  BY <1>1, <1>8, <1>9
<1> HIDE DEF old
<1> QED
  BY <1>1, <1>3, <1>6, <1>11, <1>12, SlotsKeep

\* Ranges that are moved keep their order and their distances.
LEMMA MovedPlace ==
  ASSUME NEW from \in Nat, NEW to \in Nat, NEW n \in Nat, NEW size \in Nat, NEW at \in Nat, NEW len \in Nat,
         NEW new \in Int, new = at - from + to, from <= at, at + len <= from + n, to + n <= size,
         NEW i \in 1..len
  PROVE  /\ new + i \in 1..size /\ to < new + i /\ new + i <= to + n
         /\ (new + i) - to \in 1..n /\ from + ((new + i) - to) = at + i
OBVIOUS

LEMMA MovedApart ==
  ASSUME NEW from \in Nat, NEW to \in Nat, NEW a \in Nat, NEW b \in Nat, NEW k \in Nat, NEW l \in Nat,
         a + k <= b \/ b + l <= a
  PROVE  (a - from + to) + k <= b - from + to \/ (b - from + to) + l <= a - from + to
OBVIOUS

LEMMA CopyKeeps ==
  ASSUME TextInv, NEW from \in Text!Location, NEW to \in Text!Location, NEW n \in 0..MaxSize,
         Text!Copy(from, n, to)
  PROVE  TextInv'
<1>0. from \in Int /\ to \in Int /\ n \in Nat
  BY TextConstants DEF Text!TextAssumption, Text!Location
<1>1. CASE Text!Stop
  BY <1>1, StatusKeeps DEF Text!Stop
<1>2. ASSUME Text!InRange(from, n), Text!InRange(to, n), UNCHANGED <<uses, str, list, it, status>>
      PROVE  /\ buf \in Seq(Text!Char) /\ Len(buf) \in Nat /\ from \in Nat /\ to \in Nat
             /\ from + n <= Len(buf) /\ to + n <= Len(buf)
             /\ slots \subseteq SlotType
             /\ \A s \in slots : Lies(s, buf) /\ Keeps(s, buf)
             /\ \A s, t \in slots : s = t \/ Text!Apart(s, t.loc, t.len)
  BY <1>0, <1>2 DEF TextInv, BufRight, Text!InRange
<1>3. CASE /\ Text!InRange(from, n) /\ Text!InRange(to, n) /\ UNCHANGED <<uses, str, list, it, status>>
           /\ buf' = Text!Place(buf, to, Text!From(buf, from, n))
           /\ slots' = Text!Spared(to, n) \cup Text!Moved(from, n, to)
  <2> DEFINE bytes == Text!From(buf, from, n)
             new == Text!Moved(from, n, to)
  <2>0. /\ buf \in Seq(Text!Char) /\ Len(buf) \in Nat /\ from \in Nat /\ to \in Nat
        /\ from + n <= Len(buf) /\ to + n <= Len(buf)
        /\ slots \subseteq SlotType
        /\ \A s \in slots : Lies(s, buf) /\ Keeps(s, buf)
        /\ \A s, t \in slots : s = t \/ Text!Apart(s, t.loc, t.len)
    BY <1>2, <1>3
  <2>1. bytes \in Seq(Text!Char) /\ Len(bytes) = n /\ \A i \in 1..n : bytes[i] = buf[from + i]
    BY <1>0, <1>2, <1>3, Taken
  <2> HIDE DEF bytes
  <2>2. /\ buf' \in Seq(Text!Char) /\ Len(buf') = Len(buf)
        /\ \A i \in 1..Len(buf) : buf'[i] = IF to < i /\ i <= to + Len(bytes) THEN bytes[i - to] ELSE buf[i]
    BY <1>2, <1>3, <2>1, Placed DEF bytes
  <2>3. ASSUME NEW z \in new
        PROVE  \E s \in slots : /\ from <= s.loc /\ s.loc + s.len <= from + n
                                /\ z \in SlotType /\ z.kind = s.kind /\ z.len = s.len /\ z.val = s.val
                                /\ z.loc = s.loc - from + to
    <3>1. PICK s \in slots : Text!Within(s, from, n) /\ z = [s EXCEPT !.loc = @ - from + to]
      BY DEF Text!Moved
    <3>2. s \in SlotType /\ s.loc >= from /\ s.loc + s.len <= from + n
      BY <1>2, <1>3, <3>1 DEF Text!Within
    <3>3. s.loc \in Nat /\ s.loc - from + to \in Nat
      BY <1>2, <1>3, <3>2, SlotWhat
    <3>4. /\ z \in SlotType /\ z.kind = s.kind /\ z.len = s.len /\ z.val = s.val
          /\ z.loc = s.loc - from + to
      BY <3>1, <3>2, <3>3 DEF SlotType
    <3> QED
      BY <1>2, <1>3, <3>2, <3>3, <3>4
  <2>4. ASSUME NEW z \in new
        PROVE  z \in SlotType /\ to <= z.loc /\ z.loc + z.len <= to + n /\ Keeps(z, buf')
    <3>1. PICK s \in slots : /\ from <= s.loc /\ s.loc + s.len <= from + n
                             /\ z \in SlotType /\ z.kind = s.kind /\ z.len = s.len /\ z.val = s.val
                             /\ z.loc = s.loc - from + to
      BY <2>3
    <3>2. s \in SlotType /\ s.loc \in Nat /\ s.len \in Nat /\ Lies(s, buf) /\ Keeps(s, buf)
      BY <1>2, <1>3, SlotWhat
    <3>3. to <= z.loc /\ z.loc + z.len <= to + n
      BY <1>0, <1>2, <1>3, <3>1, <3>2
    <3>4. Lies(z, buf')
      BY <1>0, <1>2, <1>3, <2>2, <3>1, <3>2, <3>3 DEF Lies
    <3>5. \A i \in 1..s.len : buf[s.loc + i] = buf'[z.loc + i]
      <4> SUFFICES ASSUME NEW i \in 1..s.len PROVE buf[s.loc + i] = buf'[z.loc + i]
        OBVIOUS
      <4>1. /\ z.loc + i \in 1..Len(buf) /\ to < z.loc + i /\ z.loc + i <= to + n
            /\ (z.loc + i) - to \in 1..n /\ from + ((z.loc + i) - to) = s.loc + i
        <5> DEFINE at == s.loc
                   place == z.loc
                   len == s.len
                   size == Len(buf)
        <5>1. /\ from \in Nat /\ to \in Nat /\ n \in Nat /\ to + n <= size /\ size \in Nat
              /\ at \in Nat /\ len \in Nat /\ i \in 1..len
              /\ place = at - from + to /\ from <= at /\ at + len <= from + n
          BY <1>0, <2>0, <3>1, <3>2
        <5> HIDE DEF at, place, len, size
        <5>2. place \in Int
          BY <5>1
        <5>3. /\ place + i \in 1..size /\ to < place + i /\ place + i <= to + n
              /\ (place + i) - to \in 1..n /\ from + ((place + i) - to) = at + i
          BY ONLY <5>1, <5>2, MovedPlace
        <5> QED
          BY <5>3 DEF at, place, len, size
      <4>2. buf'[z.loc + i] = bytes[(z.loc + i) - to]
        BY <2>1, <2>2, <4>1
      <4>3. bytes[(z.loc + i) - to] = buf[from + ((z.loc + i) - to)]
        BY <2>1, <4>1
      <4> QED
        BY <4>1, <4>2, <4>3
    <3>6. Keeps(z, buf')
      BY <1>2, <1>3, <2>2, <3>1, <3>2, <3>4, <3>5, KeptWithItsBytes
    <3> QED
      BY <3>1, <3>3, <3>6
  <2>5. ASSUME NEW y \in new, NEW z \in new PROVE y = z \/ Text!Apart(y, z.loc, z.len)
    <3>1. PICK s \in slots : Text!Within(s, from, n) /\ y = [s EXCEPT !.loc = @ - from + to]
      BY DEF Text!Moved
    <3>2. PICK t \in slots : Text!Within(t, from, n) /\ z = [t EXCEPT !.loc = @ - from + to]
      BY DEF Text!Moved
    <3>3. s \in SlotType /\ t \in SlotType
      BY <1>2, <1>3
    <3>4. s.loc \in Nat /\ s.len \in Nat /\ t.loc \in Nat /\ t.len \in Nat
      BY <3>3, SlotWhat
    <3>5. /\ y.loc = s.loc - from + to /\ y.len = s.len
          /\ z.loc = t.loc - from + to /\ z.len = t.len
      BY <3>1, <3>2, <3>3 DEF SlotType
    <3>6. CASE s = t
      BY <3>1, <3>2, <3>6
    <3>7. CASE Text!Apart(s, t.loc, t.len)
      <4>1. s.loc + s.len <= t.loc \/ t.loc + t.len <= s.loc
        BY <3>7 DEF Text!Apart
      <4>2. (s.loc - from + to) + s.len <= t.loc - from + to \/ (t.loc - from + to) + t.len <= s.loc - from + to
        BY <2>0, <3>4, <4>1, MovedApart
      <4> QED
        BY <3>5, <4>2 DEF Text!Apart
    <3>8. s = t \/ Text!Apart(s, t.loc, t.len)
      BY <2>0
    <3> QED
      BY <3>6, <3>7, <3>8
  <2>6. new \in SUBSET SlotType /\ slots' = Text!Spared(to, n) \cup new
    BY <1>3, <2>4
  <2>7. buf' = Text!Place(buf, to, bytes)
    BY <1>3 DEF bytes
  <2> HIDE DEF new
  <2> QED
    BY <1>0, <1>3, <2>1, <2>4, <2>5, <2>6, <2>7, WriteKeeps
<1>4. ASSUME Text!InRange(from, n), Text!InRange(to, n), UNCHANGED <<uses, str, list, it, status>>,
             NEW f \in [1..n -> 1..n],
             buf' = Text!Place(buf, to, [i \in 1..n |-> buf[from + f[i]]]),
             slots' = Text!Spared(to, n)
      PROVE  TextInv'
  <2> DEFINE bytes == [i \in 1..n |-> buf[from + f[i]]]
             new == {}
  <2>0. /\ buf \in Seq(Text!Char) /\ Len(buf) \in Nat /\ from \in Nat /\ to \in Nat
        /\ from + n <= Len(buf) /\ to + n <= Len(buf)
    BY <1>2, <1>4
  <2>1. \A i \in 1..n : buf[from + f[i]] \in Text!Char
    <3> SUFFICES ASSUME NEW i \in 1..n PROVE buf[from + f[i]] \in Text!Char
      OBVIOUS
    <3>1. f[i] \in 1..n
      OBVIOUS
    <3>2. from + f[i] \in 1..Len(buf)
      <4> DEFINE k == f[i]
      <4>1. k \in Nat /\ 1 <= k /\ k <= n
        BY <1>0, <3>1
      <4> HIDE DEF k
      <4>2. from + k \in 1..Len(buf)
        BY <1>0, <2>0, <4>1
      <4> QED
        BY <4>2 DEF k
    <3> QED
      BY <2>0, <3>2, ElementOfSeq
  <2>2. bytes \in [1..n -> Text!Char]
    BY <2>1
  <2>3. bytes \in Seq(Text!Char) /\ Len(bytes) = n
    BY <1>0, <2>2
  <2>4. buf' = Text!Place(buf, to, bytes)
    BY <1>4
  <2>5. /\ new \in SUBSET SlotType /\ slots' = Text!Spared(to, n) \cup new
        /\ \A s \in new : to <= s.loc /\ s.loc + s.len <= to + n /\ Keeps(s, buf')
        /\ \A s, t \in new : s = t \/ Text!Apart(s, t.loc, t.len)
    BY <1>4
  <2> HIDE DEF bytes, new
  <2> QED
    BY <1>0, <1>4, <2>3, <2>4, <2>5, WriteKeeps
<1> QED
  BY <1>1, <1>3, <1>4 DEF Text!Copy

(***************************************************************************)
(* Every operation keeps the invariant                                     *)
(***************************************************************************)
LEMMA SubstrCrashesKeeps ==
  ASSUME TextInv, NEW i \in 0..MaxLen, NEW n \in Text!Lengths, Text!SubstrCrashes(i, n)
  PROVE  TextInv'
  BY StatusKeeps DEF Text!SubstrCrashes

\* The invariant holds at the start, is kept by every operation, and says what
\* the properties do.
LEMMA TextStart == Text!Init => TextInv
<1> SUFFICES ASSUME Text!Init PROVE TextInv
  OBVIOUS
<1>1. PICK l \in Literals : str = Text!Literal(l)
  BY DEF Text!Init
<1>2. Spells(str.block, str.meaning)
  BY <1>1, LiteralHolds, HoldsSpells
<1>3. ListRight
  BY DEF Text!Init, ListRight, Meaning
<1>4. BufRight
  BY TextConstants DEF Text!Init, BufRight, Text!TextAssumption
<1> QED
  BY <1>2, <1>3, <1>4 DEF Text!Init, TextInv, Flags, StrRight, ItRight

LEMMA TextStep == TextInv /\ [BlocksNext]_<<vars, text>> => TextInv'
<1> SUFFICES ASSUME TextInv, [BlocksNext]_<<vars, text>> PROVE TextInv'
  OBVIOUS
<1>1. CASE UNCHANGED text
  BY <1>1 DEF text, TextInv, Flags, StrRight, ListRight, ItRight, BufRight
<1>2. CASE Text!Next
  <2>1. CASE Text!Use
    BY <2>1, UseKeeps
  <2>2. CASE Text!DropFirst
    BY <2>2, DropFirstKeeps
  <2>3. CASE Text!Turn
    BY <2>3, TurnKeeps
  <2>4. CASE Text!Unpack
    BY <2>4, UnpackKeeps
  <2>5. CASE Text!Pack
    BY <2>5, PackKeeps
  <2>6. CASE Text!IteratorNext
    BY <2>6, IteratorNextKeeps
  <2>7. CASE Text!IteratorEOF
    BY <2>7, IteratorEOFKeeps
  <2>8. CASE Text!IteratorToString
    BY <2>8, IteratorToStringKeeps
  <2>9. ASSUME NEW c \in Text!Char, Text!Cons(c) \/ Text!Prepend(c) PROVE TextInv'
    BY <2>9, ConsKeeps, PrependKeeps
  <2>10. ASSUME NEW a \in Text!Operand, NEW b \in Text!Operand, Text!Concatenate(a, b) PROVE TextInv'
    BY <2>10, ConcatenateKeeps
  <2>11. ASSUME NEW a \in Text!Operand, NEW b \in Text!Operand, Text!Concat(a, str, b)
         PROVE  TextInv'
    <3>1. str \in Text!Operand
      BY DEF Text!Operand
    <3> QED
      BY <2>11, <3>1, ConcatKeeps
  <2>12. ASSUME NEW i \in 0..MaxLen, NEW n \in Text!Lengths,
                Text!Substr(i, n) \/ Text!SubstrCrashes(i, n)
         PROVE  TextInv'
    BY <2>12, SubstrKeeps, SubstrCrashesKeeps
  <2>13. ASSUME NEW k \in 0 .. MaxLen - 1, Text!StrIndex(k) PROVE TextInv'
    BY <2>13, StrIndexKeeps
  <2>14. ASSUME NEW s \in Text!Operand, Text!IteratorNew(s) PROVE TextInv'
    BY <2>14, IteratorNewKeeps
  <2>15. ASSUME NEW n \in 0..MaxSize, Text!NewBuffer(n) \/ Text!Resize(n) PROVE TextInv'
    BY <2>15, NewBufferKeeps, ResizeKeeps
  <2>16. ASSUME NEW kind \in {"unsigned", "signed"}, NEW loc \in Text!Location, NEW w \in Width,
                NEW v \in Text!Numbers(kind, w), Text!SetNumber(kind, loc, w, v)
         PROVE  TextInv'
    BY <2>16, SetNumberKeeps
  <2>17. ASSUME NEW loc \in Text!Location, NEW s \in Text!Operand, Text!SetString(loc, s)
         PROVE  TextInv'
    BY <2>17, SetStringKeeps
  <2>18. ASSUME NEW loc \in Text!Location, NEW n \in 0..MaxSize, Text!GetString(loc, n)
         PROVE  TextInv'
    BY <2>18, GetStringKeeps
  <2>19. ASSUME NEW from \in Text!Location, NEW to \in Text!Location, NEW n \in 0..MaxSize,
                Text!Copy(from, n, to)
         PROVE  TextInv'
    BY <2>19, CopyKeeps
  <2> QED
    BY <1>2, <2>1, <2>2, <2>3, <2>4, <2>5, <2>6, <2>7, <2>8, <2>9, <2>10, <2>11, <2>12,
       <2>13, <2>14, <2>15, <2>16, <2>17, <2>18, <2>19 DEF Text!Next
<1> QED
  BY <1>1, <1>2 DEF BlocksNext

LEMMA TextTypes == TextInv => Text!TypeOK
<1> SUFFICES ASSUME TextInv PROVE Text!TypeOK
  OBVIOUS
<1>1. \A b \in Seq(Text!Char) : Text!Ends(b) => Text!IsString(b)
  BY ElementOfSeq DEF Text!IsString
<1>2. Text!IsString(str.block) /\ Text!IsMeaning(str.meaning)
  BY <1>1 DEF TextInv, StrRight, Spells, Meaning, Text!IsMeaning
<1>3. list.items \in Seq(Text!Char) /\ Text!IsMeaning(list.meaning)
  BY DEF TextInv, ListRight, Meaning, Text!IsMeaning
<1>4. it # None => Text!IsString(it.block) /\ it.pos \in 0 .. Text!StrLen(it.block)
  BY <1>1 DEF TextInv, ItRight, Iterator
<1>5. ASSUME NEW s \in slots PROVE Text!InRange(s.loc, s.len)
  BY SlotWhat DEF TextInv, BufRight, Lies, Text!InRange
<1> QED
  BY <1>2, <1>3, <1>4, <1>5 DEF TextInv, Flags, BufRight, Text!TypeOK

LEMMA TextMeans == TextInv => Text!ReadsAsMeant /\ Text!BufferKeeps
  BY DEF TextInv, StrRight, Spells, ListRight, ItRight, BufRight, Keeps,
         Text!ReadsAsMeant, Text!BufferKeeps

LEMMA TextInductive == BlocksSpec => []TextInv
<1>1. BlocksInit => TextInv
  BY TextStart DEF BlocksInit
<1> QED
  BY <1>1, TextStep, PTL DEF BlocksSpec

\* For blocks of any length, bytes and C ints of any size, literals of any
\* characters and any encoding of them that is free of NUL: strings hold the UTF-8
\* of the characters that Idris says they have, and lists those characters, as
\* long as their meaning is not Lost.  It is lost when a NUL or an oversized length
\* comes in, and when a string is taken apart at or behind a character of several
\* bytes (stringOps.c, RefC.idr).
THEOREM TextsRead == BlocksSpec => []TextReads
<1>1. TextInv => TextReads
  BY TextMeans DEF TextReads
<1> QED
  BY <1>1, TextInductive, PTL

\* Every string is a block that ends where strlen stops, no operation leaves a
\* byte of it unset, and a number of any width or a text that was written into a
\* buffer is read back until something is written over it, wherever it was copied
\* or the buffer resized (stringOps.c, buffer.c).
THEOREM TextsAreKept == BlocksSpec => []TextIsKept
<1>1. TextInv => TextIsKept
  BY TextTypes, TextMeans DEF TextIsKept
<1> QED
  BY <1>1, TextInductive, PTL
=============================================================================
