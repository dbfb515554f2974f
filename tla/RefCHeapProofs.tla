--------------------------- MODULE RefCHeapProofs ---------------------------
(***************************************************************************)
(* Safety of the reference-counted heap for every set of cells and locals. *)
(*                                                                         *)
(* The inductive invariant IInv is split by cell: CellOK(v) is what it     *)
(* says of the counter, the tag and the holders of v, PayloadOK(v) what it *)
(* says of v's payload.  Every kind of step has a lemma that repairs these *)
(* for the few cells the step touches and cites CellFrame for the others.  *)
(***************************************************************************)
EXTENDS RefCHeap, FiniteSetTheorems, TLAPS

(***************************************************************************)
(* Counting holders                                                        *)
(***************************************************************************)
Cnt(f, v) == Cardinality(HoldersIn(f, v))
Refs == [Slot -> Cell \cup {NULL}]

(* There are finitely many slots. *)
LEMMA SlotFinite == IsFiniteSet(Slot) /\ Cardinality(Slot) \in Nat
<1>1. IsFiniteSet(Arg)
  BY FS_Interval, HeapAssumption DEF Arg
<1>2. IsFiniteSet(Cell \X Arg)
  BY <1>1, FS_Product, HeapAssumption
<1>3. QED
  BY <1>2, FS_Union, FS_CardinalityType, HeapAssumption DEF Slot

(* A cell has finitely many holders. *)
LEMMA CntType ==
  ASSUME NEW f, NEW v
  PROVE  /\ IsFiniteSet(HoldersIn(f, v))
         /\ Cnt(f, v) \in Nat
         /\ Cnt(f, v) <= Cardinality(Slot)
         /\ Cnt(f, v) = 0 <=> HoldersIn(f, v) = {}
<1>1. HoldersIn(f, v) \subseteq Slot
  BY DEF HoldersIn
<1>2. IsFiniteSet(HoldersIn(f, v)) /\ Cardinality(HoldersIn(f, v)) <= Cardinality(Slot)
  BY <1>1, SlotFinite, FS_Subset
<1>3. QED
  BY <1>2, FS_CardinalityType, FS_EmptySet DEF Cnt

(* Slot s of f now refers to o. *)
Put(f, s, o) == [f EXCEPT ![s] = o]

(* What changes is slot s. *)
LEMMA PutAt ==
  ASSUME NEW f \in Refs, NEW s \in Slot, NEW o \in Cell \cup {NULL}
  PROVE  /\ Put(f, s, o) \in Refs
         /\ Put(f, s, o)[s] = o
         /\ \A t \in Slot : t # s => Put(f, s, o)[t] = f[t]
BY DEF Put, Refs

(* Filling an empty slot adds one holder to the cell given. *)
LEMMA Give ==
  ASSUME NEW f \in Refs, NEW s \in Slot, f[s] = NULL, NEW o \in Cell
  PROVE  /\ HoldersIn(Put(f, s, o), o) = HoldersIn(f, o) \cup {s}
         /\ Cnt(Put(f, s, o), o) = Cnt(f, o) + 1
         /\ \A v \in Cell : v # o => /\ HoldersIn(Put(f, s, o), v) = HoldersIn(f, v)
                                     /\ Cnt(Put(f, s, o), v) = Cnt(f, v)
<1>1. /\ HoldersIn(Put(f, s, o), o) = HoldersIn(f, o) \cup {s}
      /\ s \notin HoldersIn(f, o)
  BY HeapAssumption DEF HoldersIn, Refs, Put
<1>2. Cnt(Put(f, s, o), o) = Cnt(f, o) + 1
  BY <1>1, CntType, FS_AddElement DEF Cnt
<1>3. ASSUME NEW v \in Cell, v # o
      PROVE  HoldersIn(Put(f, s, o), v) = HoldersIn(f, v)
  BY <1>3, HeapAssumption DEF HoldersIn, Refs, Put
<1>4. QED
  BY <1>1, <1>2, <1>3 DEF Cnt

(* Emptying a slot takes one holder away from the cell it referred to. *)
LEMMA Take ==
  ASSUME NEW f \in Refs, NEW s \in Slot, f[s] \in Cell
  PROVE  /\ HoldersIn(Put(f, s, NULL), f[s]) = HoldersIn(f, f[s]) \ {s}
         /\ Cnt(f, f[s]) = Cnt(Put(f, s, NULL), f[s]) + 1
         /\ \A v \in Cell : v # f[s] =>
                /\ HoldersIn(Put(f, s, NULL), v) = HoldersIn(f, v)
                /\ Cnt(Put(f, s, NULL), v) = Cnt(f, v)
<1> DEFINE g == Put(f, s, NULL)
<1>1. HoldersIn(g, f[s]) = HoldersIn(f, f[s]) \ {s}
  BY HeapAssumption DEF HoldersIn, Refs, Put
<1>2. /\ HoldersIn(f, f[s]) = HoldersIn(g, f[s]) \cup {s}
      /\ s \notin HoldersIn(g, f[s])
  BY <1>1 DEF HoldersIn
<1>3. Cnt(f, f[s]) = Cnt(g, f[s]) + 1
  <2>1. IsFiniteSet(HoldersIn(g, f[s]))
    BY CntType
  <2>2. Cardinality(HoldersIn(g, f[s]) \cup {s}) = Cardinality(HoldersIn(g, f[s])) + 1
    BY <1>2, <2>1, FS_AddElement
  <2>3. QED
    BY <1>2, <2>2 DEF Cnt
<1>4. ASSUME NEW v \in Cell, v # f[s] PROVE HoldersIn(g, v) = HoldersIn(f, v)
  BY <1>4, HeapAssumption DEF HoldersIn, Refs, Put
<1>5. QED
  BY <1>1, <1>3, <1>4 DEF Cnt

(* A move changes no count; only the moved cell changes holders. *)
LEMMA Move ==
  ASSUME NEW f \in Refs, NEW s \in Slot, NEW t \in Slot,
         f[s] \in Cell, f[t] = NULL
  PROVE  LET g == Put(Put(f, s, NULL), t, f[s])
         IN  /\ \A v \in Cell : Cnt(g, v) = Cnt(f, v)
             /\ \A v \in Cell : v # f[s] => HoldersIn(g, v) = HoldersIn(f, v)
<1> DEFINE h == Put(f, s, NULL)
           g == Put(h, t, f[s])
<1>1. h \in Refs /\ h[t] = NULL
  BY HeapAssumption DEF Put, Refs
<1>2. /\ Cnt(f, f[s]) = Cnt(h, f[s]) + 1
      /\ \A v \in Cell : v # f[s] => /\ HoldersIn(h, v) = HoldersIn(f, v)
                                     /\ Cnt(h, v) = Cnt(f, v)
  BY Take
<1>3. /\ Cnt(g, f[s]) = Cnt(h, f[s]) + 1
      /\ \A v \in Cell : v # f[s] => /\ HoldersIn(g, v) = HoldersIn(h, v)
                                     /\ Cnt(g, v) = Cnt(h, v)
  BY <1>1, Give
<1>4. QED
  BY <1>2, <1>3

(* The order of the two writes of a move does not matter. *)
LEMMA MoveEither ==
  ASSUME NEW f \in Refs, NEW s \in Slot, NEW t \in Slot, s # t, NEW o
  PROVE  Put(Put(f, t, o), s, NULL) = Put(Put(f, s, NULL), t, o)
<1>1. f = [u \in Slot |-> f[u]]
  BY DEF Refs
<1>2. QED
  BY <1>1 DEF Put

(* Locals and payload entries are different slots. *)
LEMMA Slots ==
  /\ Var \subseteq Slot
  /\ \A o \in Cell, i \in Arg : <<o, i>> \in Slot /\ <<o, i>> \notin Var
BY HeapAssumption DEF Slot, Arg

(***************************************************************************)
(* The C stack                                                             *)
(***************************************************************************)
Occurs(d, o) == \E k \in DOMAIN d : d[k] = o
Once(d) == \A j, k \in DOMAIN d : d[j] = d[k] => j = k

(* A cascade begins. *)
LEMMA Pushed ==
  ASSUME NEW d \in Seq(Cell), NEW o \in Cell, Once(d), ~Occurs(d, o)
  PROVE  /\ Append(d, o) \in Seq(Cell) /\ Once(Append(d, o))
         /\ Occurs(Append(d, o), o)
         /\ \A v \in Cell : v # o => (Occurs(Append(d, o), v) <=> Occurs(d, v))
<1> DEFINE e == Append(d, o)
           n == Len(d)
<1>1. /\ e \in Seq(Cell) /\ n \in Nat
      /\ DOMAIN d = 1..n /\ DOMAIN e = 1..(n + 1)
      /\ e[n + 1] = o /\ \A k \in 1..n : e[k] = d[k]
  OBVIOUS
<1> HIDE DEF e, n
<1>2. Once(e)
  BY <1>1 DEF Once, Occurs
<1>3. Occurs(e, o)
  BY <1>1 DEF Occurs
<1>4. ASSUME NEW v \in Cell, v # o PROVE Occurs(e, v) <=> Occurs(d, v)
  BY <1>1, <1>4 DEF Occurs
<1>5. QED
  BY <1>1, <1>2, <1>3, <1>4 DEF e

(* The innermost cascade ends. *)
LEMMA Popped ==
  ASSUME NEW d \in Seq(Cell), d # <<>>, Once(d)
  PROVE  LET e == SubSeq(d, 1, Len(d) - 1)
         IN  /\ e \in Seq(Cell) /\ Once(e)
             /\ ~Occurs(e, d[Len(d)])
             /\ \A v \in Cell : v # d[Len(d)] => (Occurs(e, v) <=> Occurs(d, v))
<1> DEFINE e == SubSeq(d, 1, Len(d) - 1)
           n == Len(d)
<1>1. /\ e \in Seq(Cell) /\ n \in Nat /\ n > 0
      /\ DOMAIN d = 1..n /\ DOMAIN e = 1..(n - 1)
      /\ \A k \in 1..(n - 1) : e[k] = d[k]
  OBVIOUS
<1> HIDE DEF e, n
<1>2. Once(e)
  BY <1>1 DEF Once
<1>3. ~Occurs(e, d[n])
  BY <1>1 DEF Once, Occurs
<1>4. ASSUME NEW v \in Cell, v # d[n] PROVE Occurs(e, v) <=> Occurs(d, v)
  BY <1>1, <1>4 DEF Occurs
<1>5. QED
  BY <1>1, <1>2, <1>3, <1>4 DEF e, n

(***************************************************************************)
(* The invariant, cell by cell                                             *)
(***************************************************************************)
CellOK(v) ==
  /\ Dying(v) => rc[v] = 1 /\ HoldersIn(ref, v) = {}
  /\ ~Dying(v) /\ rc[v] # MaxRC => rc[v] = Cnt(ref, v)
  /\ tag[v] = "free" <=> rc[v] = 0
  /\ Consumed(v) => rc[v] = 1 /\ \E x \in Var : HoldersIn(ref, v) = {x}
  /\ v \in Static => tag[v] = "leaf" /\ rc[v] = MaxRC
  /\ tag[v] \in {"closure", "running"} => "closure" \in Kinds
  /\ tag[v] = "ioref" => size[v] >= 1
  /\ Roomy /\ v \notin Static => rc[v] # MaxRC

PayloadOK(v) == \A i \in Arg : ref[<<v, i>>] # NULL => rc[v] # 0 /\ i <= size[v]

Stacked == \A j, k \in DOMAIN drops : drops[j] = drops[k] => j = k

(* The split is exact. *)
LEMMA ByCell ==
  IInv <=> TypeOK /\ Stacked /\ \A v \in Cell : CellOK(v) /\ PayloadOK(v)
<1>1. ASSUME IInv PROVE TypeOK /\ Stacked /\ \A v \in Cell : CellOK(v) /\ PayloadOK(v)
  <2>1. ASSUME NEW v \in Cell, Dying(v) PROVE rc[v] = 1 /\ HoldersIn(ref, v) = {}
    <3>1. rc[v] = 1 /\ rc[v] # MaxRC
      BY <1>1, <2>1, HeapAssumption DEF IInv, OnceOnStack, Dying
    <3>2. rc[v] = Cnt(ref, v) + 1
      BY <1>1, <2>1, <3>1 DEF IInv, CountExact, Cnt, Holders
    <3>3. Cnt(ref, v) = 0
      BY <3>1, <3>2, CntType
    <3>4. QED
      BY <3>1, <3>3, CntType
  <2>2. ASSUME NEW v \in Cell, ~Dying(v), rc[v] # MaxRC PROVE rc[v] = Cnt(ref, v)
    <3>1. rc[v] = Cnt(ref, v) + 0
      BY <1>1, <2>2 DEF IInv, CountExact, Cnt, Holders
    <3>2. QED
      BY <3>1, CntType
  <2>3. ASSUME NEW v \in Cell PROVE CellOK(v)
    <3>1. v \in Cell \ Static \/ v \in Static
      OBVIOUS
    <3>2. Roomy /\ v \notin Static => rc[v] # MaxRC
      BY <1>1, <3>1 DEF IInv, Roles
    <3>3. QED
      BY <1>1, <2>1, <2>2, <3>2 DEF IInv, Roles, ConsumedIsPrivate, CellOK, Holders
  <2>4. QED
    BY <1>1, <2>3 DEF IInv, Payload, PayloadOK, OnceOnStack, Stacked
<1>2. ASSUME TypeOK, Stacked, \A v \in Cell : CellOK(v) /\ PayloadOK(v) PROVE IInv
  <2>1. CountExact
    <3>1. ASSUME NEW v \in Cell, rc[v] # MaxRC
          PROVE  rc[v] = Cnt(ref, v) + IF Dying(v) THEN 1 ELSE 0
      <4>1. CASE Dying(v)
        <5>1. rc[v] = 1 /\ Cnt(ref, v) = 0
          BY <1>2, <4>1, CntType DEF CellOK
        <5>2. QED
          BY <4>1, <5>1
      <4>2. CASE ~Dying(v)
        <5>1. rc[v] = Cnt(ref, v) /\ Cnt(ref, v) \in Nat
          BY <1>2, <3>1, <4>2, CntType DEF CellOK
        <5>2. QED
          BY <4>2, <5>1
      <4>3. QED
        BY <4>1, <4>2
    <3>2. QED
      BY <3>1 DEF CountExact, Cnt, Holders
  <2>2. OnceOnStack
    <3>1. ASSUME NEW k \in DOMAIN drops PROVE rc[drops[k]] = 1
      <4>1. drops[k] \in Cell /\ Dying(drops[k])
        BY <1>2 DEF TypeOK, Dying
      <4>2. QED
        BY <1>2, <4>1 DEF CellOK
    <3>2. QED
      BY <1>2, <3>1 DEF OnceOnStack, Stacked
  <2>3. Payload /\ ConsumedIsPrivate
    BY <1>2 DEF Payload, PayloadOK, ConsumedIsPrivate, CellOK, Holders
  <2>4. Roles
    <3>1. Static \subseteq Cell
      BY HeapAssumption
    <3>2. QED
      BY <1>2, <3>1 DEF Roles, CellOK
  <2>5. QED
    BY <1>2, <2>1, <2>2, <2>3, <2>4 DEF IInv
<1>3. QED
  BY <1>1, <1>2

Inductive == TypeOK /\ Stacked /\ \A v \in Cell : CellOK(v) /\ PayloadOK(v)

(***************************************************************************)
(* Facts every step uses                                                   *)
(***************************************************************************)
(* Types, in the form the counting lemmas take them. *)
LEMMA Types ==
  ASSUME TypeOK
  PROVE  /\ ref \in Refs /\ rc \in [Cell -> Nat] /\ rc \in [Cell -> 0..MaxRC]
         /\ MaxRC \in Nat /\ MaxRC > 1 /\ NULL \notin Cell
         /\ \A s \in Slot : ref[s] # NULL => ref[s] \in Cell
BY HeapAssumption DEF TypeOK, Refs

(* A referenced cell is allocated, in no cascade, and exactly counted unless
   immortal; if it has one reference only, or is consumed, its only holder is
   the slot at hand, and a consumed cell is held by a local.                *)
LEMMA Held ==
  ASSUME Inductive, NEW s \in Slot, ref[s] # NULL
  PROVE  /\ ref[s] \in Cell
         /\ rc[ref[s]] >= 1
         /\ tag[ref[s]] # "free"
         /\ ~Dying(ref[s])
         /\ rc[ref[s]] # MaxRC => rc[ref[s]] = Cnt(ref, ref[s])
         /\ rc[ref[s]] = 1 => HoldersIn(ref, ref[s]) = {s}
         /\ Consumed(ref[s]) => rc[ref[s]] = 1 /\ s \in Var
<1> DEFINE o == ref[s]
<1>1. /\ o \in Cell /\ CellOK(o) /\ rc[o] \in Nat /\ MaxRC > 1 /\ MaxRC \in Nat
      /\ s \in HoldersIn(ref, o)
  BY Types DEF Inductive, HoldersIn
<1>2. ~Dying(o)
  BY <1>1 DEF CellOK
<1>3. Cnt(ref, o) \in Nat /\ Cnt(ref, o) # 0
  BY <1>1, CntType
<1>4. rc[o] # MaxRC => rc[o] = Cnt(ref, o)
  BY <1>1, <1>2 DEF CellOK
<1>5. rc[o] >= 1
  BY <1>1, <1>3, <1>4
<1>6. tag[o] # "free"
  BY <1>1, <1>5 DEF CellOK
<1>7. ASSUME rc[o] = 1 PROVE HoldersIn(ref, o) = {s}
  <2>1. Cardinality(HoldersIn(ref, o)) = 1 /\ IsFiniteSet(HoldersIn(ref, o))
    BY <1>1, <1>4, <1>7, CntType DEF Cnt
  <2>2. QED
    BY <1>1, <2>1, FS_Singleton
<1>8. Consumed(o) => rc[o] = 1 /\ s \in Var
  BY <1>1 DEF CellOK
<1>9. QED
  BY <1>1, <1>2, <1>4, <1>5, <1>6, <1>7, <1>8

(* A free cell has no holder and an empty payload. *)
LEMMA FreeCell ==
  ASSUME Inductive, NEW o \in Cell, tag[o] = "free"
  PROVE  /\ rc[o] = 0 /\ ~Dying(o) /\ o \notin Static
         /\ HoldersIn(ref, o) = {} /\ Cnt(ref, o) = 0
         /\ \A s \in Slot : ref[s] # o
         /\ \A i \in Arg : ref[<<o, i>>] = NULL
<1>1. CellOK(o) /\ PayloadOK(o) /\ rc[o] \in Nat /\ MaxRC > 1 /\ MaxRC \in Nat
  BY Types DEF Inductive
<1>2. rc[o] = 0 /\ ~Dying(o) /\ o \notin Static
  BY <1>1 DEF CellOK
<1>3. Cnt(ref, o) = 0
  BY <1>1, <1>2 DEF CellOK
<1>4. HoldersIn(ref, o) = {}
  BY <1>3, CntType
<1>5. QED
  BY <1>1, <1>2, <1>3, <1>4 DEF HoldersIn, PayloadOK

(***************************************************************************)
(* What a step may do to a cell whose role it leaves alone                 *)
(***************************************************************************)
SameRole(v) == tag'[v] = tag[v] /\ arity'[v] = arity[v] /\ size'[v] = size[v]

Untouched(v) ==
  /\ rc'[v] = rc[v] /\ HoldersIn(ref', v) = HoldersIn(ref, v)
  /\ Dying(v)' <=> Dying(v)

Recounted(v) ==
  /\ ~Consumed(v) /\ ~Dying(v)' /\ rc[v] # 0
  /\ \/ rc[v] = MaxRC /\ rc'[v] = MaxRC
     \/ rc[v] # MaxRC /\ rc'[v] = Cnt(ref', v) /\ rc'[v] # 0

Doomed(v) ==
  /\ ~Consumed(v) /\ Dying(v)' /\ rc[v] = 1 /\ rc'[v] = 1
  /\ HoldersIn(ref', v) = {}

LEMMA CellStep ==
  ASSUME NEW v \in Cell, CellOK(v), SameRole(v),
         Untouched(v) \/ Recounted(v) \/ Doomed(v)
  PROVE  CellOK(v)'
<1>1. Consumed(v)' <=> Consumed(v)
  BY DEF SameRole, Consumed, Saturated
<1>2. CASE Untouched(v)
  BY <1>1, <1>2 DEF SameRole, Untouched, CellOK, Cnt
<1>3. CASE Doomed(v)
  BY <1>1, <1>3, HeapAssumption DEF SameRole, Doomed, CellOK, Cnt
<1>4. CASE Recounted(v)
  <2>1. Roomy => Cnt(ref', v) # MaxRC
    BY CntType, SlotFinite, HeapAssumption DEF Roomy
  <2>2. QED
    BY <1>1, <1>4, <2>1, HeapAssumption DEF SameRole, Recounted, CellOK, Roomy
<1>5. QED
  BY <1>2, <1>3, <1>4

(* Payload entries keep their contents, are emptied, or are filled in an
   allocated cell with room for them.                                       *)
LEMMA PayloadStep ==
  ASSUME NEW v \in Cell, PayloadOK(v), rc'[v] # 0 \/ rc'[v] = rc[v],
         size'[v] = size[v],
         \A i \in Arg : \/ ref'[<<v, i>>] \in {NULL, ref[<<v, i>>]}
                        \/ rc'[v] # 0 /\ i <= size[v]
  PROVE  PayloadOK(v)'
BY DEF PayloadOK

(* A slot has room for a reference: a local, or an entry of an allocated cell. *)
Room(t) == \A v \in Cell, i \in Arg : t = <<v, i>> => rc[v] # 0 /\ i <= size[v]

(* newReference keeps the counter of a cell exact when one holder is added. *)
LEMMA Incremented ==
  ASSUME Inductive, NEW o \in Cell, ~Consumed(o), ~Dying(o)',
         o \in Static \/ \E s \in Slot : ref[s] = o,
         rc'[o] = Incr(rc, o)[o], Cnt(ref', o) = Cnt(ref, o) + 1
  PROVE  Recounted(o) /\ ~Dying(o)
<1>1. TypeOK /\ CellOK(o) /\ o # NULL /\ Cnt(ref, o) \in Nat
  BY CntType, HeapAssumption DEF Inductive
<1>2. /\ ~Dying(o) /\ rc[o] # 0
      /\ rc[o] # MaxRC => rc[o] = Cnt(ref, o)
  <2>1. CASE o \in Static
    BY <2>1, <1>1, Types DEF CellOK
  <2>2. CASE o \notin Static
    BY <2>2, <1>1, Types, Held
  <2>3. QED
    BY <2>1, <2>2
<1>3. CASE rc[o] = MaxRC
  BY <1>1, <1>2, <1>3 DEF Incr, Recounted
<1>4. CASE rc[o] # MaxRC
  <2>1. rc'[o] = rc[o] + 1
    BY <1>1, <1>4, Types DEF Incr
  <2>2. QED
    BY <1>1, <1>2, <1>4, <2>1 DEF Recounted
<1>5. QED
  BY <1>2, <1>3, <1>4

LEMMA IncrAt ==
  ASSUME TypeOK, NEW o \in Cell
  PROVE  /\ Incr(rc, o) \in [Cell -> 0..MaxRC]
         /\ rc[o] # 0 => Incr(rc, o)[o] # 0
         /\ \A v \in Cell : v # o => Incr(rc, o)[v] = rc[v]
BY Types DEF Incr

(***************************************************************************)
(* The invariant along each kind of step                                   *)
(***************************************************************************)
(* A slot receives a counted copy of a reference that exists, or a static
   value: newReference, the projections, readIORef, and writeIORef on an
   IORef that was empty.                                                    *)
LEMMA CopyStep ==
  ASSUME Inductive, NEW o \in Cell, NEW y \in Slot, ref[y] = NULL, Room(y),
         ~Consumed(o), o \in Static \/ \E s \in Slot : ref[s] = o,
         ref' = Put(ref, y, o), rc' = Incr(rc, o),
         UNCHANGED <<tag, arity, size, drops>>
  PROVE  Inductive'
<1>1. TypeOK /\ o # NULL
  BY HeapAssumption DEF Inductive
<1>2. /\ Cnt(ref', o) = Cnt(ref, o) + 1
      /\ \A v \in Cell : v # o => HoldersIn(ref', v) = HoldersIn(ref, v)
  BY <1>1, Types, Give
<1>3. Recounted(o)
  <2>1. ~Dying(o)
    <3>1. CASE o \in Static
      BY <3>1, <1>1, Types DEF Inductive, CellOK
    <3>2. CASE o \notin Static
      BY <3>2, <1>1, Held
    <3>3. QED
      BY <3>1, <3>2
  <2>2. QED
    BY <1>2, <2>1, Incremented DEF Dying
<1>4. /\ rc' \in [Cell -> 0..MaxRC] /\ rc'[o] # 0
      /\ \A v \in Cell : v # o => rc'[v] = rc[v]
  BY <1>1, <1>3, IncrAt DEF Recounted
<1>5. ref' \in Refs /\ \A t \in Slot : t # y => ref'[t] = ref[t]
  BY <1>1, Types, PutAt
<1>6. TypeOK' /\ Stacked'
  BY <1>1, <1>4, <1>5 DEF Inductive, TypeOK, Refs, Stacked
<1>7. ASSUME NEW v \in Cell PROVE PayloadOK(v)'
  <2>1. rc'[v] = rc[v] \/ rc'[v] # 0
    BY <1>4
  <2>2. rc[v] # 0 => rc'[v] # 0
    BY <1>4
  <2>3. \A i \in Arg : \/ ref'[<<v, i>>] = ref[<<v, i>>]
                       \/ rc'[v] # 0 /\ i <= size[v]
    BY <1>5, <2>2, Slots DEF Room
  <2>4. QED
    BY <2>1, <2>3, PayloadStep DEF Inductive
<1>8. ASSUME NEW v \in Cell PROVE CellOK(v)'
  <2>1. Untouched(v) \/ Recounted(v)
    BY <1>2, <1>3, <1>4 DEF Untouched, Dying
  <2>2. QED
    BY <2>1, CellStep DEF Inductive, SameRole
<1>9. QED
  BY <1>6, <1>7, <1>8 DEF Inductive

(* A reference moves from one slot to another, which belongs to a local or to
   an allocated cell with room for it: fillArgs, args[k] of a consumed cell,
   the arguments of a finaliser.                                            *)
LEMMA MoveStep ==
  ASSUME Inductive, NEW s \in Slot, NEW t \in Slot, NEW o \in Cell,
         ref[s] = o, ref[t] = NULL, ~Consumed(o),
         Room(t),
         ref' = Put(Put(ref, s, NULL), t, o),
         UNCHANGED <<tag, rc, arity, size, drops>>
  PROVE  Inductive'
<1>1. TypeOK /\ o # NULL /\ ~Dying(o)
  BY Held, HeapAssumption DEF Inductive
<1>2. /\ \A v \in Cell : Cnt(ref', v) = Cnt(ref, v)
      /\ \A v \in Cell : v # o => HoldersIn(ref', v) = HoldersIn(ref, v)
  BY <1>1, Types, Move
<1>3. /\ ref' \in Refs
      /\ \A u \in Slot : u # t => ref'[u] \in {NULL, ref[u]}
  BY <1>1, Types DEF Put, Refs
<1>4. TypeOK' /\ Stacked'
  BY <1>1, <1>3 DEF Inductive, TypeOK, Refs, Stacked
<1>5. ASSUME NEW v \in Cell PROVE PayloadOK(v)'
  <2>1. \A i \in Arg : \/ ref'[<<v, i>>] \in {NULL, ref[<<v, i>>]}
                       \/ rc'[v] # 0 /\ i <= size[v]
    BY <1>3, Slots DEF Room
  <2>2. QED
    BY <2>1, PayloadStep DEF Inductive
<1>6. ASSUME NEW v \in Cell, v # o PROVE CellOK(v)'
  BY <1>6, <1>2, CellStep DEF Inductive, Untouched, SameRole, Dying
<1>7. CellOK(o)'
  <2>1. CellOK(o) /\ Cnt(ref', o) = Cnt(ref, o)
    BY <1>1, <1>2 DEF Inductive
  <2>2. QED
    BY <1>1, <2>1 DEF CellOK, Consumed, Saturated, Dying
<1>8. QED
  BY <1>4, <1>5, <1>6, <1>7 DEF Inductive

(* A cell changes its role and nothing else: it is kept for reuse, reused,
   dispatched, or its finaliser begins or ends.                             *)
LEMMA RetagStep ==
  ASSUME Inductive, NEW o \in Cell, tag[o] # "free", o \notin Static,
         NEW T \in Tag \ {"free", "closure", "ioref"},
         T = "running" => tag[o] = "closure",
         T \in {"reuse", "running"} =>
            rc[o] = 1 /\ \E x \in Var : HoldersIn(ref, o) = {x},
         tag' = [tag EXCEPT ![o] = T],
         UNCHANGED <<rc, arity, size, ref, drops>>
  PROVE  Inductive'
<1>1. TypeOK' /\ Stacked'
  BY DEF Inductive, TypeOK, Stacked
<1>2. \A v \in Cell : PayloadOK(v)'
  BY DEF Inductive, PayloadOK
<1>3. ASSUME NEW v \in Cell, v # o PROVE CellOK(v)'
  <2>1. tag'[v] = tag[v]
    BY <1>3 DEF Inductive, TypeOK
  <2>2. QED
    BY <2>1, CellStep DEF Inductive, Untouched, SameRole, Dying
<1>4. CellOK(o)'
  <2>1. tag'[o] = T
    BY DEF Inductive, TypeOK
  <2>2. CellOK(o) /\ rc[o] # 0
    BY DEF Inductive, CellOK
  <2>3. Consumed(o)' => T \in {"reuse", "running"}
    BY <2>1 DEF Consumed, Saturated
  <2>4. QED
    BY <2>1, <2>2, <2>3 DEF CellOK, Dying, Cnt
<1>5. QED
  BY <1>1, <1>2, <1>3, <1>4 DEF Inductive

(* The role of a newly allocated cell. *)
NewRole(o) ==
  /\ tag' \in [Cell -> Tag]
  /\ arity' \in [Cell -> 0..NArg] /\ size' \in [Cell -> 0..NArg]
  /\ tag'[o] \in {"leaf", "constructor", "closure", "ioref", "gcpointer"}
  /\ tag'[o] = "closure" => "closure" \in Kinds
  /\ tag'[o] = "ioref" => size'[o] >= 1
  /\ \A v \in Cell : v # o => SameRole(v)

LEMMA AllocRole ==
  ASSUME TypeOK, NEW o \in Cell,
         NEW k \in {"leaf", "constructor", "closure", "ioref", "gcpointer"},
         NEW a \in 0..NArg, NEW z \in 0..NArg,
         k = "closure" => "closure" \in Kinds, k = "ioref" => z >= 1,
         tag' = [tag EXCEPT ![o] = k], arity' = [arity EXCEPT ![o] = a],
         size' = [size EXCEPT ![o] = z]
  PROVE  NewRole(o) /\ size'[o] = z
BY DEF NewRole, TypeOK, Tag, SameRole

(* A cell is born in local x, and references may be stored in it: the
   allocators, prim__newIORef, prim__onCollect and the application of a
   shared closure.                                                          *)
LEMMA BirthStep ==
  ASSUME Inductive, NEW x \in Var, NEW o \in Cell, tag[o] = "free",
         NewRole(o), drops' = drops,
         rc' \in [Cell -> 0..MaxRC], rc'[o] = 1,
         ref' \in Refs, HoldersIn(ref', o) = {x},
         \A i \in Arg : ref'[<<o, i>>] # NULL => i <= size'[o],
         \A v \in Cell, i \in Arg : v # o => ref'[<<v, i>>] = ref[<<v, i>>],
         \A v \in Cell : v # o => Untouched(v) \/ Recounted(v)
  PROVE  Inductive'
<1>1. TypeOK /\ ~Dying(o) /\ o \notin Static /\ MaxRC > 1 /\ MaxRC \in Nat
  BY FreeCell, Types DEF Inductive
<1>2. \A v \in Cell : v # o => SameRole(v)
  BY DEF NewRole
<1>3. TypeOK' /\ Stacked'
  BY <1>1 DEF Inductive, TypeOK, Refs, Stacked, NewRole
<1>4. ASSUME NEW v \in Cell, v # o PROVE CellOK(v)' /\ PayloadOK(v)'
  <2>1. rc[v] # 0 => rc'[v] # 0
    BY <1>4, <1>1 DEF Untouched, Recounted
  <2>2. PayloadOK(v)'
    BY <1>2, <1>4, <2>1 DEF Inductive, PayloadOK, SameRole
  <2>3. QED
    BY <1>2, <1>4, <2>2, CellStep DEF Inductive
<1>5. PayloadOK(o)'
  BY DEF PayloadOK
<1>6. CellOK(o)'
  <2>1. ~Dying(o)'
    BY <1>1 DEF Dying
  <2>2. Cnt(ref', o) = 1
    BY FS_Singleton DEF Cnt
  <2>3. QED
    BY <1>1, <2>1, <2>2 DEF CellOK, Consumed, NewRole
<1>7. QED
  BY <1>3, <1>4, <1>5, <1>6 DEF Inductive

(* removeReference keeps the counter of a cell exact when one holder goes,
   and starts the cascade of the cell when it was the last.                 *)
LEMMA Decremented ==
  ASSUME Inductive, NEW s \in Slot, NEW o \in Cell, ref[s] = o, ~Consumed(o),
         rc'[o] = Decr(rc, o)[o], drops' = Push(rc, o),
         Cnt(ref, o) = Cnt(ref', o) + 1
  PROVE  /\ Doomed(o) \/ Recounted(o)
         /\ drops' \in Seq(Cell) /\ Stacked'
         /\ \A v \in Cell : v # o => (Dying(v)' <=> Dying(v))
<1>1. /\ TypeOK /\ o # NULL /\ ~Dying(o) /\ rc[o] \in Nat /\ rc[o] >= 1
      /\ rc[o] # MaxRC => rc[o] = Cnt(ref, o)
      /\ MaxRC > 1 /\ MaxRC \in Nat /\ Cnt(ref', o) \in Nat
  BY Held, Types, CntType DEF Inductive
<1>2. /\ rc[o] \in {1, MaxRC} => rc'[o] = rc[o]
      /\ rc[o] \notin {1, MaxRC} => rc'[o] = rc[o] - 1
  BY <1>1, Types DEF Decr
<1>3. drops \in Seq(Cell) /\ Once(drops) /\ ~Occurs(drops, o)
  BY <1>1 DEF Inductive, Stacked, Dying, TypeOK, Once, Occurs
<1>4. /\ drops' \in Seq(Cell) /\ Once(drops')
      /\ \A v \in Cell : v # o => (Occurs(drops', v) <=> Occurs(drops, v))
      /\ Occurs(drops', o) <=> rc[o] = 1
  <2>1. CASE rc[o] = 1
    <3>1. drops' = Append(drops, o)
      BY <2>1, <1>1 DEF Push
    <3>2. /\ Append(drops, o) \in Seq(Cell) /\ Once(Append(drops, o))
          /\ Occurs(Append(drops, o), o)
          /\ \A v \in Cell : v # o => (Occurs(Append(drops, o), v) <=> Occurs(drops, v))
      BY <1>3, Pushed
    <3>3. QED
      BY <2>1, <3>1, <3>2, Zenon
  <2>2. CASE rc[o] # 1
    <3>1. drops' = drops
      BY <2>2 DEF Push
    <3>2. QED
      BY <2>2, <3>1, <1>3
  <2>3. QED
    BY <2>1, <2>2
<1>5. /\ Stacked' /\ (Dying(o)' <=> rc[o] = 1)
      /\ \A v \in Cell : v # o => (Dying(v)' <=> Dying(v))
  BY <1>4 DEF Stacked, Dying, Once, Occurs
<1>6. Doomed(o) \/ Recounted(o)
  <2>1. CASE rc[o] = 1
    <3>1. HoldersIn(ref', o) = {}
      BY <2>1, <1>1, CntType
    <3>2. QED
      BY <2>1, <3>1, <1>2, <1>5 DEF Doomed
  <2>2. CASE rc[o] # 1
    BY <2>2, <1>1, <1>2, <1>5 DEF Recounted
  <2>3. QED
    BY <2>1, <2>2
<1>7. QED
  BY <1>4, <1>5, <1>6

LEMMA DecrAt ==
  ASSUME TypeOK, NEW r \in [Cell -> 0..MaxRC], NEW o \in Cell, r[o] # 0
  PROVE  /\ Decr(r, o) \in [Cell -> 0..MaxRC] /\ Decr(r, o)[o] # 0
         /\ \A v \in Cell : v # o => Decr(r, o)[v] = r[v]
BY Types DEF Decr

(* A reference is dropped: removeReference of a local or of a payload entry. *)
LEMMA ReleaseStep ==
  ASSUME Inductive, NEW s \in Slot, NEW o \in Cell, ref[s] = o, ~Consumed(o),
         ref' = Put(ref, s, NULL), rc' = Decr(rc, o), drops' = Push(rc, o),
         UNCHANGED <<tag, arity, size>>
  PROVE  Inductive'
<1>1. TypeOK /\ o # NULL /\ rc[o] # 0
  BY Held, Types DEF Inductive
<1>2. /\ Cnt(ref, o) = Cnt(ref', o) + 1
      /\ \A v \in Cell : v # o => HoldersIn(ref', v) = HoldersIn(ref, v)
  BY <1>1, Types, Take
<1>3. ref' \in Refs /\ \A t \in Slot : ref'[t] \in {NULL, ref[t]}
  BY <1>1, Types DEF Put, Refs
<1>4. /\ rc' \in [Cell -> 0..MaxRC] /\ rc'[o] # 0
      /\ \A v \in Cell : v # o => rc'[v] = rc[v]
  BY <1>1, Types, DecrAt
<1>5. /\ Doomed(o) \/ Recounted(o)
      /\ drops' \in Seq(Cell) /\ Stacked'
      /\ \A v \in Cell : v # o => (Dying(v)' <=> Dying(v))
  BY <1>2, Decremented
<1>6. TypeOK'
  BY <1>1, <1>3, <1>4, <1>5 DEF TypeOK, Refs
<1>7. ASSUME NEW v \in Cell PROVE PayloadOK(v)'
  <2>1. \A i \in Arg : ref'[<<v, i>>] \in {NULL, ref[<<v, i>>]}
    BY <1>3, Slots
  <2>2. QED
    BY <1>4, <2>1, PayloadStep DEF Inductive
<1>8. ASSUME NEW v \in Cell PROVE CellOK(v)'
  <2>1. Untouched(v) \/ Recounted(v) \/ Doomed(v)
    BY <1>2, <1>4, <1>5 DEF Untouched
  <2>2. QED
    BY <2>1, CellStep DEF Inductive, SameRole
<1>9. QED
  BY <1>5, <1>6, <1>7, <1>8 DEF Inductive

(* A consumed cell is given up and was the last of its kind: the unused reuse
   cell, and the closure the trampoline has run.                            *)
LEMMA ShallowStep ==
  ASSUME Inductive, NEW x \in Var, NEW o \in Cell, ref[x] = o,
         Consumed(o), Empty(o),
         tag' = ShallowTag(o), rc' = ShallowRc(o), ref' = Put(ref, x, NULL),
         UNCHANGED <<arity, size, drops>>
  PROVE  Inductive'
<1>1. /\ TypeOK /\ x \in Slot /\ o # NULL /\ ~Dying(o) /\ rc[o] = 1
      /\ o \notin Static /\ MaxRC > 1 /\ MaxRC \in Nat /\ Cnt(ref, o) = 1
  <2>1. x \in Slot /\ TypeOK /\ o # NULL
    BY Slots, HeapAssumption DEF Inductive
  <2>2. QED
    BY <2>1, Held, Types DEF Inductive, CellOK
<1>2. /\ HoldersIn(ref', o) = {}
      /\ \A v \in Cell : v # o => HoldersIn(ref', v) = HoldersIn(ref, v)
  <2>1. Cnt(ref, o) = Cnt(ref', o) + 1
    BY <1>1, Types, Take
  <2>2. Cnt(ref', o) = 0
    BY <1>1, <2>1, CntType
  <2>3. QED
    BY <1>1, <2>2, Types, Take, CntType
<1>3. ref' \in Refs /\ \A t \in Slot : ref'[t] \in {NULL, ref[t]}
  BY <1>1, Types DEF Put, Refs
<1>4. /\ rc' \in [Cell -> 0..MaxRC] /\ rc'[o] = 0 /\ tag'[o] = "free"
      /\ tag' \in [Cell -> Tag]
      /\ \A v \in Cell : v # o => rc'[v] = rc[v] /\ tag'[v] = tag[v]
  BY <1>1, Types DEF ShallowRc, ShallowTag, TypeOK, Tag
<1>5. TypeOK' /\ Stacked'
  BY <1>1, <1>3, <1>4 DEF Inductive, TypeOK, Refs, Stacked
<1>6. ASSUME NEW v \in Cell, v # o PROVE CellOK(v)' /\ PayloadOK(v)'
  <2>1. \A i \in Arg : ref'[<<v, i>>] \in {NULL, ref[<<v, i>>]}
    BY <1>3, Slots
  <2>2. PayloadOK(v)'
    BY <1>4, <1>6, <2>1, PayloadStep DEF Inductive
  <2>3. Untouched(v) /\ SameRole(v)
    BY <1>2, <1>4, <1>6 DEF Untouched, SameRole, Dying
  <2>4. QED
    BY <2>2, <2>3, CellStep DEF Inductive
<1>7. PayloadOK(o)'
  BY <1>3, Slots DEF Empty, PayloadOK
<1>8. CellOK(o)'
  BY <1>1, <1>2, <1>4, CntType DEF CellOK, Consumed, Saturated, Dying
<1>9. QED
  BY <1>5, <1>6, <1>7, <1>8 DEF Inductive

(* The cascade's own end: the innermost cell is freed. *)
LEMMA DropFreeStep ==
  ASSUME Inductive, DropFree
  PROVE  Inductive'
<1>1. PICK o \in Cell : o = Top
  BY DEF Inductive, TypeOK, DropFree, Top
<1>2. /\ TypeOK /\ Dying(o) /\ Empty(o) /\ rc[o] = 1 /\ HoldersIn(ref, o) = {}
      /\ o \notin Static /\ MaxRC > 1 /\ MaxRC \in Nat
  BY <1>1, Types DEF Inductive, DropFree, CellOK, Dying, Top, TypeOK
<1>3. /\ drops' \in Seq(Cell) /\ Once(drops') /\ ~Occurs(drops', o)
      /\ \A v \in Cell : v # o => (Occurs(drops', v) <=> Occurs(drops, v))
  <2>1. drops \in Seq(Cell) /\ Once(drops) /\ drops # <<>>
    BY DEF Inductive, Stacked, TypeOK, Once, DropFree
  <2>2. QED
    BY <1>1, <2>1, Popped DEF DropFree, Top
<1>4. /\ Stacked' /\ ~Dying(o)'
      /\ \A v \in Cell : v # o => (Dying(v)' <=> Dying(v))
  BY <1>3 DEF Stacked, Dying, Once, Occurs
<1>5. /\ TypeOK' /\ rc'[o] = 0 /\ tag'[o] = "free"
      /\ \A v \in Cell : v # o => rc'[v] = rc[v] /\ tag'[v] = tag[v]
  BY <1>1, <1>2, <1>3 DEF DropFree, TypeOK, Tag
<1>6. ASSUME NEW v \in Cell, v # o PROVE CellOK(v)' /\ PayloadOK(v)'
  <2>1. Untouched(v) /\ SameRole(v)
    BY <1>4, <1>5, <1>6 DEF Untouched, SameRole, DropFree
  <2>2. QED
    BY <1>5, <1>6, <2>1, CellStep, PayloadStep DEF Inductive, DropFree
<1>7. CellOK(o)' /\ PayloadOK(o)'
  BY <1>2, <1>4, <1>5, CntType
     DEF CellOK, PayloadOK, Empty, Consumed, Saturated, DropFree
<1>8. QED
  BY <1>4, <1>5, <1>6, <1>7 DEF Inductive

(* Nothing happens. *)
LEMMA Stutter ==
  ASSUME Inductive, UNCHANGED vars
  PROVE  Inductive'
BY DEF vars, Inductive, TypeOK, Stacked, CellOK, PayloadOK, Dying, Consumed, Saturated

(* prim__writeIORef: the new content is counted before the old is dropped. *)
LEMMA WriteStep ==
  ASSUME Inductive, NEW x \in Var, NEW y \in Var, WriteIORef(x, y)
  PROVE  Inductive'
<1>1. PICK c \in Cell, s \in Slot : 
          c = ref[x] /\ s = <<c, 1>> /\ 1 \in Arg
  <2>1. ref[x] \in Cell /\ tag[ref[x]] = "ioref"
    BY Slots, Types DEF WriteIORef, Inductive
  <2>2. 1 \in Arg
    BY <2>1, HeapAssumption DEF Inductive, CellOK, TypeOK, Arg
  <2>3. QED
    BY <2>1, <2>2, Slots
<1>2. /\ TypeOK /\ x \in Slot /\ y \in Slot /\ rc[c] # 0 /\ tag[c] = "ioref"
      /\ Room(s)
  <2>1. x \in Slot /\ y \in Slot /\ TypeOK /\ tag[c] = "ioref" /\ ref[x] # NULL
    BY <1>1, Slots DEF Inductive, WriteIORef
  <2>2. rc[c] # 0 /\ size[c] >= 1
    BY <1>1, <2>1, Held DEF Inductive, CellOK
  <2>3. QED
    BY <1>1, <2>1, <2>2 DEF Room
<1>3. /\ ref' = Put(ref, s, ref[y])
      /\ rc' = Decr(Incr(rc, ref[y]), ref[s])
      /\ drops' = Push(Incr(rc, ref[y]), ref[s])
      /\ UNCHANGED <<tag, arity, size>>
      /\ ref[y] # NULL => ~Consumed(ref[y])
  BY <1>1 DEF WriteIORef, Put, Value, Consumed
<1>4. CASE ref[y] = NULL /\ ref[s] = NULL
  <2>1. UNCHANGED vars
    BY <1>2, <1>3, <1>4, Types DEF Incr, Decr, Push, Put, Refs, vars
  <2>2. QED
    BY <2>1, Stutter
<1>5. CASE ref[y] = NULL /\ ref[s] # NULL
  <2>1. PICK q \in Cell : q = ref[s] /\ ~Consumed(q)
    BY <1>1, <1>2, <1>5, Held, Slots
  <2>2. QED
    BY <1>2, <1>3, <1>5, <2>1, ReleaseStep DEF Incr
<1>6. CASE ref[y] # NULL /\ ref[s] = NULL
  <2>1. PICK n \in Cell : n = ref[y] /\ ~Consumed(n)
    BY <1>2, <1>3, <1>6, Types
  <2>2. QED
    BY <1>2, <1>3, <1>6, <2>1, CopyStep DEF Decr, Push
<1>7. CASE ref[y] # NULL /\ ref[s] # NULL
  <2>1. PICK q \in Cell, n \in Cell :
           /\ q = ref[s] /\ n = ref[y] /\ ~Consumed(n) /\ ~Consumed(q)
           /\ ~Dying(n) /\ ~Dying(q) /\ rc[n] # 0 /\ rc[q] # 0
           /\ rc[q] # MaxRC => rc[q] = Cnt(ref, q)
           /\ q # NULL /\ n # NULL
    BY <1>1, <1>2, <1>3, <1>7, Held, Slots, Types
  <2>2. CASE n = q
    <3>1. ref' = ref
      BY <1>3, <2>1, <2>2, <1>2, Types DEF Put, Refs
    <3>2. CASE rc[q] = MaxRC
      <4>1. rc' = rc /\ drops' = drops
        BY <1>2, <1>3, <2>1, <2>2, <3>2, Types DEF Incr, Decr, Push
      <4>2. QED
        BY <1>3, <3>1, <4>1, Stutter DEF vars
    <3>3. CASE rc[q] # MaxRC
      <4>1. /\ rc[q] \in Nat /\ rc[q] + 1 # 1 /\ rc[q] + 1 <= MaxRC
            /\ Incr(rc, q) = [rc EXCEPT ![q] = rc[q] + 1]
            /\ Incr(rc, q)[q] = rc[q] + 1
        BY <1>2, <2>1, <3>3, Types DEF Incr
      <4>2. drops' = drops
        BY <1>3, <2>1, <2>2, <4>1 DEF Push
      <4>3. CASE rc[q] + 1 # MaxRC
        <5>1. rc' = rc
          BY <1>2, <1>3, <2>1, <2>2, <4>1, <4>3, Types DEF Decr
        <5>2. QED
          BY <1>3, <3>1, <4>2, <5>1, Stutter DEF vars
      <4>4. CASE rc[q] + 1 = MaxRC
        <5>1. rc' = [rc EXCEPT ![q] = MaxRC]
          BY <1>3, <2>1, <2>2, <4>1, <4>4 DEF Decr
        <5>2. TypeOK' /\ Stacked' /\ rc'[q] = MaxRC /\ rc'[q] # 0
          <6>1. rc' \in [Cell -> 0..MaxRC] /\ rc'[q] = MaxRC /\ MaxRC # 0
            BY <1>2, <5>1, Types
          <6>2. QED
            BY <1>3, <3>1, <4>2, <6>1 DEF Inductive, TypeOK, Stacked
        <5>3. ~Roomy
          BY <2>1, <3>3, <4>1, <4>4, CntType, SlotFinite, Types DEF Roomy
        <5>4. ASSUME NEW v \in Cell PROVE CellOK(v)' /\ PayloadOK(v)'
          <6>1. v # q => rc'[v] = rc[v]
            BY <1>2, <5>1, Types
          <6>2. PayloadOK(v)'
            BY <1>3, <3>1, <5>2, <6>1 DEF Inductive, PayloadOK
          <6>3. CASE v # q
            BY <1>3, <3>1, <4>2, <6>1, <6>2, <6>3, CellStep
               DEF Inductive, Untouched, SameRole, Dying
          <6>4. CASE v = q
            <7>1. CellOK(q)
              BY DEF Inductive
            <7>2. ~Consumed(q)' /\ ~Dying(q)'
              BY <1>3, <2>1, <4>2 DEF Consumed, Saturated, Dying
            <7>3. CellOK(q)'
              BY <1>3, <2>1, <3>1, <5>2, <5>3, <7>1, <7>2 DEF CellOK, Roomy
            <7>4. QED
              BY <6>2, <6>4, <7>3
          <6>5. QED
            BY <6>3, <6>4
        <5>5. QED
          BY <5>2, <5>4 DEF Inductive
      <4>5. QED
        BY <4>3, <4>4
    <3>4. QED
      BY <3>2, <3>3
  <2>3. CASE n # q
    <3> DEFINE h == Put(ref, s, NULL)
    <3>1. h \in Refs /\ h[s] = NULL /\ ref' = Put(h, s, n)
      BY <1>2, <1>3, <2>1, Types DEF Put, Refs
    <3>2. /\ Cnt(ref, q) = Cnt(h, q) + 1
          /\ \A v \in Cell : v # q => HoldersIn(h, v) = HoldersIn(ref, v)
      BY <1>2, <2>1, Types, Take
    <3> HIDE DEF h
    <3>3. /\ Cnt(ref', n) = Cnt(h, n) + 1
          /\ \A v \in Cell : v # n => HoldersIn(ref', v) = HoldersIn(h, v)
      BY <3>1, Give
    <3>4. /\ Cnt(ref, q) = Cnt(ref', q) + 1 /\ Cnt(ref', n) = Cnt(ref, n) + 1
          /\ \A v \in Cell : v # q /\ v # n => HoldersIn(ref', v) = HoldersIn(ref, v)
      BY <2>3, <3>2, <3>3 DEF Cnt
    <3>5. ref' \in Refs /\ \A t \in Slot : t # s => ref'[t] = ref[t]
      <4>1. ref' = Put(ref, s, n) /\ ref \in Refs /\ s \in Slot
        BY <1>2, <1>3, <2>1, Types
      <4>2. QED
        BY <4>1 DEF Put, Refs
    <3>6. /\ Incr(rc, n) \in [Cell -> 0..MaxRC] /\ Incr(rc, n)[n] # 0
          /\ \A v \in Cell : v # n => Incr(rc, n)[v] = rc[v]
      BY <1>2, <2>1, IncrAt
    <3>7. /\ rc' \in [Cell -> 0..MaxRC] /\ rc'[n] # 0 /\ rc'[q] # 0
          /\ rc'[n] = Incr(rc, n)[n]
          /\ \A v \in Cell : v # q /\ v # n => rc'[v] = rc[v]
      BY <1>2, <1>3, <2>1, <2>3, <3>6, DecrAt
    <3>8. rc'[q] = Decr(rc, q)[q] /\ drops' = Push(rc, q)
      BY <1>2, <1>3, <2>1, <2>3, <3>6, Types DEF Decr, Push
    <3>9. /\ Doomed(q) \/ Recounted(q)
          /\ drops' \in Seq(Cell) /\ Stacked'
          /\ \A v \in Cell : v # q => (Dying(v)' <=> Dying(v))
      BY <1>2, <2>1, <3>4, <3>8, Decremented
    <3>10. Recounted(n)
      BY <1>2, <2>1, <2>3, <3>4, <3>7, <3>9, Incremented
    <3>11. TypeOK'
      BY <1>2, <1>3, <3>5, <3>7, <3>9 DEF TypeOK, Refs
    <3>12. ASSUME NEW v \in Cell PROVE CellOK(v)' /\ PayloadOK(v)'
      <4>1. rc[v] # 0 => rc'[v] # 0
        BY <3>7
      <4>2. \A i \in Arg : ref'[<<v, i>>] = ref[<<v, i>>] \/ (rc'[v] # 0 /\ i <= size[v])
        BY <1>2, <3>5, <4>1, Slots DEF Room
      <4>3. PayloadOK(v)'
        BY <1>3, <3>7, <4>2, PayloadStep DEF Inductive
      <4>4. Untouched(v) \/ Recounted(v) \/ Doomed(v)
        BY <3>4, <3>7, <3>9, <3>10 DEF Untouched
      <4>5. QED
        BY <1>3, <4>3, <4>4, CellStep DEF Inductive, SameRole
    <3>13. QED
      BY <3>9, <3>11, <3>12 DEF Inductive
  <2>4. QED
    BY <2>2, <2>3
<1>8. QED
  BY <1>4, <1>5, <1>6, <1>7

(* The allocators: nothing but the new cell and the local it is given to. *)
LEMMA NewStep ==
  ASSUME Inductive, NEW x \in Var, NEW o \in Cell,
         NEW k \in {"leaf", "constructor", "closure"},
         NEW a \in 0..NArg, NEW z \in 0..NArg,
         Alloc(x, o, k, a, z), rc' = [rc EXCEPT ![o] = 1],
         ref' = Put(ref, x, o), drops' = drops
  PROVE  Inductive'
<1>1. /\ TypeOK /\ x \in Slot /\ ref[x] = NULL /\ tag[o] = "free"
      /\ k = "closure" => "closure" \in Kinds
  BY Slots DEF Inductive, Alloc
<1>2. /\ HoldersIn(ref', o) = {x}
      /\ \A v \in Cell : v # o => HoldersIn(ref', v) = HoldersIn(ref, v)
  <2>1. /\ HoldersIn(ref', o) = HoldersIn(ref, o) \cup {x}
        /\ \A v \in Cell : v # o => HoldersIn(ref', v) = HoldersIn(ref, v)
    BY <1>1, Types, Give
  <2>2. QED
    BY <1>1, <2>1, FreeCell
<1>3. /\ rc' \in [Cell -> 0..MaxRC] /\ rc'[o] = 1
      /\ \A v \in Cell : v # o => rc'[v] = rc[v]
  BY <1>1, Types
<1>4. /\ ref' \in Refs
      /\ \A v \in Cell, i \in Arg : ref'[<<v, i>>] = ref[<<v, i>>]
  BY <1>1, Types, Slots DEF Put, Refs
<1>5. NewRole(o)
  BY <1>1, AllocRole DEF Alloc
<1>6. \A i \in Arg : ref'[<<o, i>>] = NULL
  BY <1>1, <1>4, FreeCell
<1>7. \A v \in Cell : v # o => Untouched(v)
  BY <1>2, <1>3 DEF Untouched, Dying
<1>8. QED
  BY <1>1, <1>2, <1>3, <1>4, <1>5, <1>6, <1>7, BirthStep

(* prim__newIORef: the content is copied into the new cell. *)
LEMMA NewIORefStep ==
  ASSUME Inductive, NEW x \in Var, NEW y \in Var, NEW o \in Cell, NewIORef(x, y, o)
  PROVE  Inductive'
<1>1. /\ TypeOK /\ x \in Slot /\ y \in Slot /\ ref[x] = NULL /\ tag[o] = "free"
      /\ x # y /\ 1 \in Arg /\ NArg \in Nat /\ 1 \in 0..NArg /\ 0 \in 0..NArg
      /\ <<o, 1>> \in Slot /\ <<o, 1>> # x /\ ref[<<o, 1>>] = NULL
      /\ drops' = drops
      /\ ref[y] # NULL => ~Consumed(ref[y])
      /\ rc' = [Incr(rc, ref[y]) EXCEPT ![o] = 1]
  <2>1. NArg >= 1 /\ NArg \in Nat
    BY HeapAssumption DEF NewIORef, Alloc
  <2>2. 1 \in Arg
    BY <2>1 DEF Arg
  <2>3. QED
    BY <2>1, <2>2, Slots, FreeCell DEF Inductive, NewIORef, Alloc, Value, Consumed
<1>a. NewRole(o) /\ size'[o] = 1
  BY <1>1 DEF NewIORef, Alloc, NewRole, TypeOK, Tag, SameRole
<1> DEFINE g == Put(ref, x, o)
<1>2. g \in Refs /\ g[<<o, 1>>] = NULL /\ ref' = Put(g, <<o, 1>>, ref[y])
  BY <1>1, Types DEF Put, Refs, NewIORef
<1>3. /\ HoldersIn(g, o) = {x}
      /\ \A v \in Cell : v # o => HoldersIn(g, v) = HoldersIn(ref, v)
  <2>1. /\ HoldersIn(g, o) = HoldersIn(ref, o) \cup {x}
        /\ \A v \in Cell : v # o => HoldersIn(g, v) = HoldersIn(ref, v)
    BY <1>1, Types, Give
  <2>2. QED
    BY <1>1, <2>1, FreeCell
<1>4. /\ ref' \in Refs
      /\ \A v \in Cell, i \in Arg : v # o => ref'[<<v, i>>] = ref[<<v, i>>]
      /\ \A i \in Arg : ref'[<<o, i>>] # NULL => i <= size'[o]
  <2>1. ref' \in Refs /\ \A t \in Slot : t \notin {x, <<o, 1>>} => ref'[t] = ref[t]
    BY <1>1, <1>2, Types DEF Put, Refs
  <2>2. \A v \in Cell, i \in Arg : <<v, i>> # <<o, 1>> => ref'[<<v, i>>] = ref[<<v, i>>]
    BY <1>1, <2>1, Slots
  <2>3. \A i \in Arg : i # 1 => ref'[<<o, i>>] = NULL
    BY <1>1, <2>2, FreeCell
  <2>4. QED
    BY <1>a, <2>1, <2>2, <2>3
<1> HIDE DEF g
<1>5. CASE ref[y] = NULL
  <2>1. ref' = g
    BY <1>1, <1>2, <1>5 DEF Put, Refs
  <2>2. /\ rc' \in [Cell -> 0..MaxRC] /\ rc'[o] = 1
        /\ \A v \in Cell : v # o => rc'[v] = rc[v]
    BY <1>1, <1>5, Types DEF Incr
  <2>3. \A v \in Cell : v # o => Untouched(v)
    BY <1>1, <1>3, <2>1, <2>2 DEF Untouched, Dying
  <2>4. HoldersIn(ref', o) = {x}
    BY <1>3, <2>1
  <2>5. QED
    BY <1>1, <1>a, <1>4, <2>2, <2>3, <2>4, BirthStep
<1>6. CASE ref[y] # NULL
  <2>1. PICK n \in Cell : n = ref[y] /\ ~Consumed(n) /\ ~Dying(n) /\ n # o
    BY <1>1, <1>6, Held, Types
  <2>2. /\ Cnt(ref', n) = Cnt(g, n) + 1
        /\ \A v \in Cell : v # n => HoldersIn(ref', v) = HoldersIn(g, v)
    BY <1>1, <1>2, <2>1, Give
  <2>3. /\ Cnt(ref', n) = Cnt(ref, n) + 1 /\ HoldersIn(ref', o) = {x}
        /\ \A v \in Cell : v # n /\ v # o => HoldersIn(ref', v) = HoldersIn(ref, v)
    BY <1>3, <2>1, <2>2 DEF Cnt
  <2>4. /\ rc' \in [Cell -> 0..MaxRC] /\ rc'[o] = 1 /\ rc'[n] = Incr(rc, n)[n]
        /\ \A v \in Cell : v # o /\ v # n => rc'[v] = rc[v]
    BY <1>1, <2>1, Types, IncrAt
  <2>5. Recounted(n)
    <3>1. ~Dying(n)'
      BY <1>1, <2>1 DEF Dying
    <3>2. QED
      BY <1>1, <2>1, <2>3, <2>4, <3>1, Incremented
  <2>6. \A v \in Cell : v # o => Untouched(v) \/ Recounted(v)
    BY <1>1, <2>3, <2>4, <2>5 DEF Untouched, Dying
  <2>7. QED
    BY <1>1, <1>a, <1>4, <2>3, <2>4, <2>6, BirthStep
<1>7. QED
  BY <1>5, <1>6

(* prim__onCollect: the pointer is counted once more, and both references the
   program passed move into the new cell.                                   *)
LEMMA OnCollectStep ==
  ASSUME Inductive, NEW x \in Var, NEW p \in Var, NEW f \in Var, NEW o \in Cell,
         OnCollect(x, p, f, o)
  PROVE  Inductive'
<1>1. /\ TypeOK /\ x \in Slot /\ p \in Slot /\ f \in Slot
      /\ ref[x] = NULL /\ tag[o] = "free" /\ x # p /\ x # f /\ p # f
      /\ {1, 2, 3} \subseteq Arg /\ NArg \in Nat /\ 3 \in 0..NArg /\ 0 \in 0..NArg
      /\ \A i \in {1, 2, 3} : <<o, i>> \in Slot /\ <<o, i>> \notin Var /\ ref[<<o, i>>] = NULL
      /\ drops' = drops
      /\ rc' = [Incr(rc, ref[p]) EXCEPT ![o] = 1]
  <2>1. NArg >= 3 /\ NArg \in Nat
    BY HeapAssumption DEF OnCollect, Alloc
  <2>2. {1, 2, 3} \subseteq Arg
    BY <2>1 DEF Arg
  <2>3. QED
    BY <2>1, <2>2, Slots, FreeCell DEF Inductive, OnCollect, Alloc
<1>a. NewRole(o) /\ size'[o] = 3
  BY <1>1, AllocRole DEF OnCollect, Alloc
<1>2. PICK P \in Cell, F \in Cell :
         /\ P = ref[p] /\ F = ref[f] /\ P # F /\ P # o /\ F # o
         /\ ~Consumed(P) /\ ~Consumed(F) /\ ~Dying(P) /\ ~Dying(F)
         /\ rc[F] # 0 /\ rc[F] # MaxRC => rc[F] = Cnt(ref, F)
         /\ rc[F] # 0
  <2>1. ref[p] # NULL /\ ref[f] # NULL /\ tag[ref[p]] = "leaf" /\ tag[ref[f]] = "closure"
    BY DEF OnCollect
  <2>2. ref[p] \in Cell /\ ref[f] \in Cell
    BY <1>1, <2>1, Types
  <2>3. ~Consumed(ref[p]) /\ ~Consumed(ref[f])
    BY <1>1, <2>1, <2>2 DEF OnCollect, Consumed, Saturated, TypeOK
  <2>4. QED
    BY <1>1, <2>1, <2>2, <2>3, Held
<1>b. PICK s1 \in Slot, s2 \in Slot, s3 \in Slot :
         /\ s1 = <<o, 1>> /\ s2 = <<o, 2>> /\ s3 = <<o, 3>>
         /\ s1 # s2 /\ s1 # s3 /\ s2 # s3 /\ {s1, s2, s3} \cap {x, p, f} = {}
         /\ ref[s1] = NULL /\ ref[s2] = NULL /\ ref[s3] = NULL
  BY <1>1
<1>c. ref' = [ref EXCEPT ![x] = o, ![p] = NULL, ![f] = NULL, ![s1] = P, ![s2] = F, ![s3] = P]
  BY <1>2, <1>b DEF OnCollect
<1> DEFINE g1 == Put(ref, x, o)
           g2 == Put(g1, s1, P)
           g3 == Put(Put(g2, p, NULL), s3, P)
<1>3. /\ g1 \in Refs /\ g1[s1] = NULL
      /\ g2 \in Refs /\ g2[p] = P /\ g2[s3] = NULL
      /\ g3 \in Refs /\ g3[f] = F /\ g3[s2] = NULL
      /\ ref' = Put(Put(g3, f, NULL), s2, F)
  <2>1. ref \in Refs /\ o \in Cell
    BY <1>1, Types
  <2>2. /\ g1 \in Refs /\ g1[s1] = NULL
        /\ \A t \in Slot : g1[t] = IF t = x THEN o ELSE ref[t]
    BY <1>b, <2>1, <1>1 DEF Put, Refs
  <2> HIDE DEF g1
  <2>3. /\ g2 \in Refs /\ g2[p] = P /\ g2[s3] = NULL
        /\ \A t \in Slot : g2[t] = IF t = s1 THEN P ELSE g1[t]
    BY <1>1, <1>2, <1>b, <2>2 DEF Put, Refs
  <2> HIDE DEF g2
  <2>4. /\ g3 \in Refs /\ g3[f] = F /\ g3[s2] = NULL
        /\ \A t \in Slot : g3[t] = IF t = s3 THEN P ELSE IF t = p THEN NULL ELSE g2[t]
    BY <1>1, <1>2, <1>b, <2>2, <2>3 DEF Put, Refs
  <2> HIDE DEF g3
  <2>5. /\ Put(Put(g3, f, NULL), s2, F) \in Refs
        /\ \A t \in Slot : Put(Put(g3, f, NULL), s2, F)[t] =
              IF t = s2 THEN F ELSE IF t = f THEN NULL ELSE g3[t]
    BY <2>4 DEF Put, Refs
  <2>6. /\ ref' \in Refs
        /\ \A t \in Slot : ref'[t] =
              IF t = s3 THEN P ELSE IF t = s2 THEN F ELSE IF t = s1 THEN P
              ELSE IF t = f THEN NULL ELSE IF t = p THEN NULL
              ELSE IF t = x THEN o ELSE ref[t]
    BY <1>c, <2>1 DEF Refs
  <2>7. \A t \in Slot : ref'[t] = Put(Put(g3, f, NULL), s2, F)[t]
    BY <1>1, <1>b, <2>2, <2>3, <2>4, <2>5, <2>6
  <2>8. QED
    BY <2>2, <2>3, <2>4, <2>5, <2>6, <2>7 DEF Refs
<1>4. /\ HoldersIn(g1, o) = HoldersIn(ref, o) \cup {x}
      /\ \A v \in Cell : v # o => HoldersIn(g1, v) = HoldersIn(ref, v)
  BY <1>1, Types, Give
<1>5. /\ Cnt(g2, P) = Cnt(g1, P) + 1
      /\ \A v \in Cell : v # P => HoldersIn(g2, v) = HoldersIn(g1, v)
  BY <1>1, <1>2, <1>3, <1>b, Give
<1>6. /\ \A v \in Cell : Cnt(g3, v) = Cnt(g2, v)
      /\ \A v \in Cell : v # P => HoldersIn(g3, v) = HoldersIn(g2, v)
  BY <1>1, <1>2, <1>3, <1>b, Move
<1>7. /\ \A v \in Cell : Cnt(ref', v) = Cnt(g3, v)
      /\ \A v \in Cell : v # F => HoldersIn(ref', v) = HoldersIn(g3, v)
  BY <1>1, <1>2, <1>3, <1>b, Move
<1>8. /\ ref' \in Refs
      /\ \A t \in Slot \ {x, p, f, s1, s2, s3} : ref'[t] = ref[t]
  BY <1>1, <1>2, <1>c, Types DEF Refs
<1> HIDE DEF g1, g2, g3
<1>9. /\ HoldersIn(ref', o) = {x}
      /\ Cnt(ref', P) = Cnt(ref, P) + 1 /\ Cnt(ref', F) = Cnt(ref, F)
      /\ \A v \in Cell : v \notin {o, P, F} => HoldersIn(ref', v) = HoldersIn(ref, v)
  BY <1>1, <1>2, <1>4, <1>5, <1>6, <1>7, FreeCell DEF Cnt
<1>10. /\ \A v \in Cell, i \in Arg : v # o => ref'[<<v, i>>] = ref[<<v, i>>]
       /\ \A i \in Arg : ref'[<<o, i>>] # NULL => i <= size'[o]
  <2>1. \A v \in Cell, i \in Arg : v # o \/ i \notin {1, 2, 3} => ref'[<<v, i>>] = ref[<<v, i>>]
    BY <1>8, <1>b, Slots
  <2>2. QED
    BY <1>1, <1>a, <2>1, FreeCell
<1>11. /\ rc' \in [Cell -> 0..MaxRC] /\ rc'[o] = 1 /\ rc'[P] = Incr(rc, P)[P]
       /\ \A v \in Cell : v # o /\ v # P => rc'[v] = rc[v]
  BY <1>1, <1>2, Types, IncrAt
<1>12. ~Dying(P)' /\ ~Dying(F)'
  BY <1>1, <1>2 DEF Dying
<1>13. Recounted(P)
  BY <1>1, <1>2, <1>9, <1>11, <1>12, Incremented
<1>14. Recounted(F)
  BY <1>1, <1>2, <1>9, <1>11, <1>12 DEF Recounted
<1>15. \A v \in Cell : v # o => Untouched(v) \/ Recounted(v)
  BY <1>1, <1>9, <1>11, <1>13, <1>14 DEF Untouched, Dying
<1>16. QED
  BY <1>1, <1>a, <1>8, <1>9, <1>10, <1>11, <1>15, BirthStep

(***************************************************************************)
(* The application of a closure                                            *)
(***************************************************************************)
(* As many payload entries as there are indices. *)
LEMMA Column ==
  ASSUME NEW q, NEW K, IsFiniteSet(K)
  PROVE  /\ IsFiniteSet({q} \X K)
         /\ Cardinality({q} \X K) = Cardinality(K)
<1>1. IsFiniteSet({q}) /\ Cardinality({q}) = 1
  BY FS_Singleton
<1>2. /\ IsFiniteSet({q} \X K)
      /\ Cardinality({q} \X K) = Cardinality({q}) * Cardinality(K)
  BY <1>1, FS_Product
<1>3. QED
  BY <1>1, <1>2, FS_CardinalityType

(* Adding to a finite set what was not in it. *)
LEMMA DisjointSum ==
  ASSUME NEW S, NEW T, IsFiniteSet(S), IsFiniteSet(T), S \cap T = {}
  PROVE  /\ Cardinality(S \cup T) = Cardinality(S) + Cardinality(T)
         /\ Cardinality(S) \in Nat /\ Cardinality(T) \in Nat
<1>1. Cardinality(S \cap T) = 0
  BY FS_EmptySet
<1>2. Cardinality(S) \in Nat /\ Cardinality(T) \in Nat
  BY FS_CardinalityType
<1>3. Cardinality(S \cup T) = Cardinality(S) + Cardinality(T) - Cardinality(S \cap T)
  BY FS_Union
<1>4. QED
  BY <1>1, <1>2, <1>3

(* What TailcallApplyClosure(x, y, o) finds. *)
Applies(x, y, o, c, n) ==
  /\ c = ref[x] /\ n = size[c] /\ n \in Nat /\ n + 1 \in Arg /\ 1..n \subseteq Arg
  /\ x # y /\ x \in Slot /\ y \in Slot /\ <<o, n + 1>> \in Slot
  /\ ref[<<o, n + 1>>] = NULL
  /\ tag[o] = "free" /\ c # o /\ tag[c] = "closure" /\ "closure" \in Kinds
  /\ rc[c] # 0 /\ ~Consumed(c) /\ ~Dying(c) /\ c \notin Static
  /\ ref[y] # NULL => ref[y] \in Cell /\ ~Consumed(ref[y]) /\ ref[y] # o

LEMMA ApplyGuard ==
  ASSUME Inductive, NEW x \in Var, NEW y \in Var, NEW o \in Cell,
         TailcallApplyClosure(x, y, o)
  PROVE  \E c \in Cell, n \in Nat : Applies(x, y, o, c, n)
<1> DEFINE c == ref[x]
           n == size[c]
<1>1. /\ TypeOK /\ x \in Slot /\ y \in Slot /\ tag[o] = "free"
      /\ tag[c] = "closure" /\ ~Saturated(c) /\ c # NULL /\ "closure" \in Kinds
      /\ x # y
  BY Slots DEF Inductive, TailcallApplyClosure
<1>2. c \in Cell /\ rc[c] # 0 /\ ~Dying(c) /\ c # o
  BY <1>1, Held, Types
<1>3. n \in Nat /\ n + 1 \in Arg /\ 1..n \subseteq Arg
  BY <1>1, <1>2, HeapAssumption DEF Saturated, TypeOK, Arg
<1>4. c \notin Static /\ ~Consumed(c)
  BY <1>1, <1>2 DEF Inductive, CellOK, Consumed
<1>5. <<o, n + 1>> \in Slot /\ ref[<<o, n + 1>>] = NULL
  BY <1>1, <1>3, Slots, FreeCell
<1>6. ref[y] # NULL => ref[y] \in Cell /\ ~Consumed(ref[y]) /\ ref[y] # o
  <2>1. ref[y] # NULL => ~Consumed(ref[y])
    BY DEF TailcallApplyClosure, Value, Consumed
  <2>2. QED
    BY <1>1, <2>1, Types, FreeCell
<1>7. Applies(x, y, o, c, n)
  BY <1>1, <1>2, <1>3, <1>4, <1>5, <1>6 DEF Applies
<1>8. QED
  BY <1>2, <1>3, <1>7

(* The references before the payload of the closure is copied. *)
Handed(x, y, o, n) == Put(Put(Put(ref, x, o), y, NULL), <<o, n + 1>>, ref[y])

LEMMA HandedCount ==
  ASSUME Inductive, NEW x \in Var, NEW y \in Var, NEW o \in Cell,
         NEW c \in Cell, NEW n \in Nat, Applies(x, y, o, c, n)
  PROVE  LET h == Handed(x, y, o, n)
         IN  /\ h \in Refs
             /\ \A t \in Slot : h[t] = IF t = <<o, n + 1>> THEN ref[y]
                                       ELSE IF t = y THEN NULL
                                       ELSE IF t = x THEN o ELSE ref[t]
             /\ Cnt(ref, c) = Cnt(h, c) + 1
             /\ HoldersIn(h, o) = {x}
             /\ \A v \in Cell : v # o /\ v # c => Cnt(h, v) = Cnt(ref, v)
             /\ \A v \in Cell : v \notin {o, c, ref[y]} => HoldersIn(h, v) = HoldersIn(ref, v)
<1> DEFINE t == <<o, n + 1>>
           h == Handed(x, y, o, n)
           g1 == Put(ref, x, NULL)
           g2 == Put(g1, x, o)
<1>1. /\ TypeOK /\ ref \in Refs /\ x \in Slot /\ y \in Slot /\ x # y /\ c = ref[x]
      /\ t \in Slot /\ ref[t] = NULL /\ c # o
      /\ t \notin Var
  BY Slots, Types DEF Inductive, Applies
<1> HIDE DEF t
<1>2. /\ \A u \in Slot : h[u] = IF u = t THEN ref[y] ELSE IF u = y THEN NULL
                                ELSE IF u = x THEN o ELSE ref[u]
      /\ h \in Refs
  BY <1>1 DEF Put, Refs, Handed, t
<1>3. g1 \in Refs /\ g1[x] = NULL /\ \A u \in Slot : u # x => g1[u] = ref[u]
  BY <1>1 DEF Put, Refs
<1>4. /\ Cnt(ref, c) = Cnt(g1, c) + 1
      /\ \A v \in Cell : v # c => HoldersIn(g1, v) = HoldersIn(ref, v)
  BY <1>1, Take
<1> HIDE DEF g1
<1>5. /\ HoldersIn(g2, o) = HoldersIn(g1, o) \cup {x}
      /\ \A v \in Cell : v # o => HoldersIn(g2, v) = HoldersIn(g1, v)
  BY <1>1, <1>3, Give
<1>6. g2 \in Refs /\ \A u \in Slot : g2[u] = IF u = x THEN o ELSE ref[u]
  BY <1>1, <1>3 DEF Put, Refs
<1> HIDE DEF g2
<1>7. HoldersIn(ref, o) = {}
  BY FreeCell DEF Applies
<1>8. CASE ref[y] = NULL
  <2>1. \A u \in Slot : h[u] = g2[u]
    BY <1>1, <1>2, <1>6, <1>8
  <2>2. h = g2
    BY <1>2, <1>6, <2>1 DEF Refs
  <2>3. QED
    BY <1>1, <1>2, <1>4, <1>5, <1>7, <2>2 DEF Cnt, t
<1>9. CASE ref[y] # NULL
  <2>1. PICK w \in Cell : w = ref[y] /\ w # o
    BY <1>9 DEF Applies
  <2> DEFINE k == Put(Put(g2, y, NULL), t, w)
  <2>2. g2[y] = w /\ g2[t] = NULL
    BY <1>1, <1>6, <2>1
  <2>3. /\ \A v \in Cell : Cnt(k, v) = Cnt(g2, v)
        /\ \A v \in Cell : v # w => HoldersIn(k, v) = HoldersIn(g2, v)
    BY <1>1, <1>6, <2>2, Move
  <2>4. k \in Refs /\ \A u \in Slot : k[u] = IF u = t THEN w ELSE IF u = y THEN NULL ELSE g2[u]
    BY <1>1, <1>6, <2>1 DEF Put, Refs
  <2> HIDE DEF k
  <2>5. \A u \in Slot : h[u] = k[u]
    BY <1>2, <1>6, <2>1, <2>4
  <2>6. h = k
    BY <1>2, <2>4, <2>5 DEF Refs
  <2>7. /\ Cnt(h, c) = Cnt(g1, c)
        /\ HoldersIn(h, o) = {x}
        /\ \A v \in Cell : v # o /\ v # c => Cnt(h, v) = Cnt(ref, v)
        /\ \A v \in Cell : v \notin {o, c, w} => HoldersIn(h, v) = HoldersIn(ref, v)
    BY <1>1, <1>4, <1>5, <1>7, <2>1, <2>3, <2>6 DEF Cnt
  <2>8. QED
    BY <1>2, <1>4, <2>1, <2>7 DEF t
<1>10. QED
  BY <1>8, <1>9

(* Where the references of the new closure come from. *)
LEMMA ExtendedAt ==
  ASSUME Inductive, NEW x \in Var, NEW y \in Var, NEW o \in Cell,
         NEW c \in Cell, NEW n \in Nat, Applies(x, y, o, c, n),
         NEW t \in Slot
  PROVE  /\ \A i \in 1..n : t = <<o, i>> => Extended(x, y, c, o)[t] = ref[<<c, i>>]
         /\ t \notin ({o} \X (1..n)) => Extended(x, y, c, o)[t] = Handed(x, y, o, n)[t]
<1>1. /\ size[c] = n /\ x # y
      /\ \A u \in {o} \X Arg : u \notin Var
      /\ 1..n \subseteq Arg /\ n + 1 \in Arg
  BY Slots DEF Applies
<1>2. Handed(x, y, o, n)[t] = IF t = <<o, n + 1>> THEN ref[y]
                              ELSE IF t = y THEN NULL ELSE IF t = x THEN o ELSE ref[t]
  BY HandedCount
<1>3. Extended(x, y, c, o)[t] =
        CASE t = x -> o
          [] t = y -> NULL
          [] t \in {o} \X (1..n) -> ref[<<c, t[2]>>]
          [] t = <<o, n + 1>> -> ref[y]
          [] OTHER -> ref[t]
  BY <1>1 DEF Extended
<1>4. ASSUME NEW i \in 1..n, t = <<o, i>> PROVE Extended(x, y, c, o)[t] = ref[<<c, i>>]
  BY <1>1, <1>3, <1>4
<1>5. ASSUME t \notin ({o} \X (1..n)) PROVE Extended(x, y, c, o)[t] = Handed(x, y, o, n)[t]
  <2>1. CASE t = <<o, n + 1>>
    BY <1>1, <1>2, <1>3, <1>5, <2>1
  <2>2. CASE t # <<o, n + 1>> /\ t = x
    BY <1>1, <1>2, <1>3, <1>5, <2>2
  <2>3. CASE t # <<o, n + 1>> /\ t # x /\ t = y
    BY <1>1, <1>2, <1>3, <1>5, <2>3
  <2>4. CASE t # <<o, n + 1>> /\ t # x /\ t # y
    BY <1>1, <1>2, <1>3, <1>5, <2>4
  <2>5. QED
    BY <2>1, <2>2, <2>3, <2>4
<1>6. QED
  BY <1>4, <1>5

(* The payload of c is copied: every argument gains a holder. *)
LEMMA ExtendedCount ==
  ASSUME Inductive, NEW x \in Var, NEW y \in Var, NEW o \in Cell,
         NEW c \in Cell, NEW n \in Nat, Applies(x, y, o, c, n),
         NEW v \in Cell, v # o
  PROVE  LET e == Extended(x, y, c, o)
             h == Handed(x, y, o, n)
         IN  /\ Copies(c, v) \in Nat
             /\ Cnt(e, v) = Cnt(h, v) + Copies(c, v)
             /\ (\A i \in 1..n : ref[<<c, i>>] # v) =>
                   HoldersIn(e, v) = HoldersIn(h, v) /\ Copies(c, v) = 0
<1> DEFINE e == Extended(x, y, c, o)
           h == Handed(x, y, o, n)
           K == {i \in 1..n : ref[<<c, i>>] = v}
           A == {o} \X K
<1>1. /\ 1..n \subseteq Arg /\ n + 1 \in Arg /\ size[c] = n /\ y \in Slot /\ x \in Slot
      /\ TypeOK /\ v # NULL
  BY HeapAssumption DEF Applies, Inductive
<1>2. IsFiniteSet(K) /\ Copies(c, v) = Cardinality(K) /\ Cardinality(K) \in Nat
  <2>1. IsFiniteSet(1..n)
    BY FS_Interval
  <2>2. K \subseteq 1..n
    OBVIOUS
  <2>3. IsFiniteSet(K)
    BY <2>1, <2>2, FS_Subset
  <2>4. QED
    BY <1>1, <2>3, FS_CardinalityType DEF Copies
<1>3. IsFiniteSet(A) /\ Cardinality(A) = Cardinality(K)
  BY <1>2, Column
<1>4. ASSUME NEW t \in Slot, t \in A PROVE e[t] = v /\ h[t] # v
  <2>1. PICK i \in 1..n : t = <<o, i>> /\ ref[<<c, i>>] = v
    BY <1>4
  <2>2. e[t] = v
    BY <2>1, ExtendedAt
  <2>3. t # <<o, n + 1>> /\ t \notin Var /\ ref[t] = NULL
    BY <1>1, <2>1, Slots, FreeCell DEF Applies
  <2>4. h[t] = ref[t]
    BY <2>3, HandedCount
  <2>5. QED
    BY <1>1, <2>2, <2>3, <2>4
<1>5. ASSUME NEW t \in Slot, t \notin A PROVE e[t] = v <=> h[t] = v
  <2>1. CASE t \in {o} \X (1..n)
    <3>1. PICK i \in 1..n : t = <<o, i>> /\ ref[<<c, i>>] # v
      BY <1>5, <2>1
    <3>2. e[t] # v
      BY <3>1, ExtendedAt
    <3>3. t # <<o, n + 1>> /\ t \notin Var /\ ref[t] = NULL
      BY <1>1, <3>1, Slots, FreeCell DEF Applies
    <3>4. h[t] = ref[t]
      BY <3>3, HandedCount
    <3>5. QED
      BY <1>1, <3>2, <3>3, <3>4
  <2>2. CASE t \notin {o} \X (1..n)
    BY <2>2, ExtendedAt
  <2>3. QED
    BY <2>1, <2>2
<1>6. A \subseteq Slot
  BY <1>1, Slots
<1>7. /\ HoldersIn(e, v) = HoldersIn(h, v) \cup A
      /\ HoldersIn(h, v) \cap A = {}
  BY <1>4, <1>5, <1>6 DEF HoldersIn
<1>8. Cnt(e, v) = Cnt(h, v) + Copies(c, v)
  <2>1. IsFiniteSet(HoldersIn(h, v)) /\ IsFiniteSet(A)
    BY <1>3, CntType
  <2> HIDE DEF A, K, h, e
  <2>2. Cardinality(HoldersIn(h, v) \cup A) = Cardinality(HoldersIn(h, v)) + Cardinality(A)
    BY <1>7, <2>1, DisjointSum
  <2>3. QED
    BY <1>2, <1>3, <1>7, <2>2 DEF Cnt
<1>9. ASSUME \A i \in 1..n : ref[<<c, i>>] # v
      PROVE  HoldersIn(e, v) = HoldersIn(h, v) /\ Copies(c, v) = 0
  <2>1. K = {} /\ A = {}
    BY <1>9
  <2>2. QED
    BY <1>2, <1>7, <2>1, FS_EmptySet
<1>10. QED
  BY <1>2, <1>8, <1>9

(* The role and the payload of the extended closure. *)
LEMMA ExtendedRole ==
  ASSUME Inductive, NEW x \in Var, NEW y \in Var, NEW o \in Cell,
         NEW c \in Cell, NEW n \in Nat, Applies(x, y, o, c, n)
  PROVE  /\ Extended(x, y, c, o) \in Refs
         /\ HoldersIn(Extended(x, y, c, o), o) = {x}
         /\ \A i \in Arg : Extended(x, y, c, o)[<<o, i>>] # NULL => i <= n + 1
         /\ \A v \in Cell, i \in Arg :
               v # o => Extended(x, y, c, o)[<<v, i>>] = ref[<<v, i>>]
<1> DEFINE e == Extended(x, y, c, o)
           h == Handed(x, y, o, n)
<1>1. /\ 1..n \subseteq Arg /\ n + 1 \in Arg /\ y \in Slot /\ x \in Slot
      /\ TypeOK /\ o # NULL /\ tag[o] = "free" /\ ref \in Refs
  BY HeapAssumption, Types DEF Applies, Inductive
<1>2. h \in Refs /\ HoldersIn(h, o) = {x}
  BY HandedCount
<1>3. ASSUME NEW t \in Slot PROVE e[t] \in Cell \cup {NULL} /\ (e[t] = o <=> t = x)
  <2>1. CASE t \in {o} \X (1..n)
    <3>1. PICK i \in 1..n : t = <<o, i>>
      BY <2>1
    <3>2. e[t] = ref[<<c, i>>] /\ <<c, i>> \in Slot /\ t # x
      BY <1>1, <3>1, ExtendedAt, Slots
    <3>3. QED
      BY <1>1, <3>2, FreeCell DEF Refs
  <2>2. CASE t \notin {o} \X (1..n)
    BY <1>1, <1>2, <2>2, ExtendedAt DEF Refs, HoldersIn
  <2>3. QED
    BY <2>1, <2>2
<1>4. e \in Refs
  <2>1. e = [t \in Slot |-> e[t]]
    BY DEF Extended
  <2>2. QED
    BY <1>3, <2>1 DEF Refs
<1>5. HoldersIn(e, o) = {x}
  BY <1>1, <1>3 DEF HoldersIn
<1>6. ASSUME NEW i \in Arg, e[<<o, i>>] # NULL PROVE i <= n + 1
  <2>1. SUFFICES ASSUME i > n + 1 PROVE FALSE
    BY <1>1 DEF Arg
  <2>2. /\ <<o, i>> \notin {o} \X (1..n) /\ <<o, i>> # <<o, n + 1>>
        /\ <<o, i>> \in Slot /\ <<o, i>> \notin Var /\ ref[<<o, i>>] = NULL
    BY <1>1, <2>1, Slots, FreeCell
  <2>3. e[<<o, i>>] = h[<<o, i>>]
    BY <2>2, ExtendedAt
  <2>4. h[<<o, i>>] = NULL
    BY <2>2, HandedCount
  <2>5. QED
    BY <1>6, <2>3, <2>4
<1>7. ASSUME NEW v \in Cell, NEW i \in Arg, v # o PROVE e[<<v, i>>] = ref[<<v, i>>]
  <2>1. /\ <<v, i>> \notin {o} \X (1..n) /\ <<v, i>> # <<o, n + 1>>
        /\ <<v, i>> \in Slot /\ <<v, i>> \notin Var
    BY <1>7, Slots
  <2>2. e[<<v, i>>] = h[<<v, i>>]
    BY <2>1, ExtendedAt
  <2>3. h[<<v, i>>] = ref[<<v, i>>]
    BY <2>1, HandedCount
  <2>4. QED
    BY <2>2, <2>3
<1>8. QED
  BY <1>4, <1>5, <1>6, <1>7

(* A shared closure is applied: the new closure is born with counted copies of
   its arguments.  This is where the counter must not be saturated.         *)
LEMMA ApplySharedStep ==
  ASSUME Inductive, SoundCounts,
         NEW x \in Var, NEW y \in Var, NEW o \in Cell,
         TailcallApplyClosure(x, y, o), ApplyShared(x, y, o)
  PROVE  Inductive'
<1>1. PICK c \in Cell, n \in Nat : Applies(x, y, o, c, n)
  BY ApplyGuard
<1> DEFINE e == Extended(x, y, c, o)
           h == Handed(x, y, o, n)
<1>2. /\ TypeOK /\ tag[o] = "free" /\ c # o /\ c = ref[x] /\ n = size[c]
      /\ n + 1 \in 0..NArg /\ x \in Slot /\ y \in Slot /\ 1..n \subseteq Arg
      /\ rc \in [Cell -> 0..MaxRC] /\ MaxRC \in Nat /\ MaxRC > 1
  BY <1>1, Types DEF Inductive, Applies, Arg
<1>3. /\ rc[c] > 1 /\ ref' = e /\ drops' = drops
      /\ rc' = [DupArgs(c) EXCEPT ![o] = 1, ![c] = @ - 1]
      /\ tag' = [tag EXCEPT ![o] = "closure"]
      /\ arity' = [arity EXCEPT ![o] = arity[c]]
      /\ size' = [size EXCEPT ![o] = n + 1]
  BY <1>2 DEF TailcallApplyClosure, ApplyShared
<1>4. Roomy
  BY <1>1 DEF SoundCounts, Applies
<1>5. NewRole(o) /\ size'[o] = n + 1
  <2>1. arity[c] \in 0..NArg /\ "closure" \in Kinds
    BY <1>1, <1>2 DEF TypeOK, Applies
  <2>2. QED
    BY <1>2, <1>3, <2>1 DEF NewRole, TypeOK, Tag, SameRole
<1>6. /\ ref' \in Refs /\ HoldersIn(ref', o) = {x}
      /\ \A i \in Arg : ref'[<<o, i>>] # NULL => i <= size'[o]
      /\ \A v \in Cell, i \in Arg : v # o => ref'[<<v, i>>] = ref[<<v, i>>]
  BY <1>1, <1>3, <1>5, ExtendedRole
<1>7. ASSUME NEW v \in Cell, v # o
      PROVE  /\ Copies(c, v) \in Nat /\ Cnt(ref', v) \in Nat
             /\ Cnt(ref', v) + 1 < MaxRC
             /\ v = c => Cnt(ref', v) + 1 = Cnt(ref, v) + Copies(c, v)
             /\ v # c => Cnt(ref', v) = Cnt(ref, v) + Copies(c, v)
             /\ v \notin {c, ref[y]} /\ (\A i \in 1..n : ref[<<c, i>>] # v) =>
                   HoldersIn(ref', v) = HoldersIn(ref, v) /\ Copies(c, v) = 0
  <2>1. /\ Copies(c, v) \in Nat
        /\ Cnt(e, v) = Cnt(h, v) + Copies(c, v)
        /\ (\A i \in 1..n : ref[<<c, i>>] # v) =>
              HoldersIn(e, v) = HoldersIn(h, v) /\ Copies(c, v) = 0
    BY <1>1, <1>7, ExtendedCount
  <2>2. /\ Cnt(ref, c) = Cnt(h, c) + 1
        /\ v # c => Cnt(h, v) = Cnt(ref, v)
        /\ v \notin {c, ref[y]} => HoldersIn(h, v) = HoldersIn(ref, v)
    BY <1>1, <1>7, HandedCount
  <2>3. /\ Cnt(e, v) \in Nat /\ Cnt(h, v) \in Nat /\ Cnt(ref, v) \in Nat
        /\ Cnt(e, v) <= Cardinality(Slot)
    BY CntType
  <2> HIDE DEF e, h
  <2>4. Cnt(e, v) + 1 < MaxRC
    BY <1>2, <1>4, <2>3, SlotFinite DEF Roomy
  <2>5. QED
    BY <1>3, <2>1, <2>2, <2>3, <2>4
<1>8. \A v \in Cell : v # o =>
         rc'[v] = (IF rc[v] + Copies(c, v) > MaxRC THEN MaxRC ELSE rc[v] + Copies(c, v))
                  - (IF v = c THEN 1 ELSE 0)
  <2>1. ASSUME NEW v \in Cell, v # o
        PROVE  DupArgs(c)[v] =
                  IF rc[v] + Copies(c, v) > MaxRC THEN MaxRC ELSE rc[v] + Copies(c, v)
    BY DEF DupArgs
  <2>2. ASSUME NEW v \in Cell, v # o
        PROVE  /\ v = c => rc'[v] = DupArgs(c)[v] - 1
               /\ v # c => rc'[v] = DupArgs(c)[v]
    BY <1>2, <1>3, <2>2 DEF DupArgs
  <2>3. ASSUME NEW v \in Cell, v # o
        PROVE  DupArgs(c)[v] \in Nat
    <3>1. Copies(c, v) \in Nat /\ rc[v] \in Nat
      BY <1>2, <1>7, <2>3
    <3>2. QED
      BY <1>2, <2>1, <2>3, <3>1
  <2>4. QED
    BY <2>1, <2>2, <2>3
<1>9. ASSUME NEW v \in Cell, v # o,
             v \in {c, ref[y]} \/ \E i \in 1..n : ref[<<c, i>>] = v
      PROVE  Recounted(v)
  <2>1. /\ ~Consumed(v) /\ ~Dying(v) /\ rc[v] # 0 /\ rc[v] \in Nat
        /\ rc[v] # MaxRC => rc[v] = Cnt(ref, v)
    <3>1. PICK s \in Slot : ref[s] = v /\ (s = x \/ s = y \/ \E i \in 1..n : s = <<c, i>>)
      BY <1>2, <1>9, Slots
    <3>2. v # NULL
      BY <1>9, HeapAssumption
    <3>3. ~Consumed(v)
      <4>1. CASE s = x \/ s = y
        BY <1>1, <1>2, <3>1, <3>2, <4>1 DEF Applies
      <4>2. CASE \E i \in 1..n : s = <<c, i>>
        BY <1>2, <3>1, <3>2, <4>2, Held, Slots
      <4>3. QED
        BY <3>1, <4>1, <4>2
    <3>4. QED
      BY <1>2, <3>1, <3>2, <3>3, Held
  <2>2. ~Dying(v)'
    BY <1>3, <2>1 DEF Dying
  <2>3. CASE rc[v] = MaxRC
    <3>1. v # c
      <4>1. rc[c] # MaxRC
        BY <1>1, <1>4 DEF Applies, Inductive, CellOK
      <4>2. QED
        BY <2>3, <4>1
    <3>2. rc'[v] = MaxRC
      BY <1>2, <1>7, <1>8, <1>9, <2>3, <3>1
    <3>3. QED
      BY <2>1, <2>2, <2>3, <3>2 DEF Recounted
  <2>4. CASE rc[v] # MaxRC
    <3>1. Cnt(ref, v) \in Nat
      BY CntType
    <3>2. rc[v] + Copies(c, v) <= MaxRC
      BY <1>2, <1>7, <1>9, <2>1, <2>4, <3>1
    <3>3. rc'[v] = Cnt(ref', v)
      BY <1>2, <1>7, <1>8, <1>9, <2>1, <2>4, <3>1, <3>2
    <3>4. rc'[v] # 0
      BY <1>2, <1>3, <1>7, <1>8, <1>9, <2>1, <3>2
    <3>5. QED
      BY <2>1, <2>2, <2>4, <3>3, <3>4 DEF Recounted
  <2>5. QED
    BY <2>3, <2>4
<1>10. ASSUME NEW v \in Cell, v # o,
              v \notin {c, ref[y]}, \A i \in 1..n : ref[<<c, i>>] # v
       PROVE  Untouched(v)
  <2>1. Copies(c, v) = 0 /\ HoldersIn(ref', v) = HoldersIn(ref, v) /\ rc[v] \in 0..MaxRC
    BY <1>2, <1>7, <1>10
  <2>2. rc'[v] = rc[v]
    BY <1>2, <1>8, <1>10, <2>1
  <2>3. QED
    BY <1>3, <2>1, <2>2 DEF Untouched, Dying
<1>11. rc' \in [Cell -> 0..MaxRC] /\ rc'[o] = 1
  <2>1. rc'[o] = 1
    BY <1>2, <1>3 DEF DupArgs
  <2>2. ASSUME NEW v \in Cell PROVE rc'[v] \in 0..MaxRC
    <3>1. CASE v = o
      BY <1>2, <2>1, <3>1
    <3>2. CASE v # o
      <4>1. Copies(c, v) \in Nat /\ rc[v] \in 0..MaxRC
        BY <1>2, <1>7, <3>2
      <4>2. v = c => rc[v] + Copies(c, v) >= 1
        BY <1>2, <1>3, <4>1
      <4>3. QED
        BY <1>2, <1>8, <3>2, <4>1, <4>2
    <3>3. QED
      BY <3>1, <3>2
  <2>3. rc' = [v \in Cell |-> rc'[v]]
    BY <1>3 DEF DupArgs
  <2>4. QED
    BY <2>1, <2>2, <2>3
<1>12. \A v \in Cell : v # o => Untouched(v) \/ Recounted(v)
  BY <1>9, <1>10
<1>13. QED
  BY <1>2, <1>3, <1>5, <1>6, <1>11, <1>12, BirthStep

(* A closure nobody else refers to is applied: its arguments move to the new
   closure and its cell is freed.                                           *)
LEMMA ApplyUniqueStep ==
  ASSUME Inductive, NEW x \in Var, NEW y \in Var, NEW o \in Cell,
         TailcallApplyClosure(x, y, o), ApplyUnique(x, y, o)
  PROVE  Inductive'
<1>1. PICK c \in Cell, n \in Nat : Applies(x, y, o, c, n)
  BY ApplyGuard
<1> DEFINE e == Extended(x, y, c, o)
           h == Handed(x, y, o, n)
           C == {c} \X Arg
<1>2. /\ TypeOK /\ tag[o] = "free" /\ c # o /\ c = ref[x] /\ n = size[c]
      /\ n + 1 \in 0..NArg /\ x \in Slot /\ y \in Slot /\ 1..n \subseteq Arg
      /\ rc \in [Cell -> 0..MaxRC] /\ MaxRC \in Nat /\ MaxRC > 1 /\ NULL \notin Cell
      /\ ~Dying(c) /\ c \notin Static /\ "closure" \in Kinds
  BY <1>1, Types DEF Inductive, Applies, Arg
<1>3. /\ rc[c] = 1 /\ drops' = drops
      /\ rc' = [rc EXCEPT ![o] = 1, ![c] = 0]
      /\ tag' = [tag EXCEPT ![o] = "closure", ![c] = "free"]
      /\ arity' = [arity EXCEPT ![o] = arity[c]]
      /\ size' = [size EXCEPT ![o] = n + 1]
      /\ ref' = [s \in Slot |-> IF s \in C THEN NULL ELSE e[s]]
  BY <1>2 DEF TailcallApplyClosure, ApplyUnique
<1>4. ~Dying(o) /\ o \notin Static
  BY <1>2, FreeCell
<1>5. /\ rc' \in [Cell -> 0..MaxRC] /\ rc'[o] = 1 /\ rc'[c] = 0
      /\ tag' \in [Cell -> Tag] /\ tag'[o] = "closure" /\ tag'[c] = "free"
      /\ arity' \in [Cell -> 0..NArg] /\ size' \in [Cell -> 0..NArg]
      /\ size'[o] = n + 1
      /\ \A v \in Cell : v # o /\ v # c => rc'[v] = rc[v] /\ SameRole(v)
  <2>1. arity[c] \in 0..NArg /\ n + 1 \in 0..NArg
    BY <1>2 DEF TypeOK
  <2>2. /\ tag \in [Cell -> Tag] /\ rc \in [Cell -> 0..MaxRC]
        /\ arity \in [Cell -> 0..NArg] /\ size \in [Cell -> 0..NArg]
    BY <1>2 DEF TypeOK
  <2>3. tag' \in [Cell -> Tag] /\ tag'[o] = "closure" /\ tag'[c] = "free"
    BY <1>2, <1>3, <2>2 DEF Tag
  <2>4. rc' \in [Cell -> 0..MaxRC] /\ rc'[o] = 1 /\ rc'[c] = 0
    BY <1>2, <1>3, <2>2
  <2>5. arity' \in [Cell -> 0..NArg] /\ size' \in [Cell -> 0..NArg] /\ size'[o] = n + 1
    BY <1>3, <2>1, <2>2
  <2>6. \A v \in Cell : v # o /\ v # c => rc'[v] = rc[v] /\ SameRole(v)
    BY <1>3, <2>2 DEF SameRole
  <2>7. QED
    BY <2>3, <2>4, <2>5, <2>6
<1>6. HoldersIn(ref, c) = {x}
  BY <1>2, <1>3, Held
<1> HIDE DEF e, h
<1>7. /\ e \in Refs /\ HoldersIn(e, o) = {x}
      /\ \A i \in Arg : e[<<o, i>>] # NULL => i <= n + 1
      /\ \A v \in Cell, i \in Arg : v # o => e[<<v, i>>] = ref[<<v, i>>]
  BY <1>1, ExtendedRole DEF e
<1>8. /\ ref' \in Refs
      /\ \A s \in C : ref'[s] = NULL
      /\ \A s \in Slot \ C : ref'[s] = e[s]
      /\ C \subseteq Slot /\ C \cap Var = {}
  BY <1>3, <1>7, Slots DEF Refs
<1>9. HoldersIn(ref', o) = {x} /\ \A v \in Cell : HoldersIn(ref', v) = HoldersIn(e, v) \ C
  <2>1. ASSUME NEW v \in Cell PROVE HoldersIn(ref', v) = HoldersIn(e, v) \ C
    BY <1>2, <1>8 DEF HoldersIn
  <2>2. x \notin C
    BY <1>8
  <2>3. QED
    BY <1>7, <2>1, <2>2
<1>10. \A i \in 1..n : ref[<<c, i>>] # c
  BY <1>2, <1>6, Slots DEF HoldersIn
<1>11. HoldersIn(ref', c) = {}
  <2>1. Cnt(ref, c) = Cnt(h, c) + 1 /\ Cnt(ref, c) = 1
    <3>1. Cnt(ref, c) = Cnt(h, c) + 1
      BY <1>1, HandedCount DEF h
    <3>2. QED
      BY <1>6, <3>1, FS_Singleton DEF Cnt
  <2>2. HoldersIn(h, c) = {}
    BY <2>1, CntType
  <2>3. HoldersIn(e, c) = HoldersIn(h, c)
    BY <1>1, <1>2, <1>10, ExtendedCount DEF e, h
  <2>4. QED
    BY <1>9, <2>2, <2>3
<1>12. ASSUME NEW v \in Cell, v # o, v # c PROVE Cnt(ref', v) = Cnt(ref, v)
  <2> DEFINE K == {i \in 1..n : ref[<<c, i>>] = v}
             B == {c} \X K
  <2>1. IsFiniteSet(K) /\ Cardinality(K) = Copies(c, v)
    <3>1. IsFiniteSet(1..n) /\ K \subseteq 1..n
      BY FS_Interval
    <3>2. QED
      BY <1>2, <3>1, FS_Subset DEF Copies
  <2>2. IsFiniteSet(B) /\ Cardinality(B) = Copies(c, v)
    BY <2>1, Column
  <2>3. HoldersIn(e, v) \cap C = B
    <3>1. ASSUME NEW i \in Arg PROVE e[<<c, i>>] = v <=> i \in K
      <4>1. e[<<c, i>>] = ref[<<c, i>>]
        BY <1>2, <1>7
      <4>2. ref[<<c, i>>] # NULL => i \in 1..n
        BY <1>2 DEF Inductive, PayloadOK, Arg
      <4>3. QED
        BY <1>2, <4>1, <4>2
    <3>2. K \subseteq Arg
      BY <1>2
    <3> HIDE DEF K
    <3>3. QED
      BY <1>8, <3>1, <3>2 DEF HoldersIn
  <2> HIDE DEF B, K
  <2>4. HoldersIn(e, v) = HoldersIn(ref', v) \cup B /\ HoldersIn(ref', v) \cap B = {}
    BY <1>9, <2>3
  <2>5. Cardinality(HoldersIn(e, v)) = Cardinality(HoldersIn(ref', v)) + Cardinality(B)
    BY <2>2, <2>4, DisjointSum, CntType
  <2>6. Cnt(e, v) = Cnt(h, v) + Copies(c, v) /\ Copies(c, v) \in Nat
    BY <1>1, <1>12, ExtendedCount DEF e, h
  <2>7. Cnt(h, v) = Cnt(ref, v)
    BY <1>1, <1>12, HandedCount DEF h
  <2>8. QED
    BY <2>2, <2>5, <2>6, <2>7, CntType DEF Cnt
<1>13. ASSUME NEW v \in Cell, v # o, v # c,
              v = ref[y] \/ \E i \in 1..n : ref[<<c, i>>] = v
       PROVE  Recounted(v)
  <2>1. PICK s \in Slot : ref[s] = v /\ (s = y \/ \E i \in 1..n : s = <<c, i>>)
    BY <1>2, <1>13, Slots
  <2>2. ~Consumed(v)
    <3>1. CASE s = y
      BY <1>1, <1>2, <2>1, <3>1 DEF Applies
    <3>2. CASE \E i \in 1..n : s = <<c, i>>
      BY <1>2, <2>1, <3>2, Held, Slots
    <3>3. QED
      BY <2>1, <3>1, <3>2
  <2>3. ~Dying(v)' /\ rc[v] # 0 /\ (rc[v] # MaxRC => rc[v] = Cnt(ref, v))
    BY <1>2, <1>3, <2>1, Held DEF Dying
  <2>4. QED
    BY <1>5, <1>12, <1>13, <2>2, <2>3 DEF Recounted
<1>14. ASSUME NEW v \in Cell, v # o, v # c, v # ref[y],
              \A i \in 1..n : ref[<<c, i>>] # v
       PROVE  Untouched(v)
  <2>1. HoldersIn(e, v) = HoldersIn(h, v)
    BY <1>1, <1>14, ExtendedCount DEF e, h
  <2>2. HoldersIn(h, v) = HoldersIn(ref, v)
    BY <1>1, <1>14, HandedCount DEF h
  <2>3. HoldersIn(ref, v) \cap C = {}
    <3>1. ASSUME NEW i \in Arg PROVE ref[<<c, i>>] # v
      BY <1>2, <1>14 DEF Inductive, PayloadOK, Arg
    <3>2. QED
      BY <3>1 DEF HoldersIn
  <2>4. QED
    <3>1. HoldersIn(ref', v) = HoldersIn(ref, v)
      BY <1>9, <2>1, <2>2, <2>3
    <3>2. rc'[v] = rc[v] /\ (Dying(v)' <=> Dying(v))
      BY <1>3, <1>5, <1>14 DEF Dying
    <3>3. QED
      BY <3>1, <3>2 DEF Untouched
<1>15. TypeOK' /\ Stacked'
  BY <1>2, <1>3, <1>5, <1>8 DEF Inductive, TypeOK, Stacked, Refs
<1>16. ASSUME NEW v \in Cell, v # o, v # c PROVE CellOK(v)' /\ PayloadOK(v)'
  <2>1. CellOK(v)'
    BY <1>5, <1>13, <1>14, <1>16, CellStep DEF Inductive
  <2>2. \A i \in Arg : ref'[<<v, i>>] = ref[<<v, i>>]
    BY <1>7, <1>8, <1>16, Slots
  <2>3. QED
    BY <1>5, <1>16, <2>1, <2>2 DEF Inductive, PayloadOK, SameRole
<1>17. CellOK(c)' /\ PayloadOK(c)'
  <2>1. PayloadOK(c)'
    BY <1>8 DEF PayloadOK
  <2>2. ~Dying(c)' /\ Cnt(ref', c) = 0
    BY <1>2, <1>3, <1>11, CntType DEF Dying
  <2>3. QED
    BY <1>2, <1>5, <2>1, <2>2 DEF CellOK, Consumed, Saturated
<1>18. CellOK(o)' /\ PayloadOK(o)'
  <2>1. PayloadOK(o)'
    BY <1>2, <1>5, <1>7, <1>8, Slots DEF PayloadOK
  <2>2. ~Dying(o)' /\ Cnt(ref', o) = 1
    BY <1>3, <1>4, <1>9, FS_Singleton DEF Dying, Cnt
  <2>3. QED
    BY <1>2, <1>4, <1>5, <1>9, <2>1, <2>2 DEF CellOK, Consumed
<1>19. QED
  BY <1>15, <1>16, <1>17, <1>18 DEF Inductive

(***************************************************************************)
(* The inductive invariant                                                 *)
(***************************************************************************)
LEMMA InitInductive ==
  ASSUME Init
  PROVE  Inductive
<1>1. /\ \A s \in Slot : ref[s] = NULL
      /\ drops = <<>>
      /\ MaxRC \in Nat /\ MaxRC > 1 /\ NArg \in Nat /\ NULL \notin Cell
  BY HeapAssumption DEF Init
<1>2. TypeOK /\ Stacked
  BY HeapAssumption DEF Init, TypeOK, Stacked, Tag
<1>3. ASSUME NEW v \in Cell PROVE CellOK(v) /\ PayloadOK(v)
  <2>1. HoldersIn(ref, v) = {} /\ Cnt(ref, v) = 0
    <3>1. HoldersIn(ref, v) = {}
      BY <1>1 DEF HoldersIn
    <3>2. QED
      BY <3>1, CntType
  <2>2. ~Dying(v) /\ ~Consumed(v)
    BY <1>1 DEF Dying, Consumed, Saturated, Init
  <2>3. PayloadOK(v)
    BY <1>1, Slots DEF PayloadOK
  <2>4. CellOK(v)
    BY <1>1, <2>1, <2>2 DEF CellOK, Init
  <2>5. QED
    BY <2>3, <2>4
<1>4. QED
  BY <1>2, <1>3 DEF Inductive

LEMMA AllocateInductive ==
  ASSUME Inductive, Allocate
  PROVE  Inductive'
<1>1. ASSUME NEW x \in Var, NEW o \in Cell, NewValue(x, o) PROVE Inductive'
  <2>1. 0 \in 0..NArg
    BY HeapAssumption
  <2>2. QED
    BY <1>1, <2>1, NewStep DEF NewValue, Put
<1>2. ASSUME NEW x \in Var, NEW o \in Cell, NEW n \in Arg, NewConstructor(x, o, n)
      PROVE  Inductive'
  <2>1. 0 \in 0..NArg /\ n \in 0..NArg
    BY HeapAssumption DEF Arg
  <2>2. QED
    BY <1>2, <2>1, NewStep DEF NewConstructor, Put
<1>3. ASSUME NEW x \in Var, NEW o \in Cell, NEW a \in Arity, NEW n \in 0..NArg,
             MkClosure(x, o, a, n)
      PROVE  Inductive'
  <2>1. a \in 0..NArg
    BY HeapAssumption
  <2>2. QED
    BY <1>3, <2>1, NewStep DEF MkClosure, Put
<1>4. QED
  BY <1>1, <1>2, <1>3, NewIORefStep, OnCollectStep DEF Allocate

LEMMA UseLocalsInductive ==
  ASSUME Inductive, UseLocals
  PROVE  Inductive'
<1>1. TypeOK /\ \A y \in Var : y \in Slot /\ Room(y)
  BY Slots DEF Inductive, Room
<1>2. ASSUME NEW x \in Var, NEW y \in Var, NewReference(x, y) PROVE Inductive'
  <2>1. PICK o \in Cell : o = ref[x] /\ ~Consumed(o) /\ o # NULL
    BY <1>1, <1>2, Types DEF NewReference, Value, Consumed
  <2>2. ref' = Put(ref, y, o) /\ rc' = Incr(rc, o) /\ ref[y] = NULL
    BY <1>2, <2>1 DEF NewReference, Put
  <2>3. QED
    BY <1>1, <1>2, <2>1, <2>2, CopyStep DEF NewReference
<1>3. ASSUME NEW x \in Var, RemoveReference(x) PROVE Inductive'
  <2>1. PICK o \in Cell : o = ref[x] /\ ~Consumed(o)
    BY <1>1, <1>3, Types DEF RemoveReference, Value, Consumed
  <2>2. ref' = Put(ref, x, NULL) /\ rc' = Decr(rc, o) /\ drops' = Push(rc, o)
    BY <1>3, <2>1 DEF RemoveReference, Release, Put
  <2>3. QED
    BY <1>1, <1>3, <2>1, <2>2, ReleaseStep DEF RemoveReference
<1>4. ASSUME NEW x \in Var, NEW y \in Var, ReadIORef(x, y) PROVE Inductive'
  <2>1. ref[x] \in Cell /\ tag[ref[x]] = "ioref"
    BY <1>1, <1>4, Types DEF ReadIORef
  <2>2. <<ref[x], 1>> \in Slot /\ <<ref[x], 1>> \notin Var
    <3>1. 1 \in Arg
      BY <2>1, HeapAssumption DEF Inductive, CellOK, TypeOK, Arg
    <3>2. QED
      BY <2>1, <3>1, Slots
  <2>3. PICK o \in Cell : o = ref[<<ref[x], 1>>] /\ ~Consumed(o)
    BY <1>4, <2>2, Held DEF ReadIORef
  <2>4. ref' = Put(ref, y, o) /\ rc' = Incr(rc, o) /\ ref[y] = NULL
    BY <1>4, <2>3 DEF ReadIORef, Put
  <2>5. QED
    BY <1>1, <1>4, <2>2, <2>3, <2>4, CopyStep DEF ReadIORef
<1>5. ASSUME NEW x \in Var, NEW o \in Cell, LoadStatic(x, o) PROVE Inductive'
  <2>1. tag[o] = "leaf" /\ rc[o] = MaxRC /\ o \in Static
    BY <1>5 DEF LoadStatic, Inductive, CellOK
  <2>2. ref' = Put(ref, x, o) /\ rc' = Incr(rc, o) /\ ref[x] = NULL /\ ~Consumed(o)
    BY <1>5, <2>1 DEF LoadStatic, Put, Incr, Consumed, Saturated
  <2>3. QED
    BY <1>1, <1>5, <2>1, <2>2, CopyStep DEF LoadStatic
<1>6. ASSUME NEW x \in Var, NEW i \in Arg, NEW y \in Var, FillArg(x, i, y)
      PROVE  Inductive'
  <2>1. PICK c \in Cell, o \in Cell :
           c = ref[x] /\ o = ref[y] /\ ~Consumed(o) /\ rc[c] = 1 /\ i <= size[c]
    BY <1>1, <1>6, Types DEF FillArg, Value, Consumed
  <2>2. <<c, i>> \in Slot /\ <<c, i>> # y /\ Room(<<c, i>>) /\ ref[<<c, i>>] = NULL
    BY <1>6, <2>1, Slots DEF Room, FillArg
  <2>3. ref' = Put(Put(ref, y, NULL), <<c, i>>, o)
    <3>1. ref' = Put(Put(ref, <<c, i>>, o), y, NULL)
      BY <1>6, <2>1 DEF FillArg, Put
    <3>2. ref \in Refs /\ y \in Slot
      BY <1>1, Types
    <3>3. QED
      BY <2>2, <3>1, <3>2, MoveEither
  <2>4. QED
    BY <1>1, <1>6, <2>1, <2>2, <2>3, MoveStep DEF FillArg
<1>7. ASSUME NEW x \in Var, NEW i \in Arg, NEW y \in Var, ProjectArg(x, i, y)
      PROVE  Inductive'
  <2>1. <<ref[x], i>> \in Slot /\ <<ref[x], i>> \notin Var
    BY <1>1, <1>7, Types, Slots DEF ProjectArg
  <2>2. PICK o \in Cell : o = ref[<<ref[x], i>>] /\ ~Consumed(o)
    BY <1>7, <2>1, Held DEF ProjectArg
  <2>3. ref' = Put(ref, y, o) /\ rc' = Incr(rc, o) /\ ref[y] = NULL
    BY <1>7, <2>2 DEF ProjectArg, Put
  <2>4. QED
    BY <1>1, <1>7, <2>1, <2>2, <2>3, CopyStep DEF ProjectArg
<1>8. ASSUME NEW x \in Var, NEW i \in Arg, NEW y \in Var, TakeArg(x, i, y)
      PROVE  Inductive'
  <2>1. <<ref[x], i>> \in Slot /\ <<ref[x], i>> \notin Var
    BY <1>1, <1>8, Types, Slots DEF TakeArg
  <2>2. PICK s \in Slot, o \in Cell : s = <<ref[x], i>> /\ o = ref[s] /\ ~Consumed(o) /\ s # y
    BY <1>8, <2>1, Held DEF TakeArg
  <2>3. ref' = Put(Put(ref, s, NULL), y, o) /\ ref[y] = NULL
    <3>1. ref' = Put(Put(ref, y, o), s, NULL) /\ ref[y] = NULL
      BY <1>8, <2>2 DEF TakeArg, Put
    <3>2. ref \in Refs /\ y \in Slot
      BY <1>1, Types
    <3>3. QED
      BY <2>2, <3>1, <3>2, MoveEither
  <2>4. QED
    BY <1>1, <1>8, <2>1, <2>2, <2>3, MoveStep DEF TakeArg
<1>9. QED
  BY <1>2, <1>3, <1>4, <1>5, <1>6, <1>7, <1>8, WriteStep DEF UseLocals

LEMMA ConsumeInductive ==
  ASSUME Inductive, SoundCounts, Consume
  PROVE  Inductive'
<1>1. TypeOK /\ \A x \in Var : x \in Slot
  BY Slots DEF Inductive
<1>2. ASSUME NEW x \in Var, TakeForReuse(x) PROVE Inductive'
  <2>1. PICK o \in Cell : o = ref[x] /\ tag[o] = "constructor" /\ rc[o] = 1 /\ o # NULL
    BY <1>1, <1>2, Types DEF TakeForReuse
  <2>2. HoldersIn(ref, o) = {x} /\ o \notin Static
    BY <1>1, <2>1, Held DEF Inductive, CellOK
  <2>3. QED
    BY <1>2, <2>1, <2>2, RetagStep DEF TakeForReuse, Tag
<1>3. ASSUME NEW x \in Var, ReuseConstructor(x) PROVE Inductive'
  <2>1. PICK o \in Cell : o = ref[x] /\ tag[o] = "reuse" /\ o # NULL
    BY <1>1, <1>3, Types DEF ReuseConstructor
  <2>2. o \notin Static
    BY <2>1 DEF Inductive, CellOK
  <2>3. QED
    BY <1>3, <2>1, <2>2, RetagStep DEF ReuseConstructor, Tag
<1>4. ASSUME NEW x \in Var, RemoveReuseConstructor(x) PROVE Inductive'
  <2>1. PICK o \in Cell : o = ref[x] /\ Consumed(o) /\ Empty(o)
    BY <1>1, <1>4, Types DEF RemoveReuseConstructor, Consumed
  <2>2. ref' = Put(ref, x, NULL) /\ tag' = ShallowTag(o) /\ rc' = ShallowRc(o)
    BY <1>4, <2>1 DEF RemoveReuseConstructor, Put
  <2>3. QED
    BY <1>4, <2>1, <2>2, ShallowStep DEF RemoveReuseConstructor
<1>5. ASSUME NEW x \in Var, Dispatch(x) PROVE Inductive'
  <2>1. PICK o \in Cell : o = ref[x] /\ Saturated(o) /\ tag[o] = "closure" /\ o # NULL
    BY <1>1, <1>5, Types DEF Dispatch, Saturated
  <2>2. o \notin Static /\ rc[o] = 1 /\ \E z \in Var : HoldersIn(ref, o) = {z}
    BY <2>1 DEF Inductive, CellOK, Consumed
  <2>3. QED
    BY <1>5, <2>1, <2>2, RetagStep DEF Dispatch, Tag
<1>6. ASSUME NEW x \in Var, ReturnFromCall(x) PROVE Inductive'
  <2>1. PICK o \in Cell : o = ref[x] /\ Consumed(o) /\ Empty(o)
    BY <1>1, <1>6, Types DEF ReturnFromCall, Consumed
  <2>2. ref' = Put(ref, x, NULL) /\ tag' = ShallowTag(o) /\ rc' = ShallowRc(o)
    BY <1>6, <2>1 DEF ReturnFromCall, Put
  <2>3. QED
    BY <1>6, <2>1, <2>2, ShallowStep DEF ReturnFromCall
<1>7. ASSUME NEW x \in Var, NEW y \in Var, NEW o \in Cell, TailcallApplyClosure(x, y, o)
      PROVE  Inductive'
  <2>1. ApplyUnique(x, y, o) \/ ApplyShared(x, y, o)
    BY <1>7 DEF TailcallApplyClosure
  <2>2. QED
    BY <1>7, <2>1, ApplyUniqueStep, ApplySharedStep
<1>8. QED
  BY <1>2, <1>3, <1>4, <1>5, <1>6, <1>7 DEF Consume

LEMMA CascadeInductive ==
  ASSUME Inductive,
         RemoveReferenceStep \/ EndFinalizer
            \/ \E i \in Arg, y \in Var : FinalizerArg(i, y)
  PROVE  Inductive'
<1>1. TypeOK /\ \A x \in Var : x \in Slot /\ Room(x)
  BY Slots DEF Inductive, Room
<1>2. drops # <<>> => Top \in Cell
  BY <1>1 DEF TypeOK, Top
<1>3. CASE DropField
  <2>1. PICK i \in Arg : ref[<<Top, i>>] # NULL /\ Release(<<Top, i>>)
    BY <1>3 DEF DropField
  <2>2. <<Top, i>> \in Slot /\ <<Top, i>> \notin Var
    BY <1>2, <1>3, Slots DEF DropField
  <2>3. PICK s \in Slot, o \in Cell : s = <<Top, i>> /\ o = ref[s] /\ ~Consumed(o)
    BY <2>1, <2>2, Held
  <2>4. ref' = Put(ref, s, NULL) /\ rc' = Decr(rc, o) /\ drops' = Push(rc, o)
    BY <2>1, <2>3 DEF Release, Put
  <2>5. QED
    BY <1>3, <2>3, <2>4, ReleaseStep DEF DropField
<1>4. CASE DropFree
  BY <1>4, DropFreeStep
<1>5. CASE BeginFinalizer
  <2>1. PICK o \in Cell : o = Top /\ tag[o] = "gcpointer"
    BY <1>2, <1>5 DEF BeginFinalizer, AwaitsFinalizer
  <2>2. o \notin Static
    BY <2>1 DEF Inductive, CellOK
  <2>3. QED
    BY <1>5, <2>1, <2>2, RetagStep DEF BeginFinalizer, Tag
<1>6. CASE EndFinalizer
  <2>1. PICK o \in Cell : o = Top /\ tag[o] = "finalizing"
    BY <1>2, <1>6 DEF EndFinalizer
  <2>2. o \notin Static
    BY <2>1 DEF Inductive, CellOK
  <2>3. QED
    BY <1>6, <2>1, <2>2, RetagStep DEF EndFinalizer, Tag
<1>7. ASSUME NEW i \in Arg, NEW y \in Var, FinalizerArg(i, y) PROVE Inductive'
  <2>1. <<Top, i>> \in Slot /\ <<Top, i>> \notin Var
    BY <1>2, <1>7, Slots DEF FinalizerArg
  <2>2. PICK s \in Slot, o \in Cell : s = <<Top, i>> /\ o = ref[s] /\ ~Consumed(o) /\ s # y
    BY <1>7, <2>1, Held DEF FinalizerArg
  <2>3. ref' = Put(Put(ref, s, NULL), y, o) /\ ref[y] = NULL
    <3>1. ref' = Put(Put(ref, y, o), s, NULL) /\ ref[y] = NULL
      BY <1>7, <2>2 DEF FinalizerArg, Put
    <3>2. ref \in Refs /\ y \in Slot
      BY <1>1, Types
    <3>3. QED
      BY <2>2, <3>1, <3>2, MoveEither
  <2>4. QED
    BY <1>1, <1>7, <2>1, <2>2, <2>3, MoveStep DEF FinalizerArg
<1>8. QED
  BY <1>3, <1>4, <1>5, <1>6, <1>7 DEF RemoveReferenceStep

LEMMA NextInductive ==
  ASSUME Inductive, SoundCounts, [Next]_vars
  PROVE  Inductive'
<1>1. CASE Next
  BY <1>1, AllocateInductive, UseLocalsInductive, ConsumeInductive,
     CascadeInductive DEF Next
<1>2. CASE UNCHANGED vars
  BY <1>2, Stutter
<1>3. QED
  BY <1>1, <1>2

(***************************************************************************)
(* Theorems                                                                *)
(***************************************************************************)
(* The inductive invariant holds in every state, provided the counter can
   count all slots or the program makes no closures: saturated counters are
   harmless everywhere but in the application of a shared closure.          *)
THEOREM Invariance == SoundCounts => (Spec => []IInv)
<1> SUFFICES ASSUME SoundCounts PROVE Spec => []IInv
  OBVIOUS
<1>1. Init => Inductive
  BY InitInductive
<1>2. Inductive /\ [Next]_vars => Inductive'
  BY NextInductive
<1>3. Inductive => IInv
  BY ByCell DEF Inductive
<1>4. QED
  BY <1>1, <1>2, <1>3, PTL DEF Spec

(* Every counter, arity and size stays in its field, and every reference is
   NULL or a cell: the counter neither overflows nor underflows.            *)
THEOREM CountersStayInRange == SoundCounts => (Spec => []TypeOK)
<1> SUFFICES ASSUME SoundCounts PROVE Spec => []TypeOK
  OBVIOUS
<1>1. IInv => TypeOK
  BY DEF IInv
<1>2. QED
  BY <1>1, Invariance, PTL

(* refCounter is exact for every mortal object, at every step of every
   program, in the middle of cascades and finalisers included.              *)
THEOREM CountersAreExact == SoundCounts => (Spec => []CountExact)
<1> SUFFICES ASSUME SoundCounts PROVE Spec => []CountExact
  OBVIOUS
<1>1. IInv => CountExact
  BY DEF IInv
<1>2. QED
  BY <1>1, Invariance, PTL

(* No owner ever refers to freed memory and no cell is freed twice. *)
THEOREM NothingDangles == SoundCounts => (Spec => []NoDangling)
<1> SUFFICES ASSUME SoundCounts PROVE Spec => []NoDangling
  OBVIOUS
<1>1. IInv => NoDangling
  <2> SUFFICES ASSUME IInv PROVE NoDangling
    OBVIOUS
  <2>1. Inductive
    BY ByCell DEF Inductive
  <2>2. ASSUME NEW s \in Slot, ref[s] # NULL PROVE tag[ref[s]] # "free"
    BY <2>1, <2>2, Held
  <2>3. ASSUME NEW k \in DOMAIN drops PROVE tag[drops[k]] # "free"
    <3>1. drops[k] \in Cell /\ Dying(drops[k])
      BY <2>1 DEF Inductive, TypeOK, Dying
    <3>2. QED
      BY <2>1, <3>1, FreeCell
  <2>4. QED
    BY <2>1, <2>2, <2>3 DEF NoDangling, Inductive, Stacked
<1>2. QED
  BY <1>1, Invariance, PTL

(* What is being reclaimed stays unreachable, whatever finalisers do. *)
THEOREM NothingIsRevived == SoundCounts => (Spec => []NoResurrection)
<1> SUFFICES ASSUME SoundCounts PROVE Spec => []NoResurrection
  OBVIOUS
<1>1. IInv => NoResurrection
  <2> SUFFICES ASSUME IInv, NEW k \in DOMAIN drops PROVE Holders(drops[k]) = {}
    BY DEF NoResurrection
  <2>1. Inductive
    BY ByCell DEF Inductive
  <2>2. drops[k] \in Cell /\ Dying(drops[k])
    BY <2>1 DEF Inductive, TypeOK, Dying
  <2>3. QED
    BY <2>1, <2>2 DEF Inductive, CellOK, Holders
<1>2. QED
  BY <1>1, Invariance, PTL

(* No mortal cell is left without an owner: nothing but cycles can leak. *)
THEOREM NothingIsForgotten == SoundCounts => (Spec => []NothingForgotten)
<1> SUFFICES ASSUME SoundCounts PROVE Spec => []NothingForgotten
  OBVIOUS
<1>1. IInv => NothingForgotten
  <2> SUFFICES ASSUME IInv, NEW v \in Cell, tag[v] # "free", rc[v] # MaxRC, ~Dying(v)
               PROVE  Holders(v) # {}
    BY DEF NothingForgotten
  <2>1. CellOK(v)
    BY ByCell
  <2>2. Cnt(ref, v) # 0
    BY <2>1 DEF CellOK
  <2>3. QED
    BY <2>2, CntType DEF Holders
<1>2. QED
  BY <1>1, Invariance, PTL

(* Cells that are overwritten or entered have one observer. *)
THEOREM ConsumptionIsPrivate == SoundCounts => (Spec => []ConsumedIsPrivate)
<1> SUFFICES ASSUME SoundCounts PROVE Spec => []ConsumedIsPrivate
  OBVIOUS
<1>1. IInv => ConsumedIsPrivate
  BY DEF IInv
<1>2. QED
  BY <1>1, Invariance, PTL

(***************************************************************************)
(* Immortality                                                             *)
(***************************************************************************)
(* No step takes a counter away from the maximum. *)
LEMMA StaysImmortal ==
  ASSUME Inductive, SoundCounts, [Next]_vars, NEW v \in Cell, rc[v] = MaxRC
  PROVE  rc'[v] = MaxRC
<1>1. /\ TypeOK /\ CellOK(v) /\ rc \in [Cell -> 0..MaxRC]
      /\ MaxRC \in Nat /\ MaxRC > 1 /\ rc[v] # 0 /\ rc[v] # 1
      /\ \A o \in Cell : tag[o] = "free" => o # v
      /\ \A o \in Cell : Consumed(o) => o # v
  BY Types, FreeCell DEF Inductive, CellOK
<1>2. ASSUME NEW o PROVE /\ o \in Cell => Incr(rc, o) \in [Cell -> 0..MaxRC]
                         /\ o = NULL => Incr(rc, o) = rc
                         /\ Incr(rc, o)[v] = MaxRC
                         /\ Decr(rc, o)[v] = MaxRC
                         /\ Decr(Incr(rc, o), o)[v] = MaxRC
  BY <1>1 DEF Incr, Decr
<1>3. CASE Allocate
  <2>1. ASSUME NEW x \in Var, NEW o \in Cell, NEW n \in Nat, NEW a \in Nat,
               NewValue(x, o) \/ NewConstructor(x, o, n) \/ MkClosure(x, o, a, n)
        PROVE  rc'[v] = MaxRC
    <3>1. o # v /\ rc' = [rc EXCEPT ![o] = 1]
      BY <1>1, <2>1 DEF NewValue, NewConstructor, MkClosure, Alloc
    <3>2. QED
      BY <1>1, <3>1
  <2>2. ASSUME NEW x \in Var, NEW o \in Cell, NEW y \in Var,
               NewIORef(x, y, o) \/ \E f \in Var : OnCollect(x, y, f, o)
        PROVE  rc'[v] = MaxRC
    <3>1. o # v /\ rc' = [Incr(rc, ref[y]) EXCEPT ![o] = 1]
      BY <1>1, <2>2 DEF NewIORef, OnCollect, Alloc
    <3>2. Incr(rc, ref[y])[v] = MaxRC
      BY <1>2
    <3>3. QED
      BY <1>1, <3>1, <3>2 DEF Incr
  <2>3. ASSUME NEW x \in Var, NEW o \in Cell,
               \/ NewValue(x, o)
               \/ \E n \in Arg : NewConstructor(x, o, n)
               \/ \E a \in Arity, n \in 0..NArg : MkClosure(x, o, a, n)
        PROVE  rc'[v] = MaxRC
    BY <2>1, <2>3, HeapAssumption DEF NewValue, NewConstructor, MkClosure, Alloc, Arg
  <2>4. QED
    BY <1>3, <2>2, <2>3 DEF Allocate
<1>4. CASE UseLocals
  <2>1. ASSUME NEW x \in Var, NEW y \in Var, WriteIORef(x, y) PROVE rc'[v] = MaxRC
    <3>1. Incr(rc, ref[y])[v] = MaxRC
      BY <1>2
    <3>2. Decr(Incr(rc, ref[y]), ref[<<ref[x], 1>>])[v] = MaxRC
      BY <3>1, <1>1 DEF Decr, Incr
    <3>3. QED
      BY <2>1, <3>2 DEF WriteIORef
  <2>2. ASSUME NEW x \in Var, NEW y \in Var, NewReference(x, y) \/ ReadIORef(x, y)
        PROVE  rc'[v] = MaxRC
    <3>1. \E o : rc' = Incr(rc, o)
      BY <2>2 DEF NewReference, ReadIORef
    <3>2. QED
      BY <1>2, <3>1
  <2>3. ASSUME NEW x \in Var, RemoveReference(x) PROVE rc'[v] = MaxRC
    <3>1. rc' = Decr(rc, ref[x])
      BY <2>3 DEF RemoveReference, Release
    <3>2. QED
      BY <1>2, <3>1
  <2>4. ASSUME NEW x \in Var, NEW y \in Var,
               \/ \E o \in Cell : LoadStatic(x, o)
               \/ \E i \in Arg : FillArg(x, i, y) \/ ProjectArg(x, i, y) \/ TakeArg(x, i, y)
        PROVE  rc'[v] = MaxRC
    <3>1. ASSUME NEW i \in Arg, ProjectArg(x, i, y) PROVE rc'[v] = MaxRC
      <4>1. \E o : rc' = Incr(rc, o)
        BY <3>1 DEF ProjectArg
      <4>2. QED
        BY <1>2, <4>1
    <3>2. QED
      BY <1>1, <2>4, <3>1 DEF LoadStatic, FillArg, TakeArg
  <2>5. QED
    BY <1>4, <2>1, <2>2, <2>3, <2>4 DEF UseLocals
<1>5. CASE Consume
  <2>1. ASSUME NEW x \in Var, NEW y \in Var, NEW o \in Cell, TailcallApplyClosure(x, y, o)
        PROVE  rc'[v] = MaxRC
    <3>1. PICK c \in Cell, n \in Nat : Applies(x, y, o, c, n)
      BY <2>1, ApplyGuard
    <3>2. c = ref[x] /\ tag[o] = "free" /\ c \notin Static /\ o # v
      BY <1>1, <3>1 DEF Applies
    <3>3. CASE ApplyUnique(x, y, o)
      BY <1>1, <3>2, <3>3 DEF ApplyUnique
    <3>4. CASE ApplyShared(x, y, o)
      <4>1. v # c
        BY <1>1, <3>1, <3>2 DEF SoundCounts, Applies, CellOK
      <4>2. Copies(c, v) \in Nat
        BY <3>1, <3>2, ExtendedCount
      <4>3. QED
        BY <1>1, <3>2, <3>4, <4>1, <4>2 DEF ApplyShared, DupArgs
    <3>5. QED
      BY <2>1, <3>3, <3>4 DEF TailcallApplyClosure
  <2>2. ASSUME NEW x \in Var, RemoveReuseConstructor(x) \/ ReturnFromCall(x)
        PROVE  rc'[v] = MaxRC
    <3>1. ref[x] # v
      <4>1. x \in Slot /\ ref[x] # NULL
        BY <2>2, Slots DEF RemoveReuseConstructor, ReturnFromCall
      <4>2. ref[x] \in Cell /\ Consumed(ref[x])
        BY <1>1, <2>2, <4>1, Types DEF RemoveReuseConstructor, ReturnFromCall, Consumed
      <4>3. QED
        BY <1>1, <4>2
    <3>2. QED
      BY <1>1, <2>2, <3>1 DEF RemoveReuseConstructor, ReturnFromCall, ShallowRc
  <2>3. QED
    BY <1>5, <2>1, <2>2 DEF Consume, TakeForReuse, ReuseConstructor, Dispatch
<1>6. CASE RemoveReferenceStep
  <2>1. CASE DropFree
    <3>1. Top \in Cell /\ Dying(Top)
      BY <2>1 DEF Inductive, TypeOK, DropFree, Top, Dying
    <3>2. Top # v
      BY <1>1, <3>1 DEF CellOK
    <3>3. QED
      BY <1>1, <2>1, <3>2 DEF DropFree
  <2>2. QED
    BY <1>2, <1>6, <2>1 DEF RemoveReferenceStep, DropField, Release, BeginFinalizer
<1>7. CASE EndFinalizer \/ \E i \in Arg, y \in Var : FinalizerArg(i, y)
  BY <1>7 DEF EndFinalizer, FinalizerArg
<1>8. CASE UNCHANGED vars
  BY <1>8 DEF vars
<1>9. QED
  BY <1>3, <1>4, <1>5, <1>6, <1>7, <1>8 DEF Next

(* An object at IDRIS2_VP_REFCOUNTER_MAX stays there (when the counter is wide
   enough, only the static objects are; otherwise, no closure may be made). *)
THEOREM ImmortalsStay == SoundCounts => (Spec => ImmortalForever)
<1> SUFFICES ASSUME SoundCounts PROVE Spec => ImmortalForever
  OBVIOUS
<1>1. Init => Inductive
  BY InitInductive
<1>2. Inductive /\ [Next]_vars => Inductive'
  BY NextInductive
<1>3. Inductive /\ [Next]_vars => [\A o \in Cell : rc[o] = MaxRC => rc'[o] = MaxRC]_vars
  BY StaysImmortal
<1>4. QED
  BY <1>1, <1>2, <1>3, PTL DEF Spec, ImmortalForever

(***************************************************************************)
(* Refinement of ManagedHeap                                               *)
(***************************************************************************)
Live == {o \in Cell : tag[o] # "free"}
Known(o) == o = NULL \/ o \in Static \/ (\E s \in Slot : ref[s] = o)

(* What a slot refers to after a step was known before, or has been born. *)
LEMMA NoForgeryStep ==
  ASSUME Inductive, Next, NEW s \in Slot
  PROVE  Known(ref'[s]) \/ (ref'[s] \in Live' /\ ref'[s] \notin Live)
<1> DEFINE OK(o) == Known(o) \/ (o \in Live' /\ o \notin Live)
<1>1. /\ TypeOK /\ ref \in Refs /\ tag \in [Cell -> Tag]
      /\ \A x \in Var : x \in Slot
      /\ \A t \in Slot : Known(ref[t])
      /\ Known(NULL)
  BY Slots, Types DEF Inductive, TypeOK, Known
<1>2. ASSUME NEW o \in Cell, tag[o] = "free", tag'[o] # "free" PROVE OK(o)
  BY <1>2 DEF Live
<1>3. CASE Allocate
  <2>1. ASSUME NEW x \in Var, NEW o \in Cell, NEW k \in Tag \ {"free"}, NEW a, NEW n,
               Alloc(x, o, k, a, n)
        PROVE  OK(o)
    BY <1>1, <1>2, <2>1 DEF Alloc
  <2>2. ASSUME NEW x \in Var, NEW o \in Cell,
               NewValue(x, o) \/ (\E n \in Arg : NewConstructor(x, o, n))
                  \/ \E a \in Arity, n \in 0..NArg : MkClosure(x, o, a, n)
        PROVE  OK(ref'[s])
    <3>1. OK(o)
      BY <2>1, <2>2 DEF NewValue, NewConstructor, MkClosure, Tag
    <3>2. ref' = [ref EXCEPT ![x] = o]
      BY <2>2 DEF NewValue, NewConstructor, MkClosure
    <3>3. QED
      BY <1>1, <3>1, <3>2 DEF Refs
  <2>3. ASSUME NEW x \in Var, NEW o \in Cell, NEW y \in Var, NewIORef(x, y, o)
        PROVE  OK(ref'[s])
    <3>1. OK(o)
      BY <2>1, <2>3 DEF NewIORef, Tag
    <3>2. ref' = [ref EXCEPT ![x] = o, ![<<o, 1>>] = ref[y]]
      BY <2>3 DEF NewIORef
    <3>3. ref'[s] \in {o, ref[y], ref[s]}
      BY <1>1, <3>2 DEF Refs
    <3>4. QED
      BY <1>1, <3>1, <3>3
  <2>4. ASSUME NEW x \in Var, NEW o \in Cell, NEW p \in Var, NEW f \in Var, OnCollect(x, p, f, o)
        PROVE  OK(ref'[s])
    <3>1. OK(o)
      BY <2>1, <2>4 DEF OnCollect, Tag
    <3>2. ref' = [ref EXCEPT ![x] = o, ![p] = NULL, ![f] = NULL,
                   ![<<o, 1>>] = ref[p], ![<<o, 2>>] = ref[f], ![<<o, 3>>] = ref[p]]
      BY <2>4 DEF OnCollect
    <3>3. ref'[s] \in {o, NULL, ref[p], ref[f], ref[s]}
      BY <1>1, <3>2 DEF Refs
    <3>4. QED
      BY <1>1, <3>1, <3>3
  <2>5. QED
    BY <1>3, <2>2, <2>3, <2>4 DEF Allocate
<1>4. CASE UseLocals
  <2>1. ASSUME NEW x \in Var, NEW o \in Cell, LoadStatic(x, o) PROVE OK(ref'[s])
    BY <1>1, <2>1 DEF LoadStatic, Known, Refs
  <2>3. ASSUME NEW x \in Var, NEW y \in Var,
               NewReference(x, y) \/ RemoveReference(x) \/ WriteIORef(x, y)
        PROVE  OK(ref'[s])
    <3>1. ref'[s] \in {ref[x], ref[y], ref[s], NULL}
      BY <1>1, <2>3 DEF NewReference, RemoveReference, WriteIORef, Release, Refs
    <3>2. QED
      BY <1>1, <3>1
  <2>4. ASSUME NEW x \in Var, NEW y \in Var, ReadIORef(x, y)
        PROVE  OK(ref'[s])
    <3>1. <<ref[x], 1>> \in Slot
      <4>1. ref[x] \in Cell /\ tag[ref[x]] = "ioref"
        BY <1>1, <2>4, Types DEF ReadIORef
      <4>2. 1 \in Arg
        BY <1>1, <4>1, HeapAssumption DEF Inductive, CellOK, TypeOK, Arg
      <4>3. QED
        BY <4>1, <4>2, Slots
    <3>2. ref'[s] \in {ref[<<ref[x], 1>>], ref[s]}
      BY <1>1, <2>4 DEF ReadIORef, Refs
    <3>3. QED
      BY <1>1, <3>1, <3>2
  <2>5. ASSUME NEW x \in Var, NEW y \in Var, NEW i \in Arg,
               FillArg(x, i, y) \/ ProjectArg(x, i, y) \/ TakeArg(x, i, y)
        PROVE  OK(ref'[s])
    <3>1. <<ref[x], i>> \in Slot
      BY <1>1, <2>5, Types, Slots DEF FillArg, ProjectArg, TakeArg
    <3>2. ref'[s] \in {ref[<<ref[x], i>>], ref[y], ref[s], NULL}
      BY <1>1, <2>5 DEF FillArg, ProjectArg, TakeArg, Refs
    <3>3. QED
      BY <1>1, <3>1, <3>2
  <2>6. QED
    BY <1>4, <2>1, <2>3, <2>4, <2>5 DEF UseLocals
<1>5. CASE Consume
  <2>1. ASSUME NEW x \in Var, NEW y \in Var, NEW o \in Cell, TailcallApplyClosure(x, y, o)
        PROVE  OK(ref'[s])
    <3>1. PICK c \in Cell, n \in Nat : Applies(x, y, o, c, n)
      BY <2>1, ApplyGuard
    <3>2. c = ref[x] /\ c # o /\ tag[o] = "free" /\ y \in Slot /\ 1..n \subseteq Arg
      BY <3>1 DEF Applies
    <3>3. OK(o)
      <4>1. tag'[o] = "closure"
        BY <1>1, <2>1, <3>2 DEF TailcallApplyClosure, ApplyUnique, ApplyShared
      <4>2. QED
        BY <1>2, <3>2, <4>1
    <3>4. OK(Extended(x, y, c, o)[s])
      <4>1. ASSUME NEW i \in 1..n, s = <<o, i>> PROVE OK(Extended(x, y, c, o)[s])
        <5>1. Extended(x, y, c, o)[s] = ref[<<c, i>>] /\ <<c, i>> \in Slot
          BY <3>1, <3>2, <4>1, ExtendedAt, Slots
        <5>2. QED
          BY <1>1, <5>1
      <4>2. ASSUME s \notin {o} \X (1..n) PROVE OK(Extended(x, y, c, o)[s])
        <5>1. Extended(x, y, c, o)[s] = Handed(x, y, o, n)[s]
          BY <3>1, <4>2, ExtendedAt
        <5>2. Handed(x, y, o, n)[s] \in {ref[y], NULL, o, ref[s]}
          BY <3>1, HandedCount
        <5>3. QED
          BY <1>1, <3>2, <3>3, <5>1, <5>2
      <4>3. QED
        BY <4>1, <4>2
    <3>5. ref'[s] \in {NULL, Extended(x, y, c, o)[s]}
      BY <2>1, <3>2 DEF TailcallApplyClosure, ApplyUnique, ApplyShared
    <3>6. QED
      BY <1>1, <3>4, <3>5
  <2>2. ASSUME NEW x \in Var, RemoveReuseConstructor(x) \/ ReturnFromCall(x)
        PROVE  OK(ref'[s])
    <3>1. ref'[s] \in {NULL, ref[s]}
      BY <1>1, <2>2 DEF RemoveReuseConstructor, ReturnFromCall, Refs
    <3>2. QED
      BY <1>1, <3>1
  <2>3. QED
    BY <1>1, <1>5, <2>1, <2>2 DEF Consume, TakeForReuse, ReuseConstructor, Dispatch
<1>6. CASE RemoveReferenceStep \/ EndFinalizer
  <2>1. ref'[s] \in {NULL, ref[s]}
    BY <1>1, <1>6
       DEF RemoveReferenceStep, DropField, DropFree, BeginFinalizer, EndFinalizer,
           Release, Refs
  <2>2. QED
    BY <1>1, <2>1
<1>7. ASSUME NEW i \in Arg, NEW y \in Var, FinalizerArg(i, y) PROVE OK(ref'[s])
  <2>1. <<Top, i>> \in Slot
    BY <1>1, <1>7, Slots DEF FinalizerArg, TypeOK, Top
  <2>2. ref'[s] \in {ref[<<Top, i>>], ref[s], NULL}
    BY <1>1, <1>7 DEF FinalizerArg, Refs
  <2>3. QED
    BY <1>1, <2>1, <2>2
<1>8. QED
  BY <1>3, <1>4, <1>5, <1>6, <1>7 DEF Next

(* The runtime is a managed heap: no step forges a reference, revives what
   nobody refers to, or reclaims what is referred to.                       *)
THEOREM RuntimeManagesHeap == SoundCounts => (Spec => ManagesHeap)
<1> SUFFICES ASSUME SoundCounts PROVE Spec => ManagesHeap
  OBVIOUS
<1>1. Init => Inductive
  BY InitInductive
<1>2. Inductive /\ [Next]_vars => Inductive'
  BY NextInductive
<1>3. Init => Abstract!Init
  BY HeapAssumption DEF Init, Abstract!Init
<1>4. Inductive /\ Inductive' /\ [Next]_vars => [Abstract!Next]_<<Live, ref>>
  <2>1. ASSUME Inductive, Inductive', Next PROVE Abstract!Next
    <3>1. ASSUME NEW s \in Slot
          PROVE  ref'[s] \in Abstract!InUse \cup Static \cup Abstract!Born \cup {NULL}
      BY <2>1, NoForgeryStep DEF Abstract!InUse, Abstract!Born, Known, Live
    <3>2. ASSUME NEW o \in Cell, tag'[o] = "free"
          PROVE  o \notin Static /\ \A s \in Slot : ref'[s] # o
      <4>1. CellOK(o)' /\ MaxRC > 1 /\ MaxRC \in Nat
        BY <2>1, HeapAssumption DEF Inductive
      <4>2. rc'[o] = 0 /\ o \notin Static
        BY <3>2, <4>1 DEF CellOK
      <4>3. Cnt(ref', o) = 0
        BY <4>1, <4>2, CntType DEF CellOK
      <4>4. HoldersIn(ref', o) = {}
        BY <4>3, CntType
      <4>5. QED
        BY <4>2, <4>4 DEF HoldersIn
    <3>3. QED
      BY <3>1, <3>2 DEF Abstract!Next, Abstract!NoForgery, Abstract!SafeReclaim,
                        Abstract!Reclaimed
  <2>2. ASSUME UNCHANGED vars PROVE UNCHANGED <<Live, ref>>
    BY <2>2 DEF vars, Live
  <2>3. QED
    BY <2>1, <2>2
<1>5. QED
  BY <1>1, <1>2, <1>3, <1>4, PTL DEF Spec, ManagesHeap, Abstract!Spec, Live

=============================================================================
