----------------------------- MODULE RefCArray -----------------------------
(***************************************************************************)
(* Arrays of GC pointers in the RefC backend (support/refc/prim.c): an     *)
(* array element is dropped BEFORE the slot is overwritten, and dropping   *)
(* the last reference to a GC pointer runs its finaliser, which is Idris   *)
(* code that may use the same array.                                       *)
(*                                                                         *)
(* frames is the C stack: one frame for each removeReference that is in a  *)
(* finaliser, called by arraySet (idx is the slot, val the new value) or   *)
(* directly (idx = NULL).  The program at each level has locals of its     *)
(* own.  The Just around an element of an IOArray is identified with it.   *)
(***************************************************************************)
EXTENDS Naturals, FiniteSets, Sequences

CONSTANTS
  Elem,     \* the addresses of the GC pointers
  Index,    \* the indices of the array
  Var,      \* C locals at each level
  MaxDepth, \* bound: nested finalisers
  Touches,  \* whether finalisers use the slots that are being overwritten
  NULL

ASSUME ArrayAssumption ==
  /\ IsFiniteSet(Elem) /\ IsFiniteSet(Index) /\ IsFiniteSet(Var)
  /\ MaxDepth \in Nat /\ Touches \in BOOLEAN
  /\ NULL \notin Elem /\ NULL \notin Index

VARIABLES
  arr,       \* the payload of the array
  rc,        \* header.refCounter; 0 when the address is free
  local,     \* the locals at each level
  frames

vars == <<arr, rc, local, frames>>

Level == Len(frames)
Frame == [elem : Elem, idx : Index \cup {NULL}, val : Elem \cup {NULL}]

\* The places that hold e: slots of the array, and locals by level.
Slots(e)   == {i \in Index : arr[i] = e}
Holders(e) == {p \in (0..MaxDepth) \X Var : local[p[1]][p[2]] = e}
Owners(e)  == Cardinality(Slots(e)) + Cardinality(Holders(e))

TypeOK ==
  /\ arr \in [Index -> Elem \cup {NULL}]
  /\ rc \in [Elem -> 0..(Cardinality(Index) + (MaxDepth + 1) * Cardinality(Var))]
  /\ local \in [0..MaxDepth -> [Var -> Elem \cup {NULL}]]
  /\ frames \in Seq(Frame) /\ Level <= MaxDepth

\* newArray fills the array with Nothing.
Init ==
  /\ arr = [i \in Index |-> NULL]
  /\ rc = [e \in Elem |-> 0]
  /\ local = [d \in 0..MaxDepth |-> [x \in Var |-> NULL]]
  /\ frames = <<>>

Incr(c, e) == IF e = NULL THEN c ELSE [c EXCEPT ![e] = @ + 1]
Decr(c, e) == IF e = NULL THEN c ELSE [c EXCEPT ![e] = @ - 1]

LastReference(e) == e # NULL /\ rc[e] = 1

Mine(x) == local[Level][x]
Usable(i) == Touches \/ \A k \in DOMAIN frames : frames[k].idx # i

\* The last reference to e goes: its finaliser is called.
Finalise(e, i, v) ==
  /\ Level < MaxDepth
  /\ frames' = Append(frames, [elem |-> e, idx |-> i, val |-> v])

OnCollect(x, e) ==
  /\ Mine(x) = NULL /\ rc[e] = 0
  /\ rc' = [rc EXCEPT ![e] = 1]
  /\ local' = [local EXCEPT ![Level][x] = e]
  /\ UNCHANGED <<arr, frames>>

\* Slip: the element is read without newReference.
ArrayGetBorrowed(x, i) ==
  /\ Mine(x) = NULL /\ Usable(i) /\ arr[i] # NULL
  /\ local' = [local EXCEPT ![Level][x] = arr[i]]
  /\ UNCHANGED <<arr, rc, frames>>

ArrayGet(x, i) ==
  /\ Mine(x) = NULL /\ Usable(i) /\ arr[i] # NULL
  /\ local' = [local EXCEPT ![Level][x] = arr[i]]
  /\ rc' = Incr(rc, arr[i])
  /\ UNCHANGED <<arr, frames>>

\* removeReference of the element, then the new one is counted and stored.
ArraySet(x, i) ==
  /\ Usable(i)
  /\ \/ /\ ~LastReference(arr[i])
        /\ arr' = [arr EXCEPT ![i] = Mine(x)]
        /\ rc' = Incr(Decr(rc, arr[i]), Mine(x))
        /\ UNCHANGED <<local, frames>>
     \/ /\ LastReference(arr[i])
        /\ Finalise(arr[i], i, Mine(x))
        /\ UNCHANGED <<arr, rc, local>>

RemoveReference(x) ==
  /\ Mine(x) # NULL
  /\ local' = [local EXCEPT ![Level][x] = NULL]
  /\ \/ /\ ~LastReference(Mine(x))
        /\ rc' = Decr(rc, Mine(x))
        /\ UNCHANGED frames
     \/ /\ LastReference(Mine(x))
        /\ Finalise(Mine(x), NULL, NULL)
        /\ UNCHANGED rc
  /\ UNCHANGED arr

\* Slip: arraySet stores the new element and forgets to count it.
FinishUncounted ==
  /\ frames # <<>> /\ \A x \in Var : Mine(x) = NULL
  /\ LET top == frames[Level] IN
       /\ rc' = [rc EXCEPT ![top.elem] = 0]
       /\ arr' = IF top.idx = NULL THEN arr ELSE [arr EXCEPT ![top.idx] = top.val]
  /\ frames' = SubSeq(frames, 1, Level - 1)
  /\ UNCHANGED local

\* The finaliser returns: the element is freed, whatever its counter says,
\* and the arraySet that dropped it, if any, stores the new one.
Finish ==
  /\ frames # <<>> /\ \A x \in Var : Mine(x) = NULL
  /\ LET top == frames[Level] IN
       /\ rc' = Incr([rc EXCEPT ![top.elem] = 0], top.val)
       /\ arr' = IF top.idx = NULL THEN arr ELSE [arr EXCEPT ![top.idx] = top.val]
  /\ frames' = SubSeq(frames, 1, Level - 1)
  /\ UNCHANGED local

Next ==
  \/ Finish
  \/ \E x \in Var :
       \/ RemoveReference(x)
       \/ \E e \in Elem : OnCollect(x, e)
       \/ \E i \in Index : ArrayGet(x, i) \/ ArraySet(x, i)

Spec == Init /\ [][Next]_vars

(***************************************************************************)
(* Properties                                                              *)
(***************************************************************************)
Dying == {frames[k].elem : k \in DOMAIN frames}

(* Between two statements of the program the counter of an element is the
   number of slots and locals that hold it; an element that is being
   finalised keeps the count of one it had.                                 *)
CountExact ==
  \A e \in Elem : rc[e] = IF e \in Dying THEN 1 ELSE Owners(e)

\* Both, checked together.
Inv == TypeOK /\ CountExact

(* ffi.rst:532 "The finaliser is called either when the garbage collector
   determines that the pointer is no longer accessible": a program that
   runs during or after the finaliser cannot get at the pointer.            *)
FinalisedIsInaccessible ==
  \A e \in Dying, d \in 0..MaxDepth, x \in Var : local[d][x] # e

=============================================================================
