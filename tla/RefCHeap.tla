------------------------------ MODULE RefCHeap ------------------------------
(***************************************************************************)
(* The reference-counted heap of the RefC backend (support/refc):          *)
(* allocation, idris2_newReference, the recursive idris2_removeReference   *)
(* with its finalisers, IORefs, constructor reuse, and the closures that   *)
(* idris2_tailcall_apply_closure and idris2_trampoline consume.            *)
(*                                                                         *)
(* A slot is a place that OWNS one reference: a C local of a running       *)
(* function (Var) or a payload entry of a cell (<<cell, i>>).  ref[s] is   *)
(* the cell the slot refers to.  A slot whose reference has been given     *)
(* away or dropped reads NULL; NULL stands as well for erased arguments    *)
(* and for unboxed integers, which newReference and removeReference skip.  *)
(*                                                                         *)
(* The runtime is single threaded.  The only interleaving is re-entrancy:  *)
(* removeReference of a GC pointer runs compiled Idris code in the middle  *)
(* of a cascade.  drops is the C stack of removeReference activations, and *)
(* the mutator (generated code, one action per runtime call or emitted     *)
(* statement) runs when it is empty or when a finaliser is on top of it.   *)
(***************************************************************************)
EXTENDS Naturals, FiniteSets, Sequences

CONSTANTS
  Cell,    \* the addresses the allocator hands out, and the static values
  Static,  \* the cells compiled with IDRIS2_STOCKVAL
  Var,     \* C locals of the functions being executed
  NArg,    \* bound: payload slots of a cell
  MaxRC,   \* IDRIS2_VP_REFCOUNTER_MAX
  NULL,
  Kinds,   \* the kinds of cells the program at hand allocates
  Arity    \* the arities of the functions it makes closures of

Arg  == 1..NArg
Slot == Var \cup (Cell \X Arg)

ASSUME HeapAssumption ==
  /\ IsFiniteSet(Cell) /\ IsFiniteSet(Var)
  /\ Static \subseteq Cell
  /\ NArg \in Nat /\ MaxRC \in Nat /\ MaxRC > 1
  /\ Arity \subseteq 0..NArg
  /\ "ioref" \in Kinds => NArg >= 1
  /\ "gcpointer" \in Kinds => NArg >= 3
  /\ NULL \notin Cell
  /\ Var \cap (Cell \X Arg) = {}

VARIABLES
  tag,    \* header.tag, plus the three roles a cell plays while it is consumed
  rc,     \* header.refCounter
  arity,  \* arity of a closure
  size,   \* filled (closure), total (constructor): the payload slots in use
  ref,    \* who refers to what
  drops   \* removeReference activations, innermost last

vars == <<tag, rc, arity, size, ref, drops>>

(* "leaf": boxed numbers, strings, pointers, buffers (no reference inside).
   "reuse": a unique constructor whose cell is kept for the next ACon.
   "running": a saturated closure whose function body is being executed.
   "finalizing": a GC pointer whose onCollectFct is being executed.        *)
Tag == {"free", "leaf", "constructor", "closure", "ioref", "gcpointer",
        "reuse", "running", "finalizing"}

TypeOK ==
  /\ tag   \in [Cell -> Tag]
  /\ rc    \in [Cell -> 0..MaxRC]
  /\ arity \in [Cell -> 0..NArg]
  /\ size  \in [Cell -> 0..NArg]
  /\ ref   \in [Slot -> Cell \cup {NULL}]
  /\ drops \in Seq(Cell)

Top == drops[Len(drops)]

MutatorRuns == drops # <<>> => tag[Top] = "finalizing"

HoldersIn(f, o) == {s \in Slot : f[s] = o}
Holders(o) == HoldersIn(ref, o)
Dying(o)   == \E k \in DOMAIN drops : drops[k] = o
Empty(o)   == \A i \in Arg : ref[<<o, i>>] = NULL

Saturated(o) == tag[o] = "closure" /\ size[o] >= arity[o]

(* What generated code copies, stores and drops.  A saturated closure is not
   among it: makeClosure builds one in tail position only, and every caller
   hands it to idris2_trampoline at once (RefC.idr:485-499).               *)
Value(o) ==
  /\ tag[o] \in {"leaf", "constructor", "closure", "ioref", "gcpointer"}
  /\ ~Saturated(o)

(***************************************************************************)
(* Counting primitives                                                     *)
(***************************************************************************)
\* Slip: an object at the maximum is incremented like any other.
IncrUnbounded(r, o) == IF o = NULL THEN r ELSE [r EXCEPT ![o] = @ + 1]

\* idris2_newReference: NULL and immortal objects are left alone.
Incr(r, o) ==
  IF o = NULL \/ r[o] = MaxRC THEN r ELSE [r EXCEPT ![o] = @ + 1]

\* Slip: an object that reached the maximum is decremented like any other.
DecrMortalises(r, o) ==
  IF o = NULL \/ r[o] = 1 THEN r ELSE [r EXCEPT ![o] = @ - 1]

\* idris2_removeReference on an object with other references.
Decr(r, o) ==
  IF o = NULL \/ r[o] \in {1, MaxRC} THEN r ELSE [r EXCEPT ![o] = @ - 1]

\* Slip: the last reference is decremented to zero and nothing is freed.
PushForgotten(r, o) == drops

\* Slip: the cascade begins while one other reference is left.
PushOffByOne(r, o) ==
  IF o # NULL /\ r[o] \in {1, 2} THEN Append(drops, o) ELSE drops

\* ... on the last reference: the cell's own cascade begins.
Push(r, o) == IF o # NULL /\ r[o] = 1 THEN Append(drops, o) ELSE drops

\* idris2_removeReference of the reference that slot s owns.
Release(s) ==
  /\ ref' = [ref EXCEPT ![s] = NULL]
  /\ rc' = Decr(rc, ref[s])
  /\ drops' = Push(rc, ref[s])

(***************************************************************************)
(* Allocation                                                              *)
(***************************************************************************)
\* idris2_newValue: one reference, owned by the local that receives it.
Alloc(x, o, kind, a, n) ==
  /\ kind \in Kinds
  /\ tag[o] = "free" /\ ref[x] = NULL
  /\ tag'   = [tag EXCEPT ![o] = kind]
  /\ arity' = [arity EXCEPT ![o] = a]
  /\ size'  = [size EXCEPT ![o] = n]

\* The idris2_mk* functions of payload-free values.
NewValue(x, o) ==
  /\ MutatorRuns
  /\ Alloc(x, o, "leaf", 0, 0)
  /\ rc'  = [rc EXCEPT ![o] = 1]
  /\ ref' = [ref EXCEPT ![x] = o]
  /\ UNCHANGED drops

NewConstructor(x, o, n) ==
  /\ MutatorRuns
  /\ Alloc(x, o, "constructor", 0, n)
  /\ rc'  = [rc EXCEPT ![o] = 1]
  /\ ref' = [ref EXCEPT ![x] = o]
  /\ UNCHANGED drops

MkClosure(x, o, a, n) ==
  /\ MutatorRuns
  /\ n <= a
  /\ Alloc(x, o, "closure", a, n)
  /\ rc'  = [rc EXCEPT ![o] = 1]
  /\ ref' = [ref EXCEPT ![x] = o]
  /\ UNCHANGED drops

\* A predefined or constant value: no allocation and no counting.
LoadStatic(x, o) ==
  /\ MutatorRuns
  /\ o \in Static /\ ref[x] = NULL
  /\ ref' = [ref EXCEPT ![x] = o]
  /\ UNCHANGED <<tag, rc, arity, size, drops>>

\* One statement of fillArgs: the owned local y moves into the new cell at x.
FillArg(x, i, y) ==
  /\ MutatorRuns
  /\ x # y /\ ref[x] # NULL /\ ref[y] # NULL /\ Value(ref[y])
  /\ tag[ref[x]] \in {"constructor", "closure"} /\ rc[ref[x]] = 1
  /\ i <= size[ref[x]] /\ ref[<<ref[x], i>>] = NULL
  /\ ref' = [ref EXCEPT ![<<ref[x], i>>] = ref[y], ![y] = NULL]
  /\ UNCHANGED <<tag, rc, arity, size, drops>>

(***************************************************************************)
(* References held by locals                                               *)
(***************************************************************************)
NewReference(x, y) ==
  /\ MutatorRuns
  /\ ref[x] # NULL /\ ref[y] = NULL /\ Value(ref[x])
  /\ ref' = [ref EXCEPT ![y] = ref[x]]
  /\ rc' = Incr(rc, ref[x])
  /\ UNCHANGED <<tag, arity, size, drops>>

RemoveReference(x) ==
  /\ MutatorRuns
  /\ ref[x] # NULL /\ Value(ref[x])
  /\ Release(x)
  /\ UNCHANGED <<tag, arity, size>>

\* var_y = args[i] followed by dupVars, in a case on a shared constructor.
ProjectArg(x, i, y) ==
  /\ MutatorRuns
  /\ ref[x] # NULL /\ ref[y] = NULL /\ tag[ref[x]] = "constructor"
  /\ ref[<<ref[x], i>>] # NULL
  /\ ref' = [ref EXCEPT ![y] = ref[<<ref[x], i>>]]
  /\ rc' = Incr(rc, ref[<<ref[x], i>>])
  /\ UNCHANGED <<tag, arity, size, drops>>

(***************************************************************************)
(* Constructor reuse                                                       *)
(***************************************************************************)
\* Slip: the case takes the cell of a constructor somebody else still sees.
TakeShared(x) ==
  /\ MutatorRuns
  /\ ref[x] # NULL /\ tag[ref[x]] = "constructor"
  /\ tag' = [tag EXCEPT ![ref[x]] = "reuse"]
  /\ UNCHANGED <<rc, arity, size, ref, drops>>

\* addReuseConstructor: a case on a unique constructor keeps its cell.
TakeForReuse(x) ==
  /\ MutatorRuns
  /\ ref[x] # NULL /\ tag[ref[x]] = "constructor" /\ rc[ref[x]] = 1
  /\ tag' = [tag EXCEPT ![ref[x]] = "reuse"]
  /\ UNCHANGED <<rc, arity, size, ref, drops>>

\* var_y = args[i]: the payload of a consumed cell moves to the locals, as
\* the fields of a reused constructor or the parameters of a running closure.
TakeArg(x, i, y) ==
  /\ MutatorRuns
  /\ ref[x] # NULL /\ ref[y] = NULL /\ tag[ref[x]] \in {"reuse", "running"}
  /\ ref[<<ref[x], i>>] # NULL
  /\ ref' = [ref EXCEPT ![y] = ref[<<ref[x], i>>], ![<<ref[x], i>>] = NULL]
  /\ UNCHANGED <<tag, rc, arity, size, drops>>

\* ACon finds a kept cell: no allocation, the arguments are filled next.
ReuseConstructor(x) ==
  /\ MutatorRuns
  /\ ref[x] # NULL /\ tag[ref[x]] = "reuse" /\ Empty(ref[x])
  /\ tag' = [tag EXCEPT ![ref[x]] = "constructor"]
  /\ UNCHANGED <<rc, arity, size, ref, drops>>

(* "if unique free, else --refCounter": how the reuse cell, the closure a
   trampoline has run and the closure an application consumed are given up.
   Unlike removeReference it neither touches the payload nor looks for
   IDRIS2_VP_REFCOUNTER_MAX.                                               *)
ShallowTag(o) == [tag EXCEPT ![o] = IF rc[o] = 1 THEN "free" ELSE @]
ShallowRc(o)  == [rc EXCEPT ![o] = @ - 1]

RemoveReuseConstructor(x) ==
  /\ MutatorRuns
  /\ ref[x] # NULL /\ tag[ref[x]] = "reuse" /\ Empty(ref[x])
  /\ tag' = ShallowTag(ref[x])
  /\ rc' = ShallowRc(ref[x])
  /\ ref' = [ref EXCEPT ![x] = NULL]
  /\ UNCHANGED <<arity, size, drops>>

(***************************************************************************)
(* Closures                                                                *)
(***************************************************************************)
\* Payload of the new closure o: the arguments of c, then the one at y.
Extended(x, y, c, o) ==
  [s \in Slot |-> CASE s = x -> o
                    [] s = y -> NULL
                    [] s \in {o} \X (1..size[c]) -> ref[<<c, s[2]>>]
                    [] s = <<o, size[c] + 1>> -> ref[y]
                    [] OTHER -> ref[s]]

\* Slip: the arguments of a shared closure are copied without counting.
DupArgsForgotten(c) == rc

\* newReference of every argument of c.
Copies(c, v) == Cardinality({i \in 1..size[c] : ref[<<c, i>>] = v})
DupArgs(c) ==
  [v \in Cell |-> IF rc[v] + Copies(c, v) > MaxRC THEN MaxRC
                                                  ELSE rc[v] + Copies(c, v)]

\* idris2_tailcall_apply_closure on a closure nobody else refers to: the
\* arguments move and the old cell is freed.
ApplyUnique(x, y, o) ==
  LET c == ref[x] IN
  /\ rc[c] = 1
  /\ tag' = [tag EXCEPT ![o] = "closure", ![c] = "free"]
  /\ rc'  = [rc EXCEPT ![o] = 1, ![c] = 0]
  /\ ref' = [s \in Slot |-> IF s \in {c} \X Arg THEN NULL
                                                ELSE Extended(x, y, c, o)[s]]

\* ... on a shared closure: the arguments are copied and the count goes down.
ApplyShared(x, y, o) ==
  LET c == ref[x] IN
  /\ rc[c] > 1
  /\ tag' = [tag EXCEPT ![o] = "closure"]
  /\ rc'  = [DupArgs(c) EXCEPT ![o] = 1, ![c] = @ - 1]
  /\ ref' = Extended(x, y, c, o)

TailcallApplyClosure(x, y, o) ==
  /\ MutatorRuns
  /\ x # y /\ ref[x] # NULL
  /\ tag[ref[x]] = "closure" /\ ~Saturated(ref[x])
  /\ ref[y] # NULL => Value(ref[y])
  /\ "closure" \in Kinds /\ tag[o] = "free"
  /\ ApplyUnique(x, y, o) \/ ApplyShared(x, y, o)
  /\ arity' = [arity EXCEPT ![o] = arity[ref[x]]]
  /\ size'  = [size EXCEPT ![o] = size[ref[x]] + 1]
  /\ UNCHANGED drops

\* idris2_trampoline meets a saturated closure: its function is called.
Dispatch(x) ==
  /\ MutatorRuns
  /\ ref[x] # NULL /\ Saturated(ref[x])
  /\ tag' = [tag EXCEPT ![ref[x]] = "running"]
  /\ UNCHANGED <<rc, arity, size, ref, drops>>

\* ... and the function has returned, having consumed its parameters.
ReturnFromCall(x) ==
  /\ MutatorRuns
  /\ ref[x] # NULL /\ tag[ref[x]] = "running" /\ Empty(ref[x])
  /\ tag' = ShallowTag(ref[x])
  /\ rc' = ShallowRc(ref[x])
  /\ ref' = [ref EXCEPT ![x] = NULL]
  /\ UNCHANGED <<arity, size, drops>>

(***************************************************************************)
(* IORefs                                                                  *)
(***************************************************************************)
NewIORef(x, y, o) ==
  /\ MutatorRuns
  /\ x # y
  /\ ref[y] # NULL => Value(ref[y])
  /\ Alloc(x, o, "ioref", 0, 1)
  /\ rc'  = [Incr(rc, ref[y]) EXCEPT ![o] = 1]
  /\ ref' = [ref EXCEPT ![x] = o, ![<<o, 1>>] = ref[y]]
  /\ UNCHANGED drops

ReadIORef(x, y) ==
  /\ MutatorRuns
  /\ ref[x] # NULL /\ ref[y] = NULL /\ tag[ref[x]] = "ioref"
  /\ ref[<<ref[x], 1>>] # NULL
  /\ ref' = [ref EXCEPT ![y] = ref[<<ref[x], 1>>]]
  /\ rc' = Incr(rc, ref[<<ref[x], 1>>])
  /\ UNCHANGED <<tag, arity, size, drops>>

\* Slip: the IORef takes the content without newReference.
WriteIORefUncounted(x, y) ==
  LET cell == <<ref[x], 1>> IN
  /\ MutatorRuns
  /\ ref[x] # NULL /\ tag[ref[x]] = "ioref"
  /\ ref[y] # NULL => Value(ref[y])
  /\ ref' = [ref EXCEPT ![cell] = ref[y]]
  /\ rc' = Decr(rc, ref[cell])
  /\ drops' = Push(rc, ref[cell])
  /\ UNCHANGED <<tag, arity, size>>

\* prim__writeIORef: count the new content, swap, drop the old content.
WriteIORef(x, y) ==
  LET cell == <<ref[x], 1>>
      counted == Incr(rc, ref[y])
  IN
  /\ MutatorRuns
  /\ ref[x] # NULL /\ tag[ref[x]] = "ioref"
  /\ ref[y] # NULL => Value(ref[y])
  /\ ref' = [ref EXCEPT ![cell] = ref[y]]
  /\ rc' = Decr(counted, ref[cell])
  /\ drops' = Push(counted, ref[cell])
  /\ UNCHANGED <<tag, arity, size>>

(***************************************************************************)
(* GC pointers                                                             *)
(*   payload 1: the reference to the pointer that removeReference drops    *)
(*   payload 2: onCollectFct                                               *)
(*   payload 3: the reference the finaliser consumes as its argument; it   *)
(*              is the caller's, which AExtPrim never drops                *)
(***************************************************************************)
OnCollect(x, p, f, o) ==
  /\ MutatorRuns
  /\ p # f
  /\ ref[p] # NULL /\ tag[ref[p]] = "leaf"
  /\ ref[f] # NULL /\ tag[ref[f]] = "closure" /\ arity[ref[f]] = size[ref[f]] + 2
  /\ Alloc(x, o, "gcpointer", 0, 3)
  /\ rc'  = [Incr(rc, ref[p]) EXCEPT ![o] = 1]
  /\ ref' = [ref EXCEPT ![x] = o, ![p] = NULL, ![f] = NULL,
             ![<<o, 1>>] = ref[p], ![<<o, 2>>] = ref[f], ![<<o, 3>>] = ref[p]]
  /\ UNCHANGED drops

(***************************************************************************)
(* The cascade of idris2_removeReference                                   *)
(***************************************************************************)
AwaitsFinalizer(o) == tag[o] = "gcpointer" /\ ref[<<o, 2>>] # NULL

\* Slip: the loop over the payload stops at an immortal child.
DropFieldStuck ==
  /\ drops # <<>> /\ ~AwaitsFinalizer(Top) /\ tag[Top] # "finalizing"
  /\ \E i \in Arg :
       /\ ref[<<Top, i>>] # NULL /\ rc[ref[<<Top, i>>]] # MaxRC
       /\ \A j \in 1..(i - 1) : ref[<<Top, j>>] = NULL
       /\ Release(<<Top, i>>)
  /\ UNCHANGED <<tag, arity, size>>

\* The next payload entry is released; a child with one reference recurses.
DropField ==
  /\ drops # <<>> /\ ~AwaitsFinalizer(Top) /\ tag[Top] # "finalizing"
  /\ \E i \in Arg :
       /\ ref[<<Top, i>>] # NULL
       /\ \A j \in 1..(i - 1) : ref[<<Top, j>>] = NULL
       /\ Release(<<Top, i>>)
  /\ UNCHANGED <<tag, arity, size>>

\* "finally, free element", and return to the caller's loop.
DropFree ==
  /\ drops # <<>> /\ Empty(Top) /\ tag[Top] # "finalizing"
  /\ tag' = [tag EXCEPT ![Top] = "free"]
  /\ rc'  = [rc EXCEPT ![Top] = 0]
  /\ drops' = SubSeq(drops, 1, Len(drops) - 1)
  /\ UNCHANGED <<arity, size, ref>>

\* The two idris2_apply_closure calls on onCollectFct: the finaliser owns the
\* references in payload 2 and 3 and runs as mutator code.
BeginFinalizer ==
  /\ drops # <<>> /\ AwaitsFinalizer(Top)
  /\ tag' = [tag EXCEPT ![Top] = "finalizing"]
  /\ UNCHANGED <<rc, arity, size, ref, drops>>

FinalizerArg(i, y) ==
  /\ drops # <<>> /\ tag[Top] = "finalizing"
  /\ i \in {2, 3} /\ ref[<<Top, i>>] # NULL /\ ref[y] = NULL
  /\ ref' = [ref EXCEPT ![y] = ref[<<Top, i>>], ![<<Top, i>>] = NULL]
  /\ UNCHANGED <<tag, rc, arity, size, drops>>

EndFinalizer ==
  /\ drops # <<>> /\ tag[Top] = "finalizing"
  /\ \A i \in Arg \ {1} : ref[<<Top, i>>] = NULL
  /\ tag' = [tag EXCEPT ![Top] = "gcpointer"]
  /\ UNCHANGED <<rc, arity, size, ref, drops>>

RemoveReferenceStep == DropField \/ DropFree \/ BeginFinalizer

(***************************************************************************)
(* The program                                                             *)
(***************************************************************************)
Init ==
  /\ tag   = [o \in Cell |-> IF o \in Static THEN "leaf" ELSE "free"]
  /\ rc    = [o \in Cell |-> IF o \in Static THEN MaxRC ELSE 0]
  /\ arity = [o \in Cell |-> 0]
  /\ size  = [o \in Cell |-> 0]
  /\ ref   = [s \in Slot |-> NULL]
  /\ drops = <<>>

Allocate ==
  \E x \in Var, o \in Cell :
    \/ NewValue(x, o)
    \/ \E n \in Arg : NewConstructor(x, o, n)
    \/ \E a \in Arity, n \in 0..NArg : MkClosure(x, o, a, n)
    \/ \E y \in Var : NewIORef(x, y, o)
    \/ \E p, f \in Var : OnCollect(x, p, f, o)

UseLocals ==
  \E x, y \in Var :
    \/ NewReference(x, y)
    \/ RemoveReference(x)
    \/ ReadIORef(x, y)
    \/ WriteIORef(x, y)
    \/ \E o \in Cell : LoadStatic(x, o)
    \/ \E i \in Arg : FillArg(x, i, y) \/ ProjectArg(x, i, y) \/ TakeArg(x, i, y)

Consume ==
  \E x \in Var :
    \/ TakeForReuse(x)
    \/ ReuseConstructor(x)
    \/ RemoveReuseConstructor(x)
    \/ Dispatch(x)
    \/ ReturnFromCall(x)
    \/ \E y \in Var, o \in Cell : TailcallApplyClosure(x, y, o)

Next ==
  \/ Allocate
  \/ UseLocals
  \/ Consume
  \/ RemoveReferenceStep
  \/ EndFinalizer
  \/ \E i \in Arg, y \in Var : FinalizerArg(i, y)

Spec == Init /\ [][Next]_vars
FairSpec == Spec /\ WF_vars(RemoveReferenceStep)

(***************************************************************************)
(* Properties                                                              *)
(***************************************************************************)
(* The counter of every mortal object is the number of references to it: the
   ones its owners hold, plus the one its own cascade is working on.        *)
CountExact ==
  \A o \in Cell : rc[o] # MaxRC =>
    rc[o] = Cardinality(Holders(o)) + IF Dying(o) THEN 1 ELSE 0

(* No reference ever leads to a cell that was given back to the allocator,
   and no cell is freed twice: what removeReference, the trampoline and the
   application of a closure free has no owner left.                         *)
NoDangling ==
  /\ \A s \in Slot : ref[s] # NULL => tag[ref[s]] # "free"
  /\ \A k \in DOMAIN drops : tag[drops[k]] # "free"
  /\ \A j, k \in DOMAIN drops : drops[j] = drops[k] => j = k

(* An object whose cascade has begun cannot be reached again, whatever the
   finalisers that run in the middle of the cascade do.                     *)
NoResurrection == \A k \in DOMAIN drops : Holders(drops[k]) = {}

(* A mortal cell nobody refers to is already on its way back to the
   allocator: nothing is forgotten.                                         *)
NothingForgotten ==
  \A o \in Cell : tag[o] # "free" /\ rc[o] # MaxRC =>
    Holders(o) # {} \/ Dying(o)

(* The cell kept for a later ACon, the closure about to run and the closure
   whose function is running are seen by one local only: nobody watches them
   being overwritten.                                                       *)
Consumed(o) == tag[o] \in {"reuse", "running"} \/ Saturated(o)
ConsumedIsPrivate ==
  \A o \in Cell : Consumed(o) => rc[o] = 1 /\ \E x \in Var : Holders(o) = {x}

(* _datatypes.h:34 "Objects that reach the maximum reference count will be
   immortalized": the counter never leaves the maximum.                     *)
ImmortalForever ==
  [][\A o \in Cell : rc[o] = MaxRC => rc'[o] = MaxRC]_vars

(* The inductive invariant of the proofs in RefCHeapProofs.  Roomy: fewer
   slots than the counter can count, one reference in flight included.      *)
Payload ==
  \A o \in Cell, i \in Arg : ref[<<o, i>>] # NULL => rc[o] # 0 /\ i <= size[o]
OnceOnStack ==
  /\ \A k \in DOMAIN drops : rc[drops[k]] = 1
  /\ \A j, k \in DOMAIN drops : drops[j] = drops[k] => j = k
Roomy == Cardinality(Slot) + 1 < MaxRC
SoundCounts == Roomy \/ "closure" \notin Kinds
Roles ==
  /\ \A o \in Cell : tag[o] = "free" <=> rc[o] = 0
  /\ \A o \in Static : tag[o] = "leaf" /\ rc[o] = MaxRC
  /\ \A o \in Cell : tag[o] \in {"closure", "running"} => "closure" \in Kinds
  /\ \A o \in Cell : tag[o] = "ioref" => size[o] >= 1
  /\ Roomy => \A o \in Cell \ Static : rc[o] # MaxRC
IInv ==
  TypeOK /\ CountExact /\ Payload /\ OnceOnStack /\ ConsumedIsPrivate /\ Roles

(* The runtime implements the promise of ManagedHeap: no step forges, revives
   or strands a reference.                                                  *)
Abstract == INSTANCE ManagedHeap WITH live <- {o \in Cell : tag[o] # "free"}
ManagesHeap == Abstract!Spec

(* Every removeReference returns: the cascade through the payload, however
   deep, comes to an end (programs without finalisers, whose code is free to
   run forever).                                                            *)
CascadeReturns == drops # <<>> ~> drops = <<>>

=============================================================================
