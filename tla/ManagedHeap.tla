----------------------------- MODULE ManagedHeap -----------------------------
(***************************************************************************)
(* What a managed heap promises the program, whoever counts: cells are     *)
(* live or not, slots refer to cells, and one step may allocate, copy,     *)
(* move and forget references and reclaim cells, but                       *)
(*   - a reference is only ever a copy of one that exists, a static value, *)
(*     or the address of the cell being allocated: what nobody refers to   *)
(*     stays unreachable;                                                  *)
(*   - a cell is reclaimed only when no slot refers to it, and the static  *)
(*     values never are.                                                   *)
(* RefCHeap (the runtime of the RefC backend) implements it.               *)
(***************************************************************************)
CONSTANTS Cell, Static, Slot, NULL
VARIABLES live, ref

Born      == live' \ live
Reclaimed == live \ live'
InUse     == {ref[s] : s \in Slot}

NoForgery   == \A s \in Slot : ref'[s] \in InUse \cup Static \cup Born \cup {NULL}
SafeReclaim == \A o \in Reclaimed : o \notin Static /\ \A s \in Slot : ref'[s] # o

Init == live = Static /\ ref = [s \in Slot |-> NULL]
Next == live' \subseteq Cell /\ NoForgery /\ SafeReclaim
Spec == Init /\ [][Next]_<<live, ref>>
=============================================================================
