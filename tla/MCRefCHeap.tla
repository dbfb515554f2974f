----------------------------- MODULE MCRefCHeap -----------------------------
(* Model-checking instances of RefCHeap: cells and locals are
   interchangeable, except for the static cells.                            *)
EXTENDS RefCHeap, TLC

Interchangeable == Permutations(Cell \ Static) \cup Permutations(Var)
=============================================================================
