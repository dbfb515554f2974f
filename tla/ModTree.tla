------------------------------ MODULE ModTree ------------------------------
(***************************************************************************)
(* The order in which Idris.ModTree builds a set of files: each file's     *)
(* import tree is walked (a cycle is an error), the tree is flattened with *)
(* dependencies first, and the lists of several files are put one before   *)
(* the other, keeping of a duplicate the first.                            *)
(*                                                                         *)
(* imports[m] is the sequence of imports in the header of m.  A module and *)
(* its source file are identified.                                         *)
(***************************************************************************)
EXTENDS Sequences, SequencesExt

(* The walk of mod meets a module that is on the path to it (done).  The
   code also remembers the trees it has finished: those have no cycle, or it
   would have stopped, so the answer is the same.                           *)
RECURSIVE CyclicImports(_, _, _)
CyclicImports(imports, done, mod) ==
  \/ mod \in done
  \/ Contains(imports[mod], mod)
  \/ \E i \in ToSet(imports[mod]) : CyclicImports(imports, done \cup {mod}, i)

\* order is what the walk has listed so far.
RECURSIVE MkBuildMods(_, _, _)
MkBuildMods(imports, order, mod) ==
  IF Contains(order, mod) THEN order
  ELSE Append(FoldLeft(LAMBDA o, i : MkBuildMods(imports, o, i), order, imports[mod]), mod)

GetBuildMods(imports, done, f) ==
  IF Contains(done, f) THEN <<>> ELSE MkBuildMods(imports, <<>>, f)

GetAllBuildMods(imports, fs) ==
  FoldLeft(LAMBDA done, f : GetBuildMods(imports, done, f) \o done, <<>>, fs)

DropLater(mods) ==
  FoldLeft(LAMBDA kept, m : IF Contains(kept, m) THEN kept ELSE Append(kept, m), <<>>, mods)

ModTreeCyclic(imports, fs) == \E f \in ToSet(fs) : CyclicImports(imports, {}, f)
ModTreeOrder(imports, fs) == DropLater(GetAllBuildMods(imports, fs))

=============================================================================
