------------------------ MODULE MCIncrementalBuild ------------------------
(***************************************************************************)
(* Three modules: B imports A, and exports it again, at first, or not; C   *)
(* imports B.  A's interface can change, and A can come to import C.  A    *)
(* text is identified with what it exports.  C's text needs the first      *)
(* interface of A if it sees A.                                            *)
(***************************************************************************)
EXTENDS IncrementalBuild, ModTree

CONSTANTS A, B, C

Modules == {A, B, C}
TextInterface(x) == x
Needs(x, saw) == x = "user" => <<A, "second">> \notin saw

Src(imports, public, x) == [imports |-> imports, public |-> public, text |-> x]
FewSources(m) ==
  CASE m = A -> {Src(<<>>, {}, "first"), Src(<<>>, {}, "second"), Src(<<C>>, {}, "first")}
    [] m = B -> {Src(<<A>>, {}, "mid"), Src(<<A>>, {A}, "mid")}
    [] m = C -> {Src(<<B>>, {}, "user")}

FirstSources(m) ==
  {s \in FewSources(m) : s.text # "second" /\ s.imports # <<C>> /\ (m = B => s.public = {A})}

FewTargets == {<<C>>, <<B, C>>}

(* The walk lists what it should, for every import graph on the modules and
   both ways to ask for two files.                                          *)
ASSUME AllGraphs ==
  \A d \in [Modules -> SUBSET Modules], fs \in {<<C>>, <<B, C>>, <<C, B>>, <<A, B, C>>} :
    LET g == [m \in Modules |-> SetToSeq(d[m])] IN
    IF \E m \in Closure(d, ToSet(fs)) : m \in Closure(d, d[m])
      THEN ModTreeCyclic(g, fs)
      ELSE ~ModTreeCyclic(g, fs) /\ IsBuildOrder(g, fs, ModTreeOrder(g, fs))

=============================================================================
