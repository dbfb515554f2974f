-------------------------- MODULE IncrementalBuild --------------------------
(***************************************************************************)
(* Building a program module by module (Idris.ModTree, Idris.ProcessIdr).  *)
(* The result for a module is its TTC file, kept between builds.  A build  *)
(* decides from modification times, then from the interface hashes that a  *)
(* TTC holds of itself and of what it imported, which modules to elaborate *)
(* again.  The programmer saves files at any moment, and a build can be    *)
(* killed at any moment, also while it writes a TTC.                       *)
(*                                                                         *)
(* Abstracted: a source is its list of imports, which of them are public,  *)
(* and a text; elaborating reads the interfaces of the modules in view and *)
(* accepts or rejects.  A hash is the tree of what was hashed (no          *)
(* collisions).  Every source is in the source directory, no Prelude is    *)
(* imported, options do not change between builds, and one build runs at a *)
(* time.  TTM files and incremental code generation are left out.          *)
(***************************************************************************)
EXTENDS Naturals, Sequences, SequencesExt

CONSTANTS
  Module,
  Sources(_),        \* the sources a module may have,
  Initial(_),        \* and those it may start with
  Interface(_),      \* what a text exports
  Accepts(_, _),     \* whether a text type-checks against what it sees
  Targets,           \* the lists of files one asks to build
  Cyclic(_, _),      \* Idris.ModTree: the import trees contain a cycle
  BuildOrder(_, _),  \* Idris.ModTree: the modules to build, in order
  MaxTime,           \* bound: ticks of the file system's clock
  MaxEdits           \* bound: files saved

ImportsOf(src) == [m \in Module |-> src[m].imports]
Deps(g) == [m \in Module |-> ToSet(g[m])]

\* What the modules ms reach along d, themselves included.
Closure(d, ms) ==
  {m \in Module : \A S \in SUBSET Module :
                    ms \subseteq S /\ (\A i \in S : d[i] \subseteq S) => m \in S}

IsBuildOrder(g, fs, order) ==
  /\ order \in Seq(Module) /\ IsInjective(order)
  /\ ToSet(order) = Closure(Deps(g), ToSet(fs))
  /\ \A i \in DOMAIN order : ToSet(g[order[i]]) \subseteq {order[j] : j \in 1..(i-1)}

Graphs == {g \in [Module -> {s.imports : s \in UNION {Sources(m) : m \in Module}}] :
             \A m \in Module : \E s \in Sources(m) : s.imports = g[m]}

ASSUME BuildAssumption ==
  /\ MaxTime \in Nat \ {0} /\ MaxEdits \in Nat
  /\ \A m \in Module : Initial(m) \subseteq Sources(m)
  /\ \A m \in Module : \A s \in Sources(m) :
       /\ s = [imports |-> s.imports, public |-> s.public, text |-> s.text]
       /\ s.imports \in Seq(Module) /\ s.public \subseteq ToSet(s.imports)
  /\ Targets \subseteq Seq(Module) \ {<<>>}

(* What the build needs of the import walk: dependencies come first, each
   module once; and it stops exactly on cycles.                             *)
ASSUME OrderAssumption ==
  \A g \in Graphs, fs \in Targets :
    /\ Cyclic(g, fs) <=> \E m \in Closure(Deps(g), ToSet(fs)) : m \in Closure(Deps(g), Deps(g)[m])
    /\ Cyclic(g, fs) \/ IsBuildOrder(g, fs, BuildOrder(g, fs))

VARIABLES
  clock,
  source, saved,  \* the source files and their modification times
  ttc,            \* the TTC files
  phase,          \* of the build; "idle" when none runs or the last one failed
  files, tree,    \* what it was asked for, and the imports it found
  todo,           \* the modules left, the current one first
  text,           \* the source the current module was read from
  built,          \* the TTC about to be written
  edits,          \* history: how many files were saved, and whether one was
  edited,         \* during the build
  raced           \* history: modules whose TTC was written in a build during
                  \* which a file was saved, or made from such a TTC

env   == <<clock, source, saved>>
build == <<phase, files, tree, todo, text, built>>
vars  == <<env, ttc, build, edits, edited, raced>>

Idle == {"idle", "ok"}
Phases == Idle \cup {"check", "read", "process", "write"}

NoHash == <<>>
NoTree == [m \in Module |-> <<>>]
NoSource == [imports |-> <<>>, public |-> {}, text |-> ""]
NoTTC  == [state |-> "none", time |-> 0, src |-> NoSource, saw |-> {}, hash |-> NoHash, importHashes |-> {}]

Present(m) == ttc[m].state # "none"
Current == Head(todo)

TypeOK ==
  /\ clock \in 1..MaxTime
  /\ source \in [Module -> UNION {Sources(m) : m \in Module}]
  /\ \A m \in Module : source[m] \in Sources(m)
  /\ saved \in [Module -> 1..clock]
  /\ DOMAIN ttc = Module
  /\ \A m \in Module : ttc[m].state \in {"none", "torn", "whole"} /\ ttc[m].time \in 0..clock
  /\ phase \in Phases /\ edited \in BOOLEAN /\ raced \subseteq Module /\ edits \in 0..MaxEdits
  /\ todo \in Seq(Module)
  /\ phase \in {"read", "process", "write"} => todo # <<>>
  /\ phase \notin {"process", "write"} => text = NoSource
  /\ IF phase = "write" THEN built.state = "whole" /\ DOMAIN built = DOMAIN NoTTC
                        ELSE built = NoTTC

Init ==
  /\ clock = 1
  /\ source \in {s \in [Module -> UNION {Initial(m) : m \in Module}] :
                   \A m \in Module : s[m] \in Initial(m)}
  /\ saved = [m \in Module |-> 1]
  /\ ttc = [m \in Module |-> NoTTC]
  /\ phase = "idle" /\ files = <<>> /\ tree = NoTree /\ todo = <<>>
  /\ text = NoSource /\ built = NoTTC
  /\ edits = 0 /\ edited = FALSE /\ raced = {}

\* A file is written at t, in the same tick as the last one or later.
Stamp(t) == t \in {clock, clock + 1} /\ t <= MaxTime /\ clock' = t

Save(m, s, t) ==
  /\ edits < MaxEdits /\ edits' = edits + 1
  /\ Stamp(t)
  /\ source' = [source EXCEPT ![m] = s]
  /\ saved' = [saved EXCEPT ![m] = t]
  /\ edited' = (phase # "idle")
  /\ UNCHANGED <<ttc, build, raced>>

(***************************************************************************)
(* Idris.ModTree                                                           *)
(***************************************************************************)
\* The build is over, and what it held in memory is gone.
Leave(outcome, asked) ==
  /\ phase' = outcome /\ files' = asked /\ edited' = (edited /\ asked # <<>>)
  /\ tree' = NoTree /\ todo' = <<>> /\ text' = NoSource /\ built' = NoTTC

Start(fs) ==
  /\ phase \in Idle
  /\ LET imports == ImportsOf(source) IN
     IF Cyclic(imports, fs)
       THEN Leave("idle", <<>>)
       ELSE /\ phase' = "check" /\ files' = fs /\ tree' = imports /\ edited' = FALSE
            /\ todo' = BuildOrder(imports, fs)
            /\ UNCHANGED <<text, built>>
  /\ UNCHANGED <<env, ttc, edits, raced>>

IsTTCOutdated(m, times) == \E t \in times : t >= ttc[m].time

NeedsBuilding(m) ==
  \/ ~Present(m)
  \/ IsTTCOutdated(m, {saved[m]} \cup {ttc[d].time : d \in {i \in ToSet(tree[m]) : Present(i)}})

Fail == Leave("idle", <<>>)

\* On to the next module.
Advance ==
  /\ phase' = "check" /\ todo' = Tail(todo)
  /\ text' = NoSource /\ built' = NoTTC
  /\ UNCHANGED <<files, tree, edited>>

\* buildMod: is the module up to date?  An import that has no TTC is an error.
Check ==
  /\ phase = "check" /\ todo # <<>>
  /\ \/ /\ NeedsBuilding(Current)
        /\ phase' = "read"
        /\ UNCHANGED <<files, tree, todo, text, built, edited>>
     \/ /\ ~NeedsBuilding(Current)
        /\ IF \A i \in ToSet(tree[Current]) : Present(i) THEN Advance ELSE Fail
  /\ UNCHANGED <<env, ttc, edits, raced>>

(***************************************************************************)
(* Idris.ProcessIdr                                                        *)
(***************************************************************************)
Read ==
  /\ phase = "read"
  /\ phase' = "process" /\ text' = source[Current]
  /\ UNCHANGED <<env, ttc, files, tree, todo, built, edits, edited, raced>>

\* The imports, and what they re-export.
InView(s) ==
  LET public == [m \in Module |-> IF ttc[m].state = "whole" THEN ttc[m].src.public ELSE {}]
  IN  Closure(public, ToSet(s.imports))

Metas(s) == {<<i, ttc[i].hash>> : i \in ToSet(s.imports)}

\* Slip: the hash does not depend on what is re-exported.
IfaceHashOwn(s) == <<Interface(s.text), {}>>

IfaceHash(s) == <<Interface(s.text), {<<i, ttc[i].hash>> : i \in s.public}>>

\* Slip: everything that was checked is elaborated again.
UnchangedNever(m) == FALSE

Unchanged(m) ==
  ~IsTTCOutdated(m, {saved[m]}) /\ Metas(source[m]) = ttc[m].importHashes

(* The header is read again from the file; the declarations are those of
   the text that was read before.                                           *)
Elaborated == [source[Current] EXCEPT !.text = text.text]
Saw(s) == {<<i, Interface(ttc[i].src.text)>> : i \in InView(s)}
Elaborates(s) ==
  /\ \A i \in InView(s) : ttc[i].state = "whole"
  /\ Accepts(s.text, Saw(s))

Process ==
  /\ phase = "process"
  /\ IF \E i \in ToSet(source[Current].imports) : ~Present(i)
       THEN Fail
       ELSE IF Unchanged(Current)
       THEN Advance
       ELSE IF ~Elaborates(Elaborated)
       THEN Fail
       ELSE /\ phase' = "write"
            /\ built' = [state |-> "whole", time |-> 0, src |-> Elaborated, saw |-> Saw(Elaborated),
                         hash |-> IfaceHash(Elaborated), importHashes |-> Metas(Elaborated)]
            /\ UNCHANGED <<files, tree, todo, text, edited>>
  /\ UNCHANGED <<env, ttc, edits, raced>>

WriteToTTC(t) ==
  /\ phase = "write"
  /\ Stamp(t)
  /\ ttc' = [ttc EXCEPT ![Current] = [built EXCEPT !.time = t]]
  /\ raced' = IF ~edited /\ InView(built.src) \cap raced = {}
                THEN raced \ {Current} ELSE raced \cup {Current}
  /\ Advance
  /\ UNCHANGED <<source, saved, edits>>

(* At the end buildDeps reloads the TTC of the main file and everything it
   reaches; buildAll, which packages use, does not.                         *)
Finish ==
  /\ phase = "check" /\ todo = <<>>
  /\ LET all == [m \in Module |-> IF ttc[m].state = "whole" THEN ToSet(ttc[m].src.imports) ELSE {}]
     IN  IF Len(files) = 1 /\ \E m \in Closure(all, ToSet(files)) : ttc[m].state # "whole"
           THEN Fail ELSE Leave("ok", files)
  /\ UNCHANGED <<env, ttc, edits, raced>>

(* The build is killed; a TTC that was being written, in place, is torn.
   Bound: one torn TTC at a time.                                           *)
Kill(t) ==
  /\ phase \notin Idle
  /\ \/ UNCHANGED <<ttc, clock>>
     \/ /\ phase = "write" /\ Stamp(t) /\ \A m \in Module : ttc[m].state # "torn"
        /\ ttc' = [ttc EXCEPT ![Current] = [NoTTC EXCEPT !.state = "torn", !.time = t]]
  /\ Leave("idle", <<>>)
  /\ UNCHANGED <<source, saved, edits, raced>>

Next ==
  \/ \E m \in Module, t \in 1..MaxTime : \E s \in Sources(m) : Save(m, s, t)
  \/ \E fs \in Targets : Start(fs)
  \/ Check \/ Read \/ Process \/ Finish
  \/ \E t \in 1..MaxTime : WriteToTTC(t) \/ Kill(t)

Spec == Init /\ [][Next]_vars

(***************************************************************************)
(* Properties                                                              *)
(***************************************************************************)
Asked == Closure(Deps(ImportsOf(source)), ToSet(files))

\* What m sees when everything is built from scratch.
CleanView(m) ==
  LET public == [i \in Module |-> source[i].public]
  IN  {<<i, Interface(source[i].text)>> : i \in Closure(public, ToSet(source[m].imports))}

(* A build that ends well has the result of a build from scratch: the TTC of
   every module it was asked for, of what they import, and so on, was made
   from the present source against the present interfaces of all it sees.
   Two things break this, and are left out: a TTC written in a build during
   which a file was saved, or made from such a TTC (it may have been read
   from the old text, or through imports of another moment, and looks up to
   date), and a TTC torn by a kill that no module imports (buildAll never
   looks at it).                                                            *)
BuildIsAsClean ==
  (/\ phase = "ok" /\ ~edited
   /\ \A m \in Asked : m \notin raced /\ ttc[m].state # "torn")
  => \A m \in Asked :
       /\ ttc[m].state = "whole"
       /\ ttc[m].src = source[m]
       /\ ttc[m].saw = CleanView(m)
       /\ Accepts(source[m].text, CleanView(m))

\* Both, checked together.
Inv == TypeOK /\ BuildIsAsClean

(* tests/idris2/misc/import001: a module is elaborated again only when its
   source was saved since, or when an interface it imports has changed: the
   TTC that replaces a TTC says something new.                              *)
Content(t) == [src |-> t.src, saw |-> t.saw, hash |-> t.hash, importHashes |-> t.importHashes]
RebuiltForAReason ==
  [][\A m \in Module :
       ttc'[m] # ttc[m] /\ ttc'[m].state = "whole"
         => saved[m] >= ttc[m].time \/ Content(ttc'[m]) # Content(ttc[m])]_vars

=============================================================================
