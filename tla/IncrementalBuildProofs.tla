----------------------- MODULE IncrementalBuildProofs -----------------------
(***************************************************************************)
(* Proofs about IncrementalBuild.                                          *)
(***************************************************************************)
EXTENDS IncrementalBuild, TLAPS

(***************************************************************************)
(* What modules reach.                                                     *)
(***************************************************************************)
(* A closure contains its base, is closed, and is the least such set.       *)
LEMMA ClosureIsLeast ==
  ASSUME NEW d, \A m \in Module : d[m] \subseteq Module, NEW ms \in SUBSET Module
  PROVE  /\ Closure(d, ms) \subseteq Module
         /\ ms \subseteq Closure(d, ms)
         /\ \A i \in Closure(d, ms) : d[i] \subseteq Closure(d, ms)
         /\ \A S \in SUBSET Module :
              ms \subseteq S /\ (\A i \in S : d[i] \subseteq S) => Closure(d, ms) \subseteq S
<1>1. Closure(d, ms) \subseteq Module /\ ms \subseteq Closure(d, ms)
  BY DEF Closure
<1>2. ASSUME NEW S \in SUBSET Module, ms \subseteq S, \A i \in S : d[i] \subseteq S
      PROVE  Closure(d, ms) \subseteq S
  BY <1>2 DEF Closure
<1>3. ASSUME NEW i \in Closure(d, ms), NEW j \in d[i]
      PROVE  j \in Closure(d, ms)
  <2>1. j \in Module /\ i \in Module
    BY <1>1
  <2>2. SUFFICES ASSUME NEW S \in SUBSET Module, ms \subseteq S, \A k \in S : d[k] \subseteq S
                 PROVE  j \in S
    BY <2>1 DEF Closure
  <2>3. i \in S
    BY <2>2, <1>2
  <2> QED
    BY <2>2, <2>3
<1> QED
  BY <1>1, <1>2, <1>3

(* Two graphs that agree on what the first reaches reach the same.          *)
LEMMA ClosureDepends ==
  ASSUME NEW d, \A m \in Module : d[m] \subseteq Module,
         NEW e, \A m \in Module : e[m] \subseteq Module,
         NEW ms \in SUBSET Module,
         \A i \in Closure(d, ms) : d[i] = e[i]
  PROVE  Closure(d, ms) = Closure(e, ms)
<1>1. Closure(e, ms) \subseteq Closure(d, ms)
  BY ClosureIsLeast
<1>2. \A i \in Closure(e, ms) : d[i] \subseteq Closure(e, ms)
  BY <1>1, ClosureIsLeast
<1>3. Closure(e, ms) \in SUBSET Module /\ ms \subseteq Closure(e, ms)
  BY ClosureIsLeast
<1>4. Closure(d, ms) \subseteq Closure(e, ms)
  BY <1>2, <1>3, ClosureIsLeast
<1> QED
  BY <1>1, <1>4

(***************************************************************************)
(* What a hash determines.  A hash is a tree: what a module exports, and   *)
(* the hashes of the modules it re-exports, each with its name.  The       *)
(* hashes of its imports thus determine all a module sees.                 *)
(***************************************************************************)
(* p is one of the named hashes P, or is inside one.                        *)
InHashes(P, p) ==
  \A S : P \subseteq S /\ (\A q \in S : q[2][2] \subseteq S) => p \in S

\* What a module that imported the named hashes P saw.
HashesShow(P, saw) ==
  \A e : e \in saw <=> \E p : InHashes(P, p) /\ e = <<p[1], p[2][1]>>

(* If every module that ms reach along pub has the hash of its interface and
   of the hashes along pub, the hashes of ms show exactly what they reach.  *)
LEMMA HashesShowView ==
  ASSUME NEW pub, \A m \in Module : pub[m] \subseteq Module, NEW ms \in SUBSET Module,
         NEW hash, NEW face,
         \A i \in Closure(pub, ms) : hash[i] = <<face[i], {<<j, hash[j]>> : j \in pub[i]}>>
  PROVE  HashesShow({<<i, hash[i]>> : i \in ms}, {<<i, face[i]>> : i \in Closure(pub, ms)})
<1> DEFINE V == Closure(pub, ms)
           P == {<<i, hash[i]>> : i \in ms}
           N == {<<i, hash[i]>> : i \in V}
<1>1. /\ V \subseteq Module /\ ms \subseteq V
      /\ \A i \in V : pub[i] \subseteq V
  BY ClosureIsLeast
<1>2. \A i \in V : hash[i][2] = {<<j, hash[j]>> : j \in pub[i]} /\ hash[i][1] = face[i]
  OBVIOUS
<1>3. ASSUME NEW p, InHashes(P, p)
      PROVE  p \in N
  <2>1. P \subseteq N
    BY <1>1
  <2>2. ASSUME NEW q \in N
        PROVE  q[2][2] \subseteq N
    <3>1. PICK i \in V : q = <<i, hash[i]>>
      OBVIOUS
    <3>2. q[2][2] = {<<j, hash[j]>> : j \in pub[i]}
      BY <3>1, <1>2
    <3> QED
      BY <3>2, <1>1
  <2> QED
    BY <1>3, <2>1, <2>2 DEF InHashes
<1>4. ASSUME NEW i \in V
      PROVE  InHashes(P, <<i, hash[i]>>)
  <2>1. SUFFICES ASSUME NEW S, P \subseteq S, \A q \in S : q[2][2] \subseteq S
                 PROVE  <<i, hash[i]>> \in S
    BY DEF InHashes
  <2> DEFINE T == {k \in V : <<k, hash[k]>> \in S}
  <2>2. T \in SUBSET Module /\ ms \subseteq T
    BY <1>1, <2>1
  <2>3. ASSUME NEW k \in T, NEW j \in pub[k]
        PROVE  j \in T
    <3>1. <<k, hash[k]>>[2][2] \subseteq S
      BY <2>1
    <3>2. <<j, hash[j]>> \in hash[k][2]
      BY <1>2
    <3> QED
      BY <3>1, <3>2, <1>1
  <2>4. \A k \in T : pub[k] \subseteq T
    BY <2>3
  <2> HIDE DEF T
  <2>5. V \subseteq T
    BY <2>2, <2>4, ClosureIsLeast
  <2> QED
    BY <2>5 DEF T
<1>5. ASSUME NEW e
      PROVE  e \in {<<i, face[i]>> : i \in V} <=> \E p : InHashes(P, p) /\ e = <<p[1], p[2][1]>>
  <2>1. ASSUME NEW i \in V, e = <<i, face[i]>>
        PROVE  \E p : InHashes(P, p) /\ e = <<p[1], p[2][1]>>
    <3>1. InHashes(P, <<i, hash[i]>>)
      BY <1>4
    <3>2. e = << <<i, hash[i]>>[1], <<i, hash[i]>>[2][1] >>
      BY <2>1, <1>2
    <3> QED
      BY <3>1, <3>2
  <2>2. ASSUME NEW p, InHashes(P, p), e = <<p[1], p[2][1]>>
        PROVE  e \in {<<i, face[i]>> : i \in V}
    <3>1. PICK i \in V : p = <<i, hash[i]>>
      BY <1>3, <2>2
    <3>2. e = <<i, face[i]>>
      BY <3>1, <2>2, <1>2
    <3> QED
      BY <3>2
  <2> QED
    BY <2>1, <2>2
<1> QED
  BY <1>5 DEF HashesShow

(* The hashes of the imports determine what is seen.                        *)
LEMMA HashesDetermine ==
  ASSUME NEW P, NEW saw1, NEW saw2, HashesShow(P, saw1), HashesShow(P, saw2)
  PROVE  \A e : e \in saw1 <=> e \in saw2
BY DEF HashesShow

(***************************************************************************)
(* The invariant.                                                          *)
(***************************************************************************)
Building == phase \in {"check", "read", "process", "write"}

\* What the build was asked for and, of that, what it is over with.
Reached == Closure(Deps(tree), ToSet(files))
Done    == Reached \ ToSet(todo)

\* What was compiled, and what its hash says.
Made(t) ==
  /\ t.src.imports \in Seq(Module) /\ t.src.public \subseteq ToSet(t.src.imports)
  /\ Accepts(t.src.text, t.saw)
  /\ t.hash = <<Interface(t.src.text), {p \in t.importHashes : p[1] \in t.src.public}>>

\* The TTC of m holds the hashes its imports have.
Agrees(m) == ttc[m].importHashes = {<<i, ttc[i].hash>> : i \in ToSet(ttc[m].src.imports)}

\* The TTC of m needs nothing more.
Settled(m) ==
  /\ Present(m)
  /\ ttc[m].state = "whole" /\ m \notin raced => ttc[m].src = source[m] /\ Agrees(m)

Stored ==
  /\ \A m \in Module : ttc[m].state = "none" => ttc[m].time = 0
  /\ \A m \in Module : ttc[m].state = "whole" => Made(ttc[m])

(* What the times and the hashes show: a TTC younger than its source was
   made from it, one younger than its imports holds their hashes, and what
   was seen is what the hashes show.                                        *)
Shown ==
  \A m \in Module : ttc[m].state = "whole" =>
    /\ m \notin raced /\ saved[m] < ttc[m].time => ttc[m].src = source[m]
    /\ (\A i \in ToSet(ttc[m].src.imports) : ttc[i].time < ttc[m].time) => Agrees(m)
    /\ m \notin raced => HashesShow(ttc[m].importHashes, ttc[m].saw)

\* The imports of a module come before it.
Ordered ==
  Building =>
    /\ files \in Targets /\ tree \in [Module -> Seq(Module)]
    /\ IsInjective(todo) /\ ToSet(todo) \subseteq Reached
    /\ \A j \in Done : ToSet(tree[j]) \subseteq Done
    /\ \A k \in DOMAIN todo :
         ToSet(tree[todo[k]]) \subseteq Done \cup {todo[j] : j \in 1..(k-1)}

(* As long as no file is saved, the TTCs the build is over with are of the
   present sources and of each other.                                       *)
Unedited ==
  Building /\ ~edited =>
    /\ tree = ImportsOf(source)
    /\ phase \in {"process", "write"} => text = source[Current]
    /\ phase = "write" => built.src = source[Current]
    /\ \A j \in Done : Settled(j)

Writing ==
  phase = "write" =>
    /\ built = [state |-> "whole", time |-> 0, src |-> built.src, saw |-> built.saw,
                hash |-> built.hash, importHashes |-> built.importHashes]
    /\ Made(built)
    /\ built.importHashes = {<<i, ttc[i].hash>> : i \in ToSet(built.src.imports)}
    /\ ~edited /\ InView(built.src) \cap raced = {} => HashesShow(built.importHashes, built.saw)
    /\ saved[Current] >= ttc[Current].time \/ built.importHashes # ttc[Current].importHashes

BuildInv == TypeOK /\ Stored /\ Shown /\ Ordered /\ Unedited /\ Writing

(***************************************************************************)
(* The types.                                                              *)
(***************************************************************************)
(* The imports of the present sources are a graph the walk is right about.  *)
LEMMA SourcesMakeGraph ==
  ASSUME TypeOK
  PROVE  /\ ImportsOf(source) \in Graphs
         /\ ImportsOf(source) \in [Module -> Seq(Module)]
         /\ \A m \in Module :
              /\ source[m] = [imports |-> source[m].imports, public |-> source[m].public,
                             text |-> source[m].text]
              /\ source[m].imports \in Seq(Module)
              /\ source[m].public \subseteq ToSet(source[m].imports)
<1>1. \A m \in Module : source[m] \in Sources(m)
  BY DEF TypeOK
<1>2. \A m \in Module :
        /\ source[m] = [imports |-> source[m].imports, public |-> source[m].public,
                       text |-> source[m].text]
        /\ source[m].imports \in Seq(Module)
        /\ source[m].public \subseteq ToSet(source[m].imports)
  BY <1>1, BuildAssumption
<1> QED
  BY <1>1, <1>2 DEF ImportsOf, Graphs

(* On a graph without a cycle among what is asked for the walk gives an order.  *)
LEMMA StartHasOrder ==
  ASSUME TypeOK, NEW fs \in Targets, ~Cyclic(ImportsOf(source), fs)
  PROVE  IsBuildOrder(ImportsOf(source), fs, BuildOrder(ImportsOf(source), fs))
BY SourcesMakeGraph, OrderAssumption

(* Init establishes the types.                                              *)
LEMMA TypeInit == Init => TypeOK
<1> SUFFICES ASSUME Init
             PROVE  TypeOK
  OBVIOUS
<1> USE BuildAssumption DEF Init
<1>1. clock \in 1..MaxTime
  OBVIOUS
<1>2. source \in [Module -> UNION {Sources(m) : m \in Module}] /\ \A m \in Module : source[m] \in Sources(m)
  <2>1. \A m \in Module : source[m] \in Sources(m)
    OBVIOUS
  <2>2. source \in [Module -> UNION {Initial(m) : m \in Module}]
    OBVIOUS
  <2> QED
    BY <2>1, <2>2
<1>3. saved \in [Module -> 1..clock]
  OBVIOUS
<1>4. DOMAIN ttc = Module /\ \A m \in Module : ttc[m].state \in {"none", "torn", "whole"} /\ ttc[m].time \in 0..clock
  BY DEF NoTTC
<1>5. phase \in Phases /\ edited \in BOOLEAN /\ raced \subseteq Module /\ edits \in 0..MaxEdits /\ todo \in Seq(Module)
  <2>1. MaxEdits \in Nat
    OBVIOUS
  <2>2. edits = 0 /\ phase = "idle" /\ edited = FALSE /\ raced = {} /\ todo = <<>>
    OBVIOUS
  <2> QED
    <3>1. edits \in 0..MaxEdits
      BY ONLY <2>1, <2>2
    <3>4. raced \subseteq Module /\ edited \in BOOLEAN
      BY ONLY <2>2, Zenon
    <3>2. phase \in Phases
      BY ONLY <2>2 DEF Phases, Idle
    <3>3. todo \in Seq(Module)
      BY ONLY <2>2
    <3> QED
      BY <3>1, <3>2, <3>3, <3>4
<1>6. phase = "idle" /\ text = NoSource /\ built = NoTTC
  OBVIOUS
<1> QED
  BY ONLY <1>1, <1>2, <1>3, <1>4, <1>5, <1>6 DEF TypeOK

(* Every step keeps the types.                                              *)
LEMMA TypeStep ==
  ASSUME TypeOK, [Next]_vars
  PROVE  TypeOK'
<1>t. /\ MaxTime \in Nat \ {0} /\ MaxEdits \in Nat
      /\ clock \in 1..MaxTime
      /\ source \in [Module -> UNION {Sources(m) : m \in Module}]
      /\ \A m \in Module : source[m] \in Sources(m)
      /\ saved \in [Module -> 1..clock]
      /\ DOMAIN ttc = Module
      /\ \A m \in Module : ttc[m].state \in {"none", "torn", "whole"} /\ ttc[m].time \in 0..clock
      /\ phase \in Phases /\ edited \in BOOLEAN /\ raced \subseteq Module /\ edits \in 0..MaxEdits
      /\ todo \in Seq(Module)
  BY BuildAssumption DEF TypeOK
<1>h. todo # <<>> => Current \in Module /\ Tail(todo) \in Seq(Module)
  BY <1>t DEF Current
<1>1. ASSUME NEW m \in Module, NEW t \in 1..MaxTime, NEW s \in Sources(m), Save(m, s, t)
      PROVE  TypeOK'
  <2>1. clock' \in 1..MaxTime /\ clock <= clock' /\ t = clock'
    BY <1>1, <1>t DEF Save, Stamp
  <2>2. source' \in [Module -> UNION {Sources(i) : i \in Module}] /\ \A i \in Module : source'[i] \in Sources(i)
    BY <1>1, <1>t DEF Save
  <2>3. saved' \in [Module -> 1..clock']
    BY <1>1, <1>t, <2>1 DEF Save
  <2>4. edits' \in 0..MaxEdits /\ edited' \in BOOLEAN
    BY <1>1, <1>t DEF Save
  <2>5. UNCHANGED <<ttc, phase, todo, text, built, raced>>
    BY <1>1 DEF Save, build
  <2>6. \A i \in Module : ttc'[i].state \in {"none", "torn", "whole"} /\ ttc'[i].time \in 0..clock'
    <3>1. clock \in Nat /\ clock' \in Nat
      BY <1>t, <2>1
    <3>2. 0..clock \subseteq 0..clock'
      BY <3>1, <2>1
    <3> QED
      BY ONLY <3>2, <2>5, <1>t
  <2> QED
    BY <2>1, <2>2, <2>3, <2>4, <2>5, <2>6, <1>t DEF TypeOK
<1>2. ASSUME NEW o \in Idle, NEW asked, Leave(o, asked), UNCHANGED <<source, saved, edits, raced>>,
             clock' \in 1..MaxTime, clock <= clock',
             DOMAIN ttc' = Module,
             \A m \in Module : ttc'[m].state \in {"none", "torn", "whole"} /\ ttc'[m].time \in 0..clock'
      PROVE  TypeOK'
  <2>1. /\ phase' \in Phases /\ phase' \notin {"read", "process", "write"} /\ todo' = <<>>
        /\ text' = NoSource /\ built' = NoTTC /\ edited' \in BOOLEAN
    BY <1>2, <1>t DEF Leave, Idle, Phases
  <2>2. saved' \in [Module -> 1..clock']
    BY <1>2, <1>t
  <2>3. /\ source' \in [Module -> UNION {Sources(m) : m \in Module}]
        /\ \A m \in Module : source'[m] \in Sources(m)
        /\ raced' \subseteq Module /\ edits' \in 0..MaxEdits /\ todo' \in Seq(Module)
    BY <1>2, <1>t, <2>1
  <2> QED
    BY ONLY <2>1, <2>2, <2>3, <1>2 DEF TypeOK
<1>3. ASSUME Advance, todo # <<>>, UNCHANGED <<source, saved, edits>>, raced' \subseteq Module,
             clock' \in 1..MaxTime, clock <= clock',
             DOMAIN ttc' = Module,
             \A m \in Module : ttc'[m].state \in {"none", "torn", "whole"} /\ ttc'[m].time \in 0..clock'
      PROVE  TypeOK'
  <2>1. /\ phase' = "check" /\ todo' \in Seq(Module)
        /\ text' = NoSource /\ built' = NoTTC /\ edited' \in BOOLEAN
    BY <1>3, <1>t, <1>h DEF Advance
  <2>2. saved' \in [Module -> 1..clock']
    BY <1>3, <1>t
  <2> QED
    BY <2>1, <2>2, <1>3, <1>t DEF TypeOK, Phases
<1>4. ASSUME NEW fs \in Targets, Start(fs)
      PROVE  TypeOK'
  <2>1. UNCHANGED <<clock, source, saved, ttc, edits, raced>> /\ phase \in Idle
    BY <1>4 DEF Start, env
  <2>2. CASE Cyclic(ImportsOf(source), fs)
    <3>1. Leave("idle", <<>>)
      BY <1>4, <2>2 DEF Start
    <3> QED
      BY <1>2, <2>1, <3>1, <1>t DEF Idle
  <2>3. CASE ~Cyclic(ImportsOf(source), fs)
    <3>1. /\ phase' = "check" /\ edited' = FALSE
          /\ todo' = BuildOrder(ImportsOf(source), fs)
          /\ UNCHANGED <<text, built>>
      BY <1>4, <2>3 DEF Start
    <3>2. todo' \in Seq(Module)
      BY <2>3, <3>1, StartHasOrder DEF IsBuildOrder
    <3>3. text' = NoSource /\ built' = NoTTC
      BY <2>1, <3>1 DEF Idle, TypeOK
    <3> QED
      BY <2>1, <3>1, <3>2, <3>3, <1>t DEF TypeOK, Phases
  <2> QED
    BY <2>2, <2>3
<1>5. CASE Check
  <2>1. UNCHANGED <<clock, source, saved, ttc, edits, raced>> /\ phase = "check" /\ todo # <<>>
    BY <1>5 DEF Check, env
  <2>2. CASE phase' = "read" /\ UNCHANGED <<files, tree, todo, text, built, edited>>
    BY <2>1, <2>2, <1>t DEF TypeOK, Phases
  <2>3. CASE Advance
    BY <2>1, <2>3, <1>3, <1>t
  <2>4. CASE Leave("idle", <<>>)
    BY <2>1, <2>4, <1>2, <1>t DEF Idle
  <2> QED
    BY <1>5, <2>2, <2>3, <2>4 DEF Check, Fail
<1>6. CASE Read
  <2>1. /\ UNCHANGED <<clock, source, saved, ttc, todo, built, edits, edited, raced>>
        /\ phase = "read" /\ phase' = "process"
    BY <1>6 DEF Read, env
  <2> QED
    BY <2>1, <1>t DEF TypeOK, Phases
<1>7. CASE Process
  <2>1. UNCHANGED <<clock, source, saved, ttc, edits, raced>> /\ phase = "process" /\ todo # <<>>
    BY <1>7 DEF Process, env, TypeOK
  <2>2. CASE /\ phase' = "write" /\ UNCHANGED <<files, tree, todo, text, edited>>
             /\ built' = [state |-> "whole", time |-> 0, src |-> Elaborated, saw |-> Saw(Elaborated),
                          hash |-> IfaceHash(Elaborated), importHashes |-> Metas(Elaborated)]
    <3>1. built'.state = "whole" /\ DOMAIN built' = DOMAIN NoTTC
      BY <2>2 DEF NoTTC
    <3> QED
      BY <2>1, <2>2, <3>1, <1>t DEF TypeOK, Phases
  <2>3. CASE Advance
    BY <2>1, <2>3, <1>3, <1>t
  <2>4. CASE Leave("idle", <<>>)
    BY <2>1, <2>4, <1>2, <1>t DEF Idle
  <2> QED
    BY <1>7, <2>2, <2>3, <2>4 DEF Process, Fail
<1>8. CASE Finish
  <2>1. UNCHANGED <<clock, source, saved, ttc, edits, raced>>
    BY <1>8 DEF Finish, env
  <2>2. Leave("idle", <<>>) \/ Leave("ok", files)
    BY <1>8 DEF Finish, Fail
  <2> QED
    BY <2>1, <2>2, <1>2, <1>t DEF Idle
<1>9. ASSUME NEW t \in 1..MaxTime, WriteToTTC(t)
      PROVE  TypeOK'
  <2>1. clock' \in 1..MaxTime /\ clock <= clock' /\ t = clock'
    BY <1>9, <1>t DEF WriteToTTC, Stamp
  <2>2. phase = "write" /\ todo # <<>> /\ Advance /\ UNCHANGED <<source, saved, edits>>
    BY <1>9 DEF WriteToTTC, TypeOK
  <2>3. raced' \subseteq Module
    BY <1>9, <1>h, <1>t, <2>2 DEF WriteToTTC
  <2>4. built.state = "whole"
    BY <2>2 DEF TypeOK
  <2>5. DOMAIN ttc' = Module
    BY <1>9, <1>t DEF WriteToTTC
  <2>6. [built EXCEPT !.time = t].state = "whole" /\ [built EXCEPT !.time = t].time = t
    <3>1. DOMAIN built = {"state", "time", "src", "saw", "hash", "importHashes"}
      BY <2>2 DEF TypeOK, NoTTC
    <3> QED
      BY <3>1, <2>4
  <2>7. ASSUME NEW m \in Module
        PROVE  ttc'[m].state \in {"none", "torn", "whole"} /\ ttc'[m].time \in 0..clock'
    <3>1. clock \in Nat /\ clock' \in Nat
      BY <1>t, <2>1
    <3>2. 0..clock \subseteq 0..clock' /\ t \in 0..clock'
      BY <3>1, <2>1
    <3>3. ttc'[m] = ttc[m] \/ ttc'[m] = [built EXCEPT !.time = t]
      BY <1>9, <1>t DEF WriteToTTC
    <3> QED
      BY ONLY <3>2, <3>3, <2>6, <1>t
  <2> QED
    BY <1>3, <2>1, <2>2, <2>3, <2>5, <2>7
<1>10. ASSUME NEW t \in 1..MaxTime, Kill(t)
       PROVE  TypeOK'
  <2>1. Leave("idle", <<>>) /\ UNCHANGED <<source, saved, edits, raced>>
    BY <1>10 DEF Kill
  <2>2. clock' \in 1..MaxTime /\ clock <= clock'
    BY <1>10, <1>t DEF Kill, Stamp
  <2>3. DOMAIN ttc' = Module
    BY <1>10, <1>t DEF Kill
  <2>4. ASSUME NEW m \in Module
        PROVE  ttc'[m].state \in {"none", "torn", "whole"} /\ ttc'[m].time \in 0..clock'
    <3>1. CASE UNCHANGED ttc
      BY <3>1, <1>t, <2>2
    <3>2. CASE t = clock' /\ ttc' = [ttc EXCEPT ![Current] = [NoTTC EXCEPT !.state = "torn", !.time = t]]
      BY <3>2, <1>t, <2>2 DEF NoTTC
    <3> QED
      BY <1>10, <3>1, <3>2 DEF Kill, Stamp
  <2> QED
    BY <1>2, <2>1, <2>2, <2>3, <2>4 DEF Idle
<1>11. CASE UNCHANGED vars
  BY <1>11 DEF vars, env, build, TypeOK
<1> QED
  BY <1>1, <1>4, <1>5, <1>6, <1>7, <1>8, <1>9, <1>10, <1>11 DEF Next

(***************************************************************************)
(* The steps.                                                              *)
(***************************************************************************)
(* The rest of a list without repetition.                                   *)
LEMMA TailOfOrder ==
  ASSUME NEW s \in Seq(Module), s # <<>>, IsInjective(s)
  PROVE  /\ Head(s) = s[1] /\ 1 \in DOMAIN s /\ Head(s) \in ToSet(s)
         /\ \A k \in DOMAIN Tail(s) : k \in Nat /\ k >= 1 /\ k + 1 \in DOMAIN s /\ Tail(s)[k] = s[k+1]
         /\ IsInjective(Tail(s))
         /\ ToSet(Tail(s)) = ToSet(s) \ {Head(s)}
<1>1. PICK n \in Nat : n = Len(s)
  OBVIOUS
<1>2. n >= 1 /\ DOMAIN s = 1..n /\ Head(s) = s[1]
  BY <1>1
<1>3. DOMAIN Tail(s) = 1..(n-1) /\ \A k \in 1..(n-1) : Tail(s)[k] = s[k+1]
  BY <1>1, <1>2
<1>4. \A k \in DOMAIN Tail(s) : k \in Nat /\ k >= 1 /\ k + 1 \in DOMAIN s /\ Tail(s)[k] = s[k+1]
  BY <1>2, <1>3
<1>5. \A a, b \in 1..n : s[a] = s[b] => a = b
  BY <1>2 DEF IsInjective
<1>6. IsInjective(Tail(s))
  BY <1>3, <1>5 DEF IsInjective
<1>7. ASSUME NEW x
      PROVE  x \in ToSet(Tail(s)) <=> x \in ToSet(s) /\ x # Head(s)
  <2>1. ASSUME NEW k \in 1..(n-1), x = s[k+1]
        PROVE  x \in ToSet(s) /\ x # Head(s)
    BY <2>1, <1>2, <1>5 DEF ToSet
  <2>2. ASSUME NEW k \in 1..n, x = s[k], x # Head(s)
        PROVE  \E j \in 1..(n-1) : x = s[j+1]
    <3>1. k # 1
      BY <2>2, <1>2
    <3>2. k - 1 \in 1..(n-1) /\ (k - 1) + 1 = k
      BY <3>1, <1>2
    <3> QED
      BY <3>2, <2>2
  <2> QED
    BY <2>1, <2>2, <1>2, <1>3 DEF ToSet
<1>8. ToSet(Tail(s)) = ToSet(s) \ {Head(s)}
  BY <1>7
<1>9. 1 \in DOMAIN s /\ Head(s) \in ToSet(s)
  BY <1>2 DEF ToSet
<1> QED
  BY ONLY <1>2, <1>4, <1>6, <1>8, <1>9

(* The order is right when the build starts.                                *)
LEMMA OrderedAtStart ==
  ASSUME TypeOK, NEW fs \in Targets, Start(fs), ~Cyclic(ImportsOf(source), fs)
  PROVE  Ordered' /\ Done' = {}
<1>1. /\ files' = fs /\ tree' = ImportsOf(source)
      /\ todo' = BuildOrder(ImportsOf(source), fs)
  BY DEF Start
<1>2. IsBuildOrder(tree', fs, todo')
  BY <1>1, StartHasOrder
<1>3. Reached' = ToSet(todo')
  BY <1>1, <1>2 DEF Reached, IsBuildOrder
<1>4. Done' = {}
  BY <1>3 DEF Done
<1>5. tree' \in [Module -> Seq(Module)]
  BY <1>1, SourcesMakeGraph
<1> QED
  BY <1>1, <1>2, <1>3, <1>4, <1>5 DEF Ordered, IsBuildOrder

(* The build is over with the current module: the order is still right.     *)
LEMMA OrderedAdvances ==
  ASSUME Ordered, Building, TypeOK, todo # <<>>,
         todo' = Tail(todo), UNCHANGED <<files, tree>>
  PROVE  /\ Ordered'
         /\ Current \in Module
         /\ Done' = Done \cup {Current} /\ Current \notin Done
         /\ ToSet(tree[Current]) \subseteq Done
<1>o. /\ files \in Targets /\ tree \in [Module -> Seq(Module)]
      /\ IsInjective(todo) /\ ToSet(todo) \subseteq Reached
      /\ \A j \in Done : ToSet(tree[j]) \subseteq Done
      /\ \A k \in DOMAIN todo :
           ToSet(tree[todo[k]]) \subseteq Done \cup {todo[j] : j \in 1..(k-1)}
  BY DEF Ordered
<1>1. todo \in Seq(Module) /\ Current \in Module
  BY DEF TypeOK, Current
<1>2. /\ Current = todo[1] /\ 1 \in DOMAIN todo /\ Current \in ToSet(todo)
      /\ \A k \in DOMAIN todo' : k \in Nat /\ k >= 1 /\ k + 1 \in DOMAIN todo /\ todo'[k] = todo[k+1]
      /\ IsInjective(todo')
      /\ ToSet(todo') = ToSet(todo) \ {Current}
  BY <1>1, <1>o, TailOfOrder DEF Current
<1>3. Reached' = Reached
  BY DEF Reached
<1>4. Done' = Done \cup {Current} /\ Current \notin Done
  BY <1>2, <1>3, <1>o DEF Done
<1>5. ToSet(tree[Current]) \subseteq Done
  BY <1>o, <1>2
<1>6. \A j \in Done' : ToSet(tree'[j]) \subseteq Done'
  BY <1>o, <1>4, <1>5
<1>7. ASSUME NEW k \in DOMAIN todo'
      PROVE  ToSet(tree'[todo'[k]]) \subseteq Done' \cup {todo'[j] : j \in 1..(k-1)}
  <2>1. ToSet(tree[todo[k+1]]) \subseteq Done \cup {todo[j] : j \in 1..k}
    BY <1>o, <1>2
  <2>2. ASSUME NEW j \in 1..k
        PROVE  todo[j] \in Done' \cup {todo'[i] : i \in 1..(k-1)}
    <3>1. CASE j = 1
      BY <3>1, <1>2, <1>4
    <3>2. CASE j # 1
      <4>1. PICK i \in 1..(k-1) : j = i + 1
        BY <3>2, <1>2
      <4>2. i \in DOMAIN todo'
        BY <4>1, <1>1, <1>2
      <4> QED
        BY <4>1, <4>2, <1>2
    <3> QED
      BY <3>1, <3>2
  <2> QED
    BY <2>1, <2>2, <1>2, <1>4
<1>8. ToSet(todo') \subseteq Reached'
  BY <1>o, <1>2, <1>3
<1> QED
  BY <1>o, <1>1, <1>2, <1>4, <1>5, <1>6, <1>7, <1>8 DEF Ordered

(* The TTCs, the sources and what is known of them stay.                    *)
LEMMA StoredStays ==
  ASSUME Stored, Shown, UNCHANGED <<ttc, source, saved, raced>>
  PROVE  Stored' /\ Shown'
BY DEF Stored, Shown, Agrees

(* Nothing is claimed of a build that is over.                              *)
LEMMA NothingLeft ==
  ASSUME NEW o \in Idle, NEW asked, Leave(o, asked)
  PROVE  Ordered' /\ Unedited' /\ Writing'
<1>1. phase' \notin {"check", "read", "process", "write"}
  BY DEF Leave, Idle
<1> QED
  BY <1>1 DEF Building, Ordered, Unedited, Writing

(* The build is over with the current module, without a new TTC.            *)
LEMMA ModulePassed ==
  ASSUME TypeOK, Ordered, Unedited, Building, todo # <<>>, Advance,
         UNCHANGED <<ttc, source, saved, raced>>,
         ~edited => Settled(Current)
  PROVE  Ordered' /\ Unedited' /\ Writing'
<1>1. /\ Ordered' /\ Done' = Done \cup {Current}
  BY OrderedAdvances DEF Advance
<1>2. phase' = "check" /\ UNCHANGED <<tree, edited>>
  BY DEF Advance
<1>3. Writing'
  BY <1>2 DEF Writing
<1>4. Unedited'
  <2>1. SUFFICES ASSUME ~edited
                 PROVE  tree' = ImportsOf(source)' /\ \A j \in Done' : Settled(j)'
    BY <1>2 DEF Unedited
  <2>2. tree = ImportsOf(source) /\ \A j \in Done : Settled(j)
    BY <2>1 DEF Unedited
  <2>3. \A j \in Done' : Settled(j)
    BY <2>1, <2>2, <1>1
  <2> QED
    BY <2>2, <2>3, <1>2 DEF Settled, Agrees, Present, ImportsOf
<1> QED
  BY <1>1, <1>3, <1>4

(* A file is saved: its TTC is older than it, and nothing is said of the
   build any more.                                                          *)
LEMMA SaveStep ==
  ASSUME TypeOK, BuildInv, NEW m \in Module, NEW s \in Sources(m), NEW t \in 1..MaxTime, Save(m, s, t)
  PROVE  Stored' /\ Shown' /\ Ordered' /\ Unedited' /\ Writing'
<1>1. UNCHANGED <<ttc, phase, files, tree, todo, text, built, raced>>
  BY DEF Save, build
<1>2. edited' = (phase # "idle")
  BY DEF Save
<1>3. /\ \A i \in Module : i # m => source'[i] = source[i] /\ saved'[i] = saved[i]
      /\ saved'[m] = t /\ t >= clock /\ clock \in Nat /\ t \in Nat
  <2>0. clock \in Nat
    BY DEF TypeOK
  <2>1. source \in [Module -> UNION {Sources(i) : i \in Module}] /\ saved \in [Module -> 1..clock]
    BY DEF TypeOK
  <2>2. source' = [source EXCEPT ![m] = s] /\ saved' = [saved EXCEPT ![m] = t]
    BY DEF Save
  <2>3. t \in {clock, clock + 1}
    BY DEF Save, Stamp
  <2> QED
    BY <2>0, <2>1, <2>2, <2>3
<1>4. \A i \in Module : ttc[i].time \in 0..clock /\ saved[i] \in 1..clock
  BY DEF TypeOK
<1>5. Stored'
  BY <1>1 DEF BuildInv, Stored
<1>6. Shown'
  <2>1. SUFFICES ASSUME NEW i \in Module, ttc[i].state = "whole"
                 PROVE  /\ i \notin raced /\ saved'[i] < ttc[i].time => ttc[i].src = source'[i]
                        /\ (\A j \in ToSet(ttc[i].src.imports) : ttc[j].time < ttc[i].time) => Agrees(i)
                        /\ i \notin raced => HashesShow(ttc[i].importHashes, ttc[i].saw)
    BY <1>1 DEF Shown, Agrees
  <2>2. ~(saved'[m] < ttc[m].time)
    BY <1>3, <1>4
  <2> QED
    BY <2>1, <2>2, <1>3 DEF BuildInv, Shown
<1>7. Ordered'
  BY <1>1 DEF BuildInv, Ordered, Building, Done, Reached
<1>8. Unedited'
  <2>1. Building' => edited'
    BY <1>1, <1>2 DEF Building
  <2> QED
    BY ONLY <2>1 DEF Unedited
<1>9. Writing'
  <2>1. SUFFICES ASSUME phase = "write"
                 PROVE  Writing'
    BY <1>1 DEF Writing
  <2>2. edited' = TRUE
    BY <1>2, <2>1
  <2>3. Current \in Module /\ Current' = Current
    BY <1>1, <2>1 DEF Current, TypeOK
  <2>4. saved'[Current] >= saved[Current]
    BY <1>3, <1>4, <2>3
  <2>5. saved[Current] >= ttc[Current].time => saved'[Current] >= ttc[Current].time
    BY <2>3, <2>4, <1>3, <1>4
  <2> QED
    BY <1>1, <2>1, <2>2, <2>3, <2>5 DEF BuildInv, Writing
<1> QED
  BY <1>5, <1>6, <1>7, <1>8, <1>9

(* A build starts, in the order of the imports, or gives up on a cycle.     *)
LEMMA StartStep ==
  ASSUME TypeOK, BuildInv, NEW fs \in Targets, Start(fs)
  PROVE  Stored' /\ Shown' /\ Ordered' /\ Unedited' /\ Writing'
<1>1. UNCHANGED <<source, saved, ttc, raced>>
  BY DEF Start, env
<1>2. Stored' /\ Shown'
  BY <1>1, StoredStays DEF BuildInv
<1>3. CASE Cyclic(ImportsOf(source), fs)
  <2>1. Leave("idle", <<>>)
    BY <1>3 DEF Start
  <2> QED
    BY <1>2, <2>1, NothingLeft DEF Idle
<1>4. CASE ~Cyclic(ImportsOf(source), fs)
  <2>1. phase' = "check" /\ tree' = ImportsOf(source)
    BY <1>4 DEF Start
  <2>2. Ordered' /\ Done' = {}
    BY <1>4, OrderedAtStart
  <2>3. Unedited'
    BY <1>1, <2>1, <2>2 DEF Unedited, ImportsOf
  <2> QED
    BY <1>2, <2>1, <2>2, <2>3 DEF Writing
<1> QED
  BY <1>3, <1>4

(* The source of the current module is read.                                *)
LEMMA ReadStep ==
  ASSUME TypeOK, BuildInv, Read
  PROVE  Stored' /\ Shown' /\ Ordered' /\ Unedited' /\ Writing'
<1>1. /\ UNCHANGED <<source, saved, ttc, raced, files, tree, todo, built, edited>>
      /\ phase = "read" /\ phase' = "process" /\ text' = source[Current]
  BY DEF Read, env
<1>2. Stored' /\ Shown'
  BY <1>1, StoredStays DEF BuildInv
<1>3. Ordered'
  BY <1>1 DEF BuildInv, Ordered, Building, Done, Reached
<1>4. Unedited'
  BY <1>1 DEF BuildInv, Unedited, Building, Done, Reached, Settled, Agrees, Present, ImportsOf, Current
<1> QED
  BY <1>1, <1>2, <1>3, <1>4 DEF Writing

(* A TTC younger than its source and than the TTCs of its imports is what
   it would be if it were made again.                                       *)
LEMMA CheckStep ==
  ASSUME TypeOK, BuildInv, Check
  PROVE  Stored' /\ Shown' /\ Ordered' /\ Unedited' /\ Writing'
<1>1. UNCHANGED <<source, saved, ttc, raced>> /\ phase = "check" /\ todo # <<>>
  BY DEF Check, env
<1>2. Stored' /\ Shown'
  BY <1>1, StoredStays DEF BuildInv
<1>3. CASE phase' = "read" /\ UNCHANGED <<files, tree, todo, text, built, edited>>
  <2>1. Ordered'
    BY <1>1, <1>3 DEF BuildInv, Ordered, Building, Done, Reached
  <2>2. Unedited'
    BY <1>1, <1>3 DEF BuildInv, Unedited, Building, Done, Reached, Settled, Agrees, Present, ImportsOf
  <2> QED
    BY <1>2, <1>3, <2>1, <2>2 DEF Writing
<1>4. CASE Leave("idle", <<>>)
  BY <1>2, <1>4, NothingLeft DEF Idle
<1>5. CASE Advance /\ ~NeedsBuilding(Current) /\ \A i \in ToSet(tree[Current]) : Present(i)
  <2>1. Building
    BY <1>1 DEF Building
  <2>2. Current \in Module
    BY <1>1 DEF Current, TypeOK
  <2>3. SUFFICES ASSUME ~edited
                 PROVE  Settled(Current)
    BY <1>1, <1>2, <1>5, <2>1, ModulePassed DEF BuildInv
  <2>4. tree[Current] = source[Current].imports
    BY <2>1, <2>2, <2>3 DEF BuildInv, Unedited, ImportsOf
  <2>5. /\ Present(Current)
        /\ ~(saved[Current] >= ttc[Current].time)
        /\ \A i \in ToSet(tree[Current]) : ~(ttc[i].time >= ttc[Current].time)
    BY <1>5 DEF NeedsBuilding, IsTTCOutdated
  <2>6. ToSet(tree[Current]) \subseteq Module
    <3>1. tree[Current] \in Seq(Module)
      BY <2>2, <2>4, SourcesMakeGraph
    <3> QED
      BY <3>1 DEF ToSet
  <2>7. /\ saved[Current] < ttc[Current].time
        /\ \A i \in ToSet(tree[Current]) : ttc[i].time < ttc[Current].time
    <3>1. clock \in Nat /\ \A i \in Module : saved[i] \in 1..clock /\ ttc[i].time \in 0..clock
      BY DEF TypeOK
    <3> QED
      BY <3>1, <2>2, <2>5, <2>6
  <2> QED
    BY <2>2, <2>4, <2>5, <2>7 DEF BuildInv, Shown, Settled
<1> QED
  BY <1>3, <1>4, <1>5 DEF Check, Fail

(* What the elaboration of the current module would record.                 *)
LEMMA ElaboratedSource ==
  ASSUME TypeOK, phase = "process"
  PROVE  /\ Current \in Module
         /\ Elaborated.imports = source[Current].imports
         /\ Elaborated.public = source[Current].public
         /\ Elaborated.text = text.text
         /\ Elaborated.imports \in Seq(Module) /\ ToSet(Elaborated.imports) \subseteq Module
         /\ Elaborated.public \subseteq ToSet(Elaborated.imports)
         /\ text = source[Current] => Elaborated = source[Current]
<1>1. Current \in Module
  BY DEF Current, TypeOK
<1>2. PICK s : /\ s = source[Current] /\ s = [imports |-> s.imports, public |-> s.public, text |-> s.text]
               /\ s.imports \in Seq(Module) /\ s.public \subseteq ToSet(s.imports)
  BY <1>1, SourcesMakeGraph
<1>3. Elaborated = [s EXCEPT !.text = text.text]
  BY <1>2 DEF Elaborated
<1>4. Elaborated = [imports |-> s.imports, public |-> s.public, text |-> text.text]
  BY <1>2, <1>3
<1>5. ToSet(s.imports) \subseteq Module
  BY <1>2 DEF ToSet
<1> QED
  BY <1>1, <1>2, <1>4, <1>5

(* In a build during which no file is saved, what the current module sees,
   all of it elaborated and with nothing raced, is done and is what the
   hashes show.                                                             *)
LEMMA ViewIsShown ==
  ASSUME TypeOK, BuildInv, phase = "process", ~edited, Elaborates(Elaborated),
         InView(Elaborated) \cap raced = {}
  PROVE  HashesShow(Metas(Elaborated), Saw(Elaborated))
<1> DEFINE pub  == [m \in Module |-> IF ttc[m].state = "whole" THEN ttc[m].src.public ELSE {}]
           hash == [m \in Module |-> ttc[m].hash]
           face == [m \in Module |-> Interface(ttc[m].src.text)]
           ms   == ToSet(Elaborated.imports)
           V    == Closure(pub, ms)
<1>1. Building
  BY DEF Building
<1>2. todo # <<>>
  BY DEF TypeOK
<1>3. /\ Current \in Module /\ Elaborated = source[Current]
      /\ ms \subseteq Module
  BY <1>1, ElaboratedSource DEF BuildInv, Unedited
<1>4. tree = ImportsOf(source) /\ \A j \in Done : Settled(j)
  BY <1>1 DEF BuildInv, Unedited
<1>5. ToSet(tree[Current]) \subseteq Done /\ \A j \in Done : ToSet(tree[j]) \subseteq Done
  <2>1. PICK k \in {1} : k \in DOMAIN todo /\ todo[k] = Current
    BY <1>2 DEF TypeOK, Current
  <2> QED
    BY <1>1, <2>1 DEF BuildInv, Ordered
<1>6. Done \subseteq Module
  <2>1. \A m \in Module : Deps(tree)[m] \subseteq Module
    BY <1>1 DEF Deps, ToSet, BuildInv, Ordered
  <2> QED
    BY <2>1, <1>1 DEF Done, Reached, Closure
<1>7. V = InView(Elaborated)
  BY DEF InView
<1>8. \A m \in Module : pub[m] \subseteq Module
  <2>1. SUFFICES ASSUME NEW m \in Module, ttc[m].state = "whole"
                 PROVE  ttc[m].src.public \subseteq Module
    OBVIOUS
  <2>2. ttc[m].src.imports \in Seq(Module) /\ ttc[m].src.public \subseteq ToSet(ttc[m].src.imports)
    BY <2>1 DEF BuildInv, Stored, Made
  <2> QED
    BY <2>2 DEF ToSet
<1>9. /\ V \subseteq Module /\ ms \subseteq V
      /\ \A i \in V : pub[i] \subseteq V
      /\ \A S \in SUBSET Module : ms \subseteq S /\ (\A i \in S : pub[i] \subseteq S) => V \subseteq S
  <2> HIDE DEF pub, ms
  <2> QED
    BY ONLY <1>3, <1>8, ClosureIsLeast
<1>10. \A i \in V : ttc[i].state = "whole" /\ i \notin raced
  BY <1>7 DEF Elaborates
<1>11. ASSUME NEW i \in V, i \in Done
       PROVE  /\ Agrees(i) /\ Made(ttc[i])
              /\ ttc[i].src.public \subseteq Done
              /\ ttc[i].src.public \subseteq ToSet(ttc[i].src.imports)
  <2>1. i \in Module /\ ttc[i].src = source[i] /\ Agrees(i)
    BY <1>4, <1>9, <1>10, <1>11 DEF Settled
  <2>2. Made(ttc[i])
    BY <2>1, <1>10 DEF BuildInv, Stored
  <2>3. ttc[i].src.public \subseteq ToSet(ttc[i].src.imports)
    BY <2>2 DEF Made
  <2>4. tree[i] = ttc[i].src.imports
    BY <2>1, <1>4 DEF ImportsOf
  <2> QED
    BY <2>1, <2>2, <2>3, <2>4, <1>5, <1>11
<1>12. V \subseteq Done
  <2> DEFINE T == V \cap Done
  <2>1. ms \subseteq T
    BY <1>3, <1>4, <1>5, <1>9 DEF ImportsOf
  <2>2. \A i \in T : pub[i] \subseteq T
    BY <1>9, <1>10, <1>11
  <2>3. V \subseteq T
    BY <2>1, <2>2, <1>9
  <2> QED
    BY <2>3
<1>13. ASSUME NEW i \in V
       PROVE  hash[i] = <<face[i], {<<j, hash[j]>> : j \in pub[i]}>>
  <2>1. /\ i \in Module /\ pub[i] = ttc[i].src.public /\ Agrees(i) /\ Made(ttc[i])
        /\ ttc[i].src.public \subseteq ToSet(ttc[i].src.imports)
        /\ ttc[i].src.public \subseteq Module
    BY <1>6, <1>9, <1>10, <1>11, <1>12
  <2>2. hash[i] = <<face[i], {p \in ttc[i].importHashes : p[1] \in pub[i]}>>
    BY <2>1 DEF Made
  <2>3. ttc[i].importHashes = {<<j, ttc[j].hash>> : j \in ToSet(ttc[i].src.imports)}
    BY <2>1 DEF Agrees
  <2>4. {p \in ttc[i].importHashes : p[1] \in pub[i]} = {<<j, ttc[j].hash>> : j \in pub[i]}
    BY <2>1, <2>3
  <2>5. {<<j, ttc[j].hash>> : j \in pub[i]} = {<<j, hash[j]>> : j \in pub[i]}
    BY <2>1
  <2> QED
    BY <2>2, <2>4, <2>5
<1>14. HashesShow({<<i, hash[i]>> : i \in ms}, {<<i, face[i]>> : i \in V})
  <2> HIDE DEF pub, hash, face, ms
  <2> QED
    BY <1>3, <1>8, <1>13, HashesShowView
<1>15. Metas(Elaborated) = {<<i, hash[i]>> : i \in ms}
  BY <1>3 DEF Metas
<1>16. Saw(Elaborated) = {<<i, face[i]>> : i \in V}
  <2>1. \A i \in V : face[i] = Interface(ttc[i].src.text)
    BY <1>9
  <2>2. Saw(Elaborated) = {<<i, Interface(ttc[i].src.text)>> : i \in V}
    BY ONLY <1>7 DEF Saw
  <2> HIDE DEF V, face
  <2> QED
    BY ONLY <2>1, <2>2
<1> QED
  BY <1>14, <1>15, <1>16

(* The current module is elaborated, is found to be unchanged, or is
   rejected.                                                                *)
LEMMA ProcessStep ==
  ASSUME TypeOK, BuildInv, Process
  PROVE  Stored' /\ Shown' /\ Ordered' /\ Unedited' /\ Writing'
<1>1. /\ UNCHANGED <<source, saved, ttc, raced>> /\ phase = "process" /\ todo # <<>>
      /\ Building /\ Current \in Module
  BY ElaboratedSource DEF Process, env, TypeOK, Building
<1>2. Stored' /\ Shown'
  BY <1>1, StoredStays DEF BuildInv
<1>3. CASE Leave("idle", <<>>)
  BY <1>2, <1>3, NothingLeft DEF Idle
<1>4. CASE Advance /\ Unchanged(Current)
  <2>1. SUFFICES ASSUME ~edited
                 PROVE  Settled(Current)
    BY <1>1, <1>2, <1>4, ModulePassed DEF BuildInv
  <2>2. /\ ~(saved[Current] >= ttc[Current].time)
        /\ ttc[Current].importHashes = {<<i, ttc[i].hash>> : i \in ToSet(source[Current].imports)}
    BY <1>4 DEF Unchanged, IsTTCOutdated, Metas
  <2>3. saved[Current] < ttc[Current].time /\ ttc[Current].time # 0
    <3>1. clock \in Nat /\ \A i \in Module : saved[i] \in 1..clock /\ ttc[i].time \in 0..clock
      BY DEF TypeOK
    <3> QED
      BY <3>1, <1>1, <2>2
  <2>4. Present(Current)
    BY <1>1, <2>3 DEF BuildInv, Stored, Present
  <2>5. ASSUME ttc[Current].state = "whole", Current \notin raced
        PROVE  ttc[Current].src = source[Current] /\ Agrees(Current)
    BY <1>1, <2>2, <2>3, <2>5 DEF BuildInv, Shown, Agrees
  <2> QED
    BY <2>4, <2>5 DEF Settled
<1>5. CASE /\ Elaborates(Elaborated) /\ ~Unchanged(Current)
           /\ phase' = "write" /\ UNCHANGED <<files, tree, todo, text, edited>>
           /\ built' = [state |-> "whole", time |-> 0, src |-> Elaborated, saw |-> Saw(Elaborated),
                        hash |-> IfaceHash(Elaborated), importHashes |-> Metas(Elaborated)]
  <2>1. Ordered'
    BY <1>1, <1>5 DEF BuildInv, Ordered, Building, Done, Reached
  <2>2. /\ Elaborated.imports = source[Current].imports
        /\ Elaborated.imports \in Seq(Module) /\ ToSet(Elaborated.imports) \subseteq Module
        /\ Elaborated.public \subseteq ToSet(Elaborated.imports)
        /\ text = source[Current] => Elaborated = source[Current]
    BY <1>1, ElaboratedSource
  <2>3. /\ built'.src = Elaborated /\ built'.saw = Saw(Elaborated)
        /\ built'.hash = IfaceHash(Elaborated) /\ built'.importHashes = Metas(Elaborated)
        /\ built' = [state |-> "whole", time |-> 0, src |-> built'.src, saw |-> built'.saw,
                     hash |-> built'.hash, importHashes |-> built'.importHashes]
    BY <1>5
  <2>4. Current' = Current
    BY <1>5 DEF Current
  <2>5. Unedited'
    <3>1. SUFFICES ASSUME ~edited
                   PROVE  /\ tree = ImportsOf(source)
                          /\ text = source[Current]
                          /\ built'.src = source[Current]
                          /\ \A j \in Done : Settled(j)
      BY <1>1, <1>5, <2>4 DEF Unedited, Done, Reached, Settled, Agrees, Present, ImportsOf
    <3> QED
      BY <3>1, <1>1, <2>2, <2>3 DEF BuildInv, Unedited
  <2>6. Metas(Elaborated) = {<<i, ttc[i].hash>> : i \in ToSet(Elaborated.imports)}
    BY DEF Metas
  <2>7. /\ built'.src.imports \in Seq(Module) /\ built'.src.public \subseteq ToSet(built'.src.imports)
        /\ Accepts(built'.src.text, built'.saw)
        /\ built'.hash = <<Interface(built'.src.text), {p \in built'.importHashes : p[1] \in built'.src.public}>>
    <3>1. Accepts(Elaborated.text, Saw(Elaborated))
      BY <1>5 DEF Elaborates
    <3>2. {p \in Metas(Elaborated) : p[1] \in Elaborated.public} = {<<i, ttc[i].hash>> : i \in Elaborated.public}
      BY <2>2, <2>6
    <3> QED
      BY <2>2, <2>3, <3>1, <3>2 DEF IfaceHash
  <2>8. built'.importHashes = {<<i, ttc'[i].hash>> : i \in ToSet(built'.src.imports)}
    BY <1>1, <2>3, <2>6
  <2>9. ~edited' /\ InView(built.src)' \cap raced' = {} => HashesShow(built'.importHashes, built'.saw)
    <3>1. SUFFICES ASSUME ~edited, InView(built.src)' \cap raced = {}
                   PROVE  HashesShow(Metas(Elaborated), Saw(Elaborated))
      BY <1>1, <1>5, <2>3
    <3>2. InView(built.src)' = InView(Elaborated)
      BY <1>1, <2>3 DEF InView
    <3> QED
      BY <1>1, <1>5, <3>1, <3>2, ViewIsShown
  <2>10. saved'[Current] >= ttc'[Current].time \/ built'.importHashes # ttc'[Current].importHashes
    <3>1. Metas(source[Current]) = Metas(Elaborated)
      BY <2>2 DEF Metas
    <3> QED
      BY <1>1, <1>5, <2>3, <3>1 DEF Unchanged, IsTTCOutdated
  <2>11. Writing'
    BY <2>3, <2>4, <2>7, <2>8, <2>9, <2>10 DEF Writing, Made
  <2> QED
    BY <1>2, <2>1, <2>5, <2>11
<1> QED
  BY <1>3, <1>4, <1>5 DEF Process, Fail

(* A TTC is replaced, with a time that is now or later: for every other
   module what the times and the hashes show stays true.                    *)
LEMMA OthersStay ==
  ASSUME TypeOK, Shown, NEW c \in Module, NEW t \in Nat, t >= clock,
         \A i \in Module : i # c => ttc'[i] = ttc[i],
         ttc'[c].time = t, UNCHANGED <<source, saved>>,
         NEW m \in Module, m # c, ttc[m].state = "whole", ToSet(ttc[m].src.imports) \subseteq Module,
         m \notin raced' => m \notin raced
  PROVE  /\ m \notin raced' /\ saved'[m] < ttc'[m].time => ttc'[m].src = source'[m]
         /\ (\A i \in ToSet(ttc'[m].src.imports) : ttc'[i].time < ttc'[m].time)
              => ttc'[m].importHashes = {<<i, ttc'[i].hash>> : i \in ToSet(ttc'[m].src.imports)}
         /\ m \notin raced' => HashesShow(ttc'[m].importHashes, ttc'[m].saw)
<1>1. /\ m \notin raced /\ saved[m] < ttc[m].time => ttc[m].src = source[m]
      /\ (\A i \in ToSet(ttc[m].src.imports) : ttc[i].time < ttc[m].time) => Agrees(m)
      /\ m \notin raced => HashesShow(ttc[m].importHashes, ttc[m].saw)
  BY DEF Shown
<1>2. ttc'[m] = ttc[m]
  OBVIOUS
<1>3. ASSUME \A i \in ToSet(ttc[m].src.imports) : ttc'[i].time < ttc[m].time
      PROVE  ttc[m].importHashes = {<<i, ttc'[i].hash>> : i \in ToSet(ttc[m].src.imports)}
  <2>1. ~(t < ttc[m].time)
    <3>1. clock \in Nat /\ ttc[m].time \in 0..clock
      BY DEF TypeOK
    <3> QED
      BY <3>1
  <2>2. c \notin ToSet(ttc[m].src.imports)
    BY <1>3, <2>1
  <2>3. \A i \in ToSet(ttc[m].src.imports) : ttc'[i] = ttc[i]
    BY <2>2
  <2> QED
    BY <1>1, <1>3, <2>3 DEF Agrees
<1> QED
  BY <1>1, <1>2, <1>3

(* The imports of what is stored are modules.                               *)
LEMMA ImportsAreModules ==
  ASSUME Stored, NEW m \in Module, ttc[m].state = "whole"
  PROVE  ToSet(ttc[m].src.imports) \subseteq Module
<1>1. ttc[m].src.imports \in Seq(Module)
  BY DEF Stored, Made
<1> QED
  BY <1>1 DEF ToSet

(* The TTC of the current module is written.                                *)
LEMMA WriteStep ==
  ASSUME TypeOK, BuildInv, NEW t \in 1..MaxTime, WriteToTTC(t)
  PROVE  Stored' /\ Shown' /\ Ordered' /\ Unedited' /\ Writing'
<1>1. PICK c \in Module : c = Current
  <2>1. phase = "write"
    BY DEF WriteToTTC
  <2>2. todo \in Seq(Module) /\ todo # <<>>
    BY <2>1 DEF TypeOK
  <2> QED
    BY <2>2 DEF Current
<1>2. PICK b : b = built
  OBVIOUS
<1>3. PICK new : new = [b EXCEPT !.time = t]
  OBVIOUS
<1>4. /\ phase = "write" /\ todo # <<>> /\ Building /\ Advance
      /\ UNCHANGED <<source, saved>>
      /\ ttc' = [ttc EXCEPT ![c] = new] /\ DOMAIN ttc = Module
      /\ raced' = IF ~edited /\ InView(b.src) \cap raced = {} THEN raced \ {c} ELSE raced \cup {c}
  BY <1>1, <1>2, <1>3 DEF WriteToTTC, TypeOK, Building
<1>5. /\ clock \in Nat /\ t \in Nat /\ t >= clock /\ t >= 1
      /\ \A m \in Module : ttc[m].time \in 0..clock
  <2>1. clock \in Nat /\ clock >= 1
    BY DEF TypeOK
  <2>2. \A m \in Module : ttc[m].time \in 0..clock
    BY DEF TypeOK
  <2>3. t \in {clock, clock + 1}
    BY DEF WriteToTTC, Stamp
  <2> QED
    BY ONLY <2>1, <2>2, <2>3
<1>6. /\ ttc'[c] = new
      /\ \A m \in Module : m # c => ttc'[m] = ttc[m] /\ (m \in raced' <=> m \in raced)
      /\ c \notin raced' => ~edited /\ InView(b.src) \cap raced = {}
  BY <1>4
<1>7. /\ b = [state |-> "whole", time |-> 0, src |-> b.src, saw |-> b.saw,
              hash |-> b.hash, importHashes |-> b.importHashes]
      /\ Made(b)
      /\ b.importHashes = {<<i, ttc[i].hash>> : i \in ToSet(b.src.imports)}
      /\ ~edited /\ InView(b.src) \cap raced = {} => HashesShow(b.importHashes, b.saw)
  BY <1>2, <1>4 DEF BuildInv, Writing
<1>8. /\ new.state = "whole" /\ new.time = t /\ new.src = b.src /\ new.saw = b.saw
      /\ new.hash = b.hash /\ new.importHashes = b.importHashes
  BY <1>3, <1>7
<1>9. ToSet(b.src.imports) \subseteq Module
  <2>1. b.src.imports \in Seq(Module)
    BY <1>7 DEF Made
  <2> QED
    BY <2>1 DEF ToSet
<1>10. Made(new)
  BY <1>7, <1>8 DEF Made
<1>11. Stored'
  <2>1. SUFFICES ASSUME NEW m \in Module
                 PROVE  /\ ttc'[m].state = "none" => ttc'[m].time = 0
                        /\ ttc'[m].state = "whole" => Made(ttc'[m])
    BY DEF Stored
  <2>2. CASE m = c
    BY <2>2, <1>6, <1>8, <1>10
  <2>3. CASE m # c
    BY <2>3, <1>6 DEF BuildInv, Stored
  <2> QED
    BY <2>2, <2>3
<1>12. ~edited => b.src = source[c] /\ tree = ImportsOf(source) /\ \A j \in Done : Settled(j)
  BY <1>1, <1>2, <1>4 DEF BuildInv, Unedited
<1>13. Shown'
  <2>1. SUFFICES ASSUME NEW m \in Module, ttc'[m].state = "whole"
                 PROVE  /\ m \notin raced' /\ saved'[m] < ttc'[m].time => ttc'[m].src = source'[m]
                        /\ (\A i \in ToSet(ttc'[m].src.imports) : ttc'[i].time < ttc'[m].time)
                             => ttc'[m].importHashes = {<<i, ttc'[i].hash>> : i \in ToSet(ttc'[m].src.imports)}
                        /\ m \notin raced' => HashesShow(ttc'[m].importHashes, ttc'[m].saw)
    BY DEF Shown, Agrees
  <2>2. CASE m = c
    <3>1. ASSUME \A i \in ToSet(b.src.imports) : ttc'[i].time < t
          PROVE  b.importHashes = {<<i, ttc'[i].hash>> : i \in ToSet(b.src.imports)}
      <4>1. c \notin ToSet(b.src.imports)
        BY <3>1, <1>5, <1>6, <1>8
      <4>2. \A i \in ToSet(b.src.imports) : ttc'[i] = ttc[i]
        BY <4>1, <1>6, <1>9
      <4> QED
        BY <4>2, <1>7
    <3> QED
      BY <3>1, <2>2, <1>4, <1>6, <1>7, <1>8, <1>12
  <2>3. CASE m # c
    <3>1. ttc[m].state = "whole" /\ (m \notin raced' => m \notin raced)
      BY <2>1, <2>3, <1>6
    <3>2. ToSet(ttc[m].src.imports) \subseteq Module
      BY <3>1, ImportsAreModules DEF BuildInv
    <3> QED
      BY <2>3, <3>1, <3>2, <1>4, <1>5, <1>6, <1>8, OthersStay DEF BuildInv
  <2> QED
    BY <2>2, <2>3
<1>14. /\ Ordered' /\ Done' = Done \cup {c} /\ c \notin Done /\ ToSet(tree[c]) \subseteq Done
       /\ \A j \in Done : ToSet(tree[j]) \subseteq Done
  BY <1>1, <1>4, OrderedAdvances DEF Advance, BuildInv, Ordered
<1>15. Done \subseteq Module
  <2>1. \A m \in Module : Deps(tree)[m] \subseteq Module
    BY <1>4 DEF Deps, ToSet, BuildInv, Ordered
  <2> QED
    BY <2>1 DEF Done, Reached, Closure
<1>16. phase' = "check" /\ UNCHANGED <<tree, edited>>
  BY <1>4 DEF Advance
<1>17. Unedited'
  <2>1. SUFFICES ASSUME ~edited, NEW j \in Done'
                 PROVE  Settled(j)'
    BY <1>4, <1>12, <1>16 DEF Unedited, ImportsOf
  <2>2. \A i \in Done : i \in Module /\ ttc'[i] = ttc[i] /\ (i \in raced' <=> i \in raced)
    BY <1>6, <1>14, <1>15
  <2>3. CASE j = c
    <3>1. b.src = source[c] /\ ToSet(b.src.imports) \subseteq Done
      BY <2>1, <1>12, <1>14 DEF ImportsOf
    <3>2. new.importHashes = {<<i, ttc'[i].hash>> : i \in ToSet(new.src.imports)}
      BY <3>1, <2>2, <1>7, <1>8
    <3> QED
      BY <2>3, <3>1, <3>2, <1>4, <1>6, <1>8 DEF Settled, Present, Agrees
  <2>4. CASE j \in Done
    <3>1. Settled(j) /\ j \in Module
      BY <2>1, <2>2, <2>4, <1>12
    <3>2. ASSUME ttc[j].state = "whole", j \notin raced
          PROVE  /\ ttc[j].src = source[j]
                 /\ ttc[j].importHashes = {<<i, ttc'[i].hash>> : i \in ToSet(ttc[j].src.imports)}
      <4>1. ttc[j].src = source[j] /\ Agrees(j)
        BY <3>1, <3>2 DEF Settled
      <4>2. ToSet(ttc[j].src.imports) \subseteq Done
        BY <4>1, <3>1, <2>1, <2>4, <1>12, <1>14 DEF ImportsOf
      <4> QED
        BY <4>1, <4>2, <2>2 DEF Agrees
    <3> QED
      BY <3>1, <3>2, <2>2, <2>4, <1>4 DEF Settled, Present, Agrees
  <2> QED
    BY <2>1, <2>3, <2>4, <1>14
<1>18. Writing'
  BY <1>16 DEF Writing
<1> QED
  BY <1>11, <1>13, <1>14, <1>17, <1>18

(* The build is killed; the TTC of the current module may be torn.          *)
LEMMA KillStep ==
  ASSUME TypeOK, BuildInv, NEW t \in 1..MaxTime, Kill(t)
  PROVE  Stored' /\ Shown' /\ Ordered' /\ Unedited' /\ Writing'
<1>1. Ordered' /\ Unedited' /\ Writing'
  <2>1. Leave("idle", <<>>)
    BY DEF Kill
  <2> QED
    BY <2>1, NothingLeft DEF Idle
<1>2. UNCHANGED <<source, saved, raced>>
  BY DEF Kill
<1>3. CASE UNCHANGED ttc
  BY <1>1, <1>2, <1>3, StoredStays DEF BuildInv
<1>4. CASE /\ phase = "write" /\ Stamp(t)
           /\ ttc' = [ttc EXCEPT ![Current] = [NoTTC EXCEPT !.state = "torn", !.time = t]]
  <2>1. PICK c \in Module : c = Current
    BY <1>4 DEF TypeOK, Current
  <2>2. /\ clock \in Nat /\ t \in Nat /\ t >= clock
    <3>1. clock \in Nat
      BY DEF TypeOK
    <3> QED
      BY <3>1, <1>4 DEF Stamp
  <2>3. /\ ttc'[c].state = "torn" /\ ttc'[c].time = t
        /\ \A m \in Module : m # c => ttc'[m] = ttc[m]
    BY <1>4, <2>1 DEF TypeOK, NoTTC
  <2>4. Stored'
    BY <2>3 DEF BuildInv, Stored
  <2>5. Shown'
    <3>1. SUFFICES ASSUME NEW m \in Module, ttc'[m].state = "whole"
                   PROVE  /\ m \notin raced' /\ saved'[m] < ttc'[m].time => ttc'[m].src = source'[m]
                          /\ (\A i \in ToSet(ttc'[m].src.imports) : ttc'[i].time < ttc'[m].time)
                               => ttc'[m].importHashes = {<<i, ttc'[i].hash>> : i \in ToSet(ttc'[m].src.imports)}
                          /\ m \notin raced' => HashesShow(ttc'[m].importHashes, ttc'[m].saw)
      BY DEF Shown, Agrees
    <3>2. m # c /\ ttc[m].state = "whole" /\ (m \notin raced' => m \notin raced)
      BY <3>1, <2>3, <1>2
    <3>3. ToSet(ttc[m].src.imports) \subseteq Module
      BY <3>2, ImportsAreModules DEF BuildInv
    <3> QED
      BY <3>2, <3>3, <2>2, <2>3, <1>2, OthersStay DEF BuildInv
  <2> QED
    BY <1>1, <2>4, <2>5
<1> QED
  BY <1>3, <1>4 DEF Kill

(* A build that ends well ends with what a build from scratch makes.        *)
LEMMA CleanAtFinish ==
  ASSUME TypeOK, BuildInv, Finish
  PROVE  BuildIsAsClean'
<1> DEFINE asked == Closure(Deps(ImportsOf(source)), ToSet(files))
           pub   == [i \in Module |-> source[i].public]
           hash  == [i \in Module |-> ttc[i].hash]
           face  == [i \in Module |-> Interface(source[i].text)]
<1>1. /\ UNCHANGED <<source, ttc, raced>> /\ phase = "check" /\ todo = <<>> /\ Building
  BY DEF Finish, env, Building
<1>2. SUFFICES ASSUME phase' = "ok", ~edited', files' = files,
                      \A m \in asked : m \notin raced /\ ttc[m].state # "torn"
               PROVE  \A m \in asked :
                        /\ ttc[m].state = "whole"
                        /\ ttc[m].src = source[m]
                        /\ ttc[m].saw = CleanView(m)
                        /\ Accepts(source[m].text, CleanView(m))
  <2>1. phase' = "ok" => files' = files
    BY DEF Finish, Fail, Leave
  <2>2. \A m \in Module : CleanView(m)' = CleanView(m)
    BY <1>1 DEF CleanView
  <2>3. files' = files => Asked' = asked
    BY <1>1 DEF Asked, ImportsOf
  <2>4. asked \subseteq Module
    BY DEF Closure
  <2> HIDE DEF asked
  <2> QED
    BY <1>1, <2>1, <2>2, <2>3, <2>4 DEF BuildIsAsClean
<1>3. ~edited
  <2>1. Leave("ok", files)
    BY <1>2 DEF Finish, Fail, Leave
  <2>2. files # <<>>
    BY <1>1, BuildAssumption DEF BuildInv, Ordered
  <2> QED
    BY <1>2, <2>1, <2>2 DEF Leave
<1>4. tree = ImportsOf(source) /\ \A j \in Done : Settled(j)
  BY <1>1, <1>3 DEF BuildInv, Unedited
<1>5. Done = asked
  BY <1>1, <1>4 DEF Done, Reached, ToSet
<1>6. \A m \in Module : /\ source[m].imports \in Seq(Module)
                        /\ source[m].public \subseteq ToSet(source[m].imports)
                        /\ ToSet(source[m].imports) \subseteq Module
  <2>1. SUFFICES ASSUME NEW m \in Module, source[m].imports \in Seq(Module)
                 PROVE  ToSet(source[m].imports) \subseteq Module
    BY SourcesMakeGraph
  <2> QED
    BY <2>1 DEF ToSet
<1>7. /\ asked \subseteq Module
      /\ \A m \in asked : ToSet(source[m].imports) \subseteq asked
  <2>1. \A m \in Module : Deps(ImportsOf(source))[m] = ToSet(source[m].imports)
    BY DEF Deps, ImportsOf
  <2>2. ToSet(files) \subseteq Module
    <3>1. files \in Seq(Module)
      BY <1>1, BuildAssumption DEF BuildInv, Ordered
    <3> QED
      BY <3>1 DEF ToSet
  <2> QED
    BY <1>6, <2>1, <2>2, ClosureIsLeast
<1>8. ASSUME NEW m \in asked
      PROVE  /\ m \in Module /\ ttc[m].state = "whole" /\ ttc[m].src = source[m]
             /\ Made(ttc[m])
             /\ ttc[m].importHashes = {<<i, ttc[i].hash>> : i \in ToSet(source[m].imports)}
             /\ HashesShow(ttc[m].importHashes, ttc[m].saw)
  <2>1. m \in Module /\ Settled(m) /\ m \notin raced
    BY <1>2, <1>4, <1>5, <1>7
  <2>2. ttc[m].state = "whole"
    BY <2>1, <1>2 DEF Settled, Present, TypeOK
  <2> QED
    BY <2>1, <2>2 DEF Settled, Agrees, BuildInv, Stored, Shown
<1>9. ASSUME NEW i \in asked
      PROVE  hash[i] = <<face[i], {<<j, hash[j]>> : j \in pub[i]}>>
  <2>1. /\ i \in Module /\ pub[i] = source[i].public /\ pub[i] \subseteq Module
        /\ pub[i] \subseteq ToSet(source[i].imports)
    BY <1>6, <1>7
  <2>2. hash[i] = <<face[i], {p \in ttc[i].importHashes : p[1] \in pub[i]}>>
    BY <1>8, <2>1 DEF Made
  <2>3. {p \in ttc[i].importHashes : p[1] \in pub[i]} = {<<j, ttc[j].hash>> : j \in pub[i]}
    BY <1>8, <2>1
  <2>4. {<<j, ttc[j].hash>> : j \in pub[i]} = {<<j, hash[j]>> : j \in pub[i]}
    BY <2>1
  <2> QED
    BY <2>2, <2>3, <2>4
<1>10. \A i \in Module : pub[i] \subseteq Module
  BY <1>6
<1>11. ASSUME NEW m \in asked
       PROVE  ttc[m].saw = CleanView(m)
  <2> DEFINE ms == ToSet(source[m].imports)
             V  == Closure(pub, ms)
  <2>1. ms \subseteq asked /\ ms \subseteq Module
    BY <1>7
  <2>2. \A i \in asked : pub[i] \subseteq asked
    BY <1>6, <1>7
  <2>3. V \subseteq asked
    <3> HIDE DEF pub, asked, ms
    <3> QED
      BY ONLY <1>7, <1>10, <2>1, <2>2, ClosureIsLeast
  <2>4. \A i \in V : hash[i] = <<face[i], {<<j, hash[j]>> : j \in pub[i]}>>
    BY <2>3, <1>9
  <2>5. HashesShow({<<i, hash[i]>> : i \in ms}, {<<i, face[i]>> : i \in V})
    <3> HIDE DEF pub, hash, face, ms
    <3> QED
      BY <1>10, <2>1, <2>4, HashesShowView
  <2>6. ttc[m].importHashes = {<<i, hash[i]>> : i \in ms}
    <3>1. \A i \in ms : hash[i] = ttc[i].hash
      BY <2>1
    <3>2. ttc[m].importHashes = {<<i, ttc[i].hash>> : i \in ms}
      BY <1>8
    <3> HIDE DEF ms, hash
    <3> QED
      BY ONLY <3>1, <3>2
  <2>7. CleanView(m) = {<<i, face[i]>> : i \in V}
    <3>1. \A i \in V : face[i] = Interface(source[i].text)
      BY <2>3, <1>7
    <3>2. CleanView(m) = {<<i, Interface(source[i].text)>> : i \in V}
      BY DEF CleanView
    <3> HIDE DEF V, face
    <3> QED
      BY ONLY <3>1, <3>2
  <2>8. HashesShow(ttc[m].importHashes, ttc[m].saw) /\ HashesShow(ttc[m].importHashes, CleanView(m))
    BY <1>8, <2>5, <2>6, <2>7
  <2>9. \A e : e \in ttc[m].saw <=> e \in CleanView(m)
    BY ONLY <2>8, HashesDetermine
  <2> QED
    BY ONLY <2>9
<1> QED
  BY <1>8, <1>11 DEF Made

(* The invariant holds at first, and every step keeps it.                   *)
LEMMA BuildInvInit == Init => BuildInv /\ BuildIsAsClean
<1> SUFFICES ASSUME Init
             PROVE  BuildInv /\ BuildIsAsClean
  OBVIOUS
<1>1. phase = "idle" /\ \A m \in Module : ttc[m].state = "none" /\ ttc[m].time = 0
  BY DEF Init, NoTTC
<1> QED
  BY <1>1, TypeInit DEF BuildInv, Stored, Shown, Ordered, Unedited, Writing, Building, BuildIsAsClean

LEMMA BuildInvStep ==
  ASSUME BuildInv, [Next]_vars
  PROVE  BuildInv'
<1>1. TypeOK /\ TypeOK'
  BY TypeStep DEF BuildInv
<1>2. SUFFICES Stored' /\ Shown' /\ Ordered' /\ Unedited' /\ Writing'
  BY <1>1 DEF BuildInv
<1>3. CASE Finish
  <2>1. UNCHANGED <<source, saved, ttc, raced>> /\ (Leave("idle", <<>>) \/ Leave("ok", files))
    BY <1>3 DEF Finish, Fail, env
  <2> QED
    BY <2>1, StoredStays, NothingLeft DEF BuildInv, Idle
<1>4. CASE UNCHANGED vars
  <2>1. UNCHANGED <<source, saved, ttc, raced>> /\ UNCHANGED <<phase, files, tree, todo, text, built, edited>>
    BY <1>4 DEF vars, env, build
  <2>2. Ordered' /\ Unedited' /\ Writing'
    BY <2>1 DEF BuildInv, Ordered, Unedited, Writing, Building, Done, Reached, Settled, Agrees,
                Present, ImportsOf, Current, InView
  <2> QED
    BY <2>1, <2>2, StoredStays DEF BuildInv
<1> QED
  BY <1>1, <1>3, <1>4, SaveStep, StartStep, CheckStep, ReadStep, ProcessStep, WriteStep, KillStep DEF Next

(* Only Finish ends a build well, and a file saved later is noticed.        *)
LEMMA BuildIsAsCleanStep ==
  ASSUME BuildInv, BuildIsAsClean, [Next]_vars
  PROVE  BuildIsAsClean'
<1>1. CASE Finish
  BY <1>1, CleanAtFinish DEF BuildInv
<1>2. CASE UNCHANGED vars
  <2>1. UNCHANGED <<source, ttc, raced, phase, files, edited>>
    BY <1>2 DEF vars, env, build
  <2>2. \A m \in Module : CleanView(m)' = CleanView(m)
    BY <2>1 DEF CleanView
  <2>3. Asked' = Asked /\ Asked \subseteq Module
    BY <2>1 DEF Asked, ImportsOf, Closure
  <2> QED
    BY <2>1, <2>2, <2>3 DEF BuildIsAsClean
<1>3. ASSUME NEW m \in Module, NEW t \in 1..MaxTime, NEW s \in Sources(m), Save(m, s, t)
      PROVE  ~(phase' = "ok" /\ ~edited')
  BY <1>3 DEF Save, build
<1>4. ASSUME \/ \E fs \in Targets : Start(fs)
             \/ Check \/ Read \/ Process
             \/ \E t \in 1..MaxTime : WriteToTTC(t) \/ Kill(t)
      PROVE  phase' # "ok"
  BY <1>4 DEF Start, Check, Read, Process, WriteToTTC, Kill, Fail, Advance, Leave
<1> QED
  BY <1>1, <1>2, <1>3, <1>4 DEF Next, BuildIsAsClean

(* A build that ends well leaves what a build from scratch would make: the
   TTC of every module asked for, and of all they import, is of the present
   source and of the present interfaces of all it sees.  For any modules,
   sources, interfaces and orders of edits, builds and kills, as long as
   nothing asked for was written in, or made from, a build during which a
   file was saved (raced), or torn by a kill while it was being written:
   those two break it in the code, and BuildIsAsClean leaves them out.      *)
THEOREM BuildsMatchCleanBuilds == Spec => []Inv
<1>1. Init => BuildInv /\ BuildIsAsClean
  BY BuildInvInit
<1>2. (BuildInv /\ BuildIsAsClean) /\ [Next]_vars => (BuildInv /\ BuildIsAsClean)'
  BY BuildInvStep, BuildIsAsCleanStep
<1>3. BuildInv /\ BuildIsAsClean => Inv
  BY DEF BuildInv, Inv
<1> QED
  BY <1>1, <1>2, <1>3, PTL DEF Spec

(* A TTC is replaced only when its source was saved since it was written,
   or when it says something else than the one before.                      *)
THEOREM RebuildsHaveAReason == Spec => RebuiltForAReason
<1> DEFINE Reason == \A m \in Module :
             ttc'[m] # ttc[m] /\ ttc'[m].state = "whole"
               => saved[m] >= ttc[m].time \/ Content(ttc'[m]) # Content(ttc[m])
<1>1. ASSUME BuildInv, [Next]_vars
      PROVE  Reason
  <2>1. CASE UNCHANGED ttc
    BY <2>1
  <2>2. ASSUME NEW t \in 1..MaxTime, WriteToTTC(t)
        PROVE  Reason
    <3>1. SUFFICES ASSUME NEW m \in Module, ttc'[m] # ttc[m],
                          Content(ttc'[m]) = Content(ttc[m])
                   PROVE  saved[m] >= ttc[m].time
      OBVIOUS
    <3>2. /\ phase = "write" /\ DOMAIN ttc = Module
          /\ ttc' = [ttc EXCEPT ![Current] = [built EXCEPT !.time = t]]
      BY <1>1, <2>2 DEF WriteToTTC, BuildInv, TypeOK
    <3>3. m = Current /\ ttc'[m] = [built EXCEPT !.time = t]
      BY <3>1, <3>2
    <3>4. /\ built = [state |-> "whole", time |-> 0, src |-> built.src, saw |-> built.saw,
                      hash |-> built.hash, importHashes |-> built.importHashes]
          /\ saved[m] >= ttc[m].time \/ built.importHashes # ttc[m].importHashes
      BY <1>1, <3>2, <3>3 DEF BuildInv, Writing
    <3>5. ttc'[m].importHashes = built.importHashes
      BY <3>3, <3>4
    <3>6. ttc'[m].importHashes = ttc[m].importHashes
      BY <3>1 DEF Content
    <3> QED
      BY <3>4, <3>5, <3>6
  <2>3. ASSUME NEW t \in 1..MaxTime, Kill(t)
        PROVE  Reason
    <3>1. DOMAIN ttc = Module
      BY <1>1 DEF BuildInv, TypeOK
    <3>2. CASE ttc' = [ttc EXCEPT ![Current] = [NoTTC EXCEPT !.state = "torn", !.time = t]]
      <4>1. PICK torn : torn = [NoTTC EXCEPT !.state = "torn", !.time = t]
        OBVIOUS
      <4>2. torn.state = "torn"
        BY <4>1 DEF NoTTC
      <4>3. \A m \in Module : ttc'[m] = ttc[m] \/ ttc'[m] = torn
        BY ONLY <3>1, <3>2, <4>1
      <4> QED
        BY ONLY <4>2, <4>3
    <3> QED
      BY <2>3, <2>1, <3>2 DEF Kill
  <2>4. ASSUME \/ \E m \in Module, t \in 1..MaxTime : \E s \in Sources(m) : Save(m, s, t)
               \/ \E fs \in Targets : Start(fs)
               \/ Check \/ Read \/ Process \/ Finish \/ UNCHANGED vars
        PROVE  UNCHANGED ttc
    BY <2>4 DEF Save, Start, Check, Read, Process, Finish, vars
  <2> QED
    BY <1>1, <2>1, <2>2, <2>3, <2>4 DEF Next
<1>2. Init => BuildInv
  BY BuildInvInit
<1>3. BuildInv /\ [Next]_vars => BuildInv'
  BY BuildInvStep
<1>4. BuildInv /\ [Next]_vars => [Reason]_vars
  BY <1>1
<1> QED
  BY <1>2, <1>3, <1>4, PTL DEF Spec, RebuiltForAReason

=============================================================================
