------------------------ MODULE RefCGeneratorProofs ------------------------
(***************************************************************************)
(* Proofs about RefCGenerator: on every path through every function the    *)
(* emitted code gives back exactly what it holds (Inv) and uses nothing it *)
(* does not hold (UsesAreHeld).                                            *)
(*                                                                         *)
(* The invariant looks at one variable at a time, and tells the term the   *)
(* function has come to apart from the bodies of the lets around it: all   *)
(* but ALet and the end of a value leave the latter alone.                 *)
(***************************************************************************)
EXTENDS RefCGenerator, FiniteSetTheorems, TLAPS

Cells == {"unset", "cell", "NULL", "filled"}

Holding == [refs : [Var -> Int], cell : [Var -> Cells],
            null : SUBSET Var, lost : SUBSET Var, ok : BOOLEAN]

Terms == [vars : SUBSET Var, cons : SUBSET Name]
ReuseMaps == UNION {[S -> Var] : S \in SUBSET Name}
Envs  == [owned : SUBSET Var, reuse : ReuseMaps]
Lets  == [var : Var, body : Terms, env : Envs]

\* Bound: the variables that have a value; those of the lets around do not yet.
Pending == {lets[i].var : i \in DOMAIN lets}
Bound   == (1 .. next - 1) \ Pending

OneName(map) == \A m, n \in DOMAIN map : map[m] = map[n] => m = n

Fits(e, t) ==
  /\ e.owned \subseteq t.vars
  /\ DOMAIN e.reuse \subseteq t.cons
  /\ OneName(e.reuse)

LetFits(i) ==
  /\ Fits(lets[i].env, lets[i].body)
  /\ lets[i].var < next
  /\ lets[i].var \in lets[i].body.vars => lets[i].var \in lets[i].env.owned
  /\ lets[i].body.vars \ {lets[i].var} \subseteq Bound
  /\ \A j \in DOMAIN lets : lets[i].var = lets[j].var => i = j

Shape ==
  /\ status \in {"called", "runs", "returned"}
  /\ next \in 1 .. MaxVar + 1
  /\ term \in Terms
  /\ env \in Envs
  /\ lets \in Seq(Lets)
  /\ held \in Holding
  /\ Fits(env, term)
  /\ term.vars \subseteq Bound
  /\ \A i \in DOMAIN lets : LetFits(i)

NoEnv  == [owned |-> {}, reuse |-> <<>>]
NoTerm == Term({}, {})

Lifecycle ==
  /\ status = "called" => lets = <<>> /\ env = NoEnv /\ held = NothingHeld
  /\ status = "returned" => lets = <<>> /\ env = NoEnv /\ term = NoTerm

\* The bodies of the lets around that own v, where its cell waits, that name v.
Owning(v) == {i \in DOMAIN lets : v \in lets[i].env.owned \ {lets[i].var}}
Saving(v) == {i \in DOMAIN lets : v \in Values(lets[i].env.reuse)}
Naming(v) == {i \in DOMAIN lets : v \in lets[i].body.vars \ {lets[i].var}}

AtMostOne(S) == \A i, j \in S : i = j

\* What is held by v when e and t are here and O own it, W keep its cell and
\* N name it further on.
Counted(v, h, e, O) ==
  /\ v \notin h.null =>
       h.refs[v] = (IF O = {} /\ v \notin e.owned THEN 0 ELSE 1) + (IF v \in h.lost THEN 1 ELSE 0)
  /\ v \in h.null => h.refs[v] > 0
  /\ v \in h.lost => O = {} /\ v \notin e.owned

OwnedOnce(v, e, O) == AtMostOne(O) /\ (v \in e.owned => O = {})

CellOnce(v, h, e, O, W) ==
  /\ AtMostOne(W)
  /\ v \in Values(e.reuse) => W = {}
  /\ h.cell[v] \in WaitingCell <=> W # {} \/ v \in Values(e.reuse)
  /\ W # {} \/ v \in Values(e.reuse) => O = {} /\ v \notin e.owned

\* A body further on is reached only after those inside it have been left, so
\* its variables are owned by itself or by one further out.
NamedHeld(v, h, e, t, O, N) ==
  v \notin h.null =>
    /\ \A i \in N : \E j \in O : j <= i
    /\ v \in t.vars => v \in e.owned \/ O # {}

VarInv(v, h, e, t, O, W, N) ==
  /\ Counted(v, h, e, O)
  /\ OwnedOnce(v, e, O)
  /\ CellOnce(v, h, e, O, W)
  /\ NamedHeld(v, h, e, t, O, N)

\* A variable without a value holds nothing.
Fresh(v, h) ==
  /\ h.refs[v] = 0 /\ v \notin h.null /\ v \notin h.lost
  /\ h.cell[v] \notin WaitingCell

Each(h, e, t) ==
  \A v \in Var : /\ VarInv(v, h, e, t, Owning(v), Saving(v), Naming(v))
                 /\ v \notin Bound => Fresh(v, h)

AllHeld == Each(held, env, term)

GenInv ==
  /\ Shape
  /\ Lifecycle
  /\ status # "called" => AllHeld
  /\ held.ok

------------------------------------------------------------------------------
(* What the operators do to what is held *)

\* Only references change, and every use was of something held.
SameButRefs(h, r) ==
  /\ r \in Holding
  /\ r.cell = h.cell /\ r.null = h.null /\ r.lost = h.lost
  /\ r.ok

\* One reference less by each variable of S that is not NULL.
Spends(h, r, S) ==
  /\ SameButRefs(h, r)
  /\ \A v \in Var : r.refs[v] = h.refs[v] - (IF v \in S \ h.null THEN 1 ELSE 0)

\* RemoveVars gives back one reference by each of its variables.
LEMMA RemoveVarsSpends ==
  ASSUME NEW h \in Holding, NEW S \in SUBSET Var, h.ok,
         \A v \in S \ h.null : h.refs[v] >= 1
  PROVE  Spends(h, RemoveVars(h, S), S)
<1> DEFINE n == [v \in S |-> -1]
           r == RemoveVars(h, S)
<1>1. /\ DOMAIN Once(S) = S
      /\ \A v \in S : Once(S)[v] = 1 /\ -Once(S)[v] = -1
  BY DEF Once
<1>2. Adds(h, n) = [v \in Var |-> h.refs[v] + IF v \in S \ h.null THEN -1 ELSE 0]
  BY DEF Adds
<1>3. [v \in DOMAIN Once(S) |-> -Once(S)[v]] = n
  BY <1>1
<1>4. r = [h EXCEPT !.refs = Adds(h, n),
                    !.ok = @ /\ \A v \in S \ h.null : h.refs[v] >= Once(S)[v]]
  BY <1>1, <1>3 DEF RemoveVars, GiveBack
<1>5. \A v \in S \ h.null : h.refs[v] >= Once(S)[v]
  BY <1>1
<1>6. Adds(h, n) \in [Var -> Int] /\ \A v \in Var : Adds(h, n)[v] = h.refs[v] - (IF v \in S \ h.null THEN 1 ELSE 0)
  BY <1>2 DEF Holding
<1> HIDE DEF n
<1>7. /\ r \in Holding /\ r.refs = Adds(h, n)
      /\ r.cell = h.cell /\ r.null = h.null /\ r.lost = h.lost /\ r.ok
  BY <1>4, <1>5, <1>6 DEF Holding
<1> QED
  BY <1>6, <1>7 DEF Spends, SameButRefs

\* Using what is held changes nothing.
LEMMA UseHeld ==
  ASSUME NEW h \in Holding, NEW S \in SUBSET Var, h.ok, Holds(h, S)
  PROVE  Use(h, S) = h
  BY DEF Use, Holding

\* The arguments of a call, however often each occurs, cost one reference by
\* each that is owned.
LEMMA ArgumentsSpend ==
  ASSUME NEW h \in Holding, NEW D \in SUBSET Var, NEW args \in [D -> Nat \ {0}],
         NEW owned \in SUBSET D, h.ok, Holds(h, D)
  PROVE  Spends(h, GiveBack(Arguments(h, owned, args), args), owned)
<1> DEFINE n == [v \in D |-> IF v \in owned THEN args[v] - 1 ELSE args[v]]
           m == [v \in D |-> -args[v]]
           d == Arguments(h, owned, args)
           r == GiveBack(d, args)
<1>1. DOMAIN args = D /\ DOMAIN n = D /\ DOMAIN m = D
  OBVIOUS
<1>2. d = [h EXCEPT !.refs = Adds(h, n)]
  BY <1>1, UseHeld DEF Arguments, Dup
<1>3. /\ Adds(h, n) \in [Var -> Int]
      /\ \A v \in Var : Adds(h, n)[v] =
           h.refs[v] + IF v \in D \ h.null THEN (IF v \in owned THEN args[v] - 1 ELSE args[v]) ELSE 0
  BY <1>1 DEF Adds, Holding
<1> HIDE DEF n
<1>4. /\ d \in Holding /\ d.refs = Adds(h, n)
      /\ d.cell = h.cell /\ d.null = h.null /\ d.lost = h.lost /\ d.ok
  BY <1>2, <1>3 DEF Holding
<1> HIDE DEF d
<1>5. r = [d EXCEPT !.refs = Adds(d, m),
                    !.ok = @ /\ \A v \in D \ d.null : d.refs[v] >= args[v]]
  BY <1>1 DEF GiveBack
<1>6. /\ Adds(d, m) \in [Var -> Int]
      /\ \A v \in Var : Adds(d, m)[v] = d.refs[v] + IF v \in D \ d.null THEN -args[v] ELSE 0
  BY <1>1, <1>4 DEF Adds, Holding
<1> HIDE DEF m
<1>7. \A v \in D \ d.null : d.refs[v] >= args[v]
  <2> SUFFICES ASSUME NEW v \in D \ d.null PROVE d.refs[v] >= args[v]
    OBVIOUS
  <2>1. h.refs[v] > 0 /\ h.refs[v] \in Int /\ args[v] \in Nat
    BY <1>4 DEF Holds, Holding
  <2>2. d.refs[v] = h.refs[v] + IF v \in owned THEN args[v] - 1 ELSE args[v]
    BY <1>3, <1>4
  <2> QED
    BY <2>1, <2>2
<1>8. /\ r \in Holding /\ r.refs = Adds(d, m)
      /\ r.cell = d.cell /\ r.null = d.null /\ r.lost = d.lost /\ r.ok
  BY <1>4, <1>5, <1>6, <1>7 DEF Holding
<1>9. \A v \in Var : r.refs[v] = h.refs[v] - (IF v \in owned \ h.null THEN 1 ELSE 0)
  <2> SUFFICES ASSUME NEW v \in Var
               PROVE  r.refs[v] = h.refs[v] - (IF v \in owned \ h.null THEN 1 ELSE 0)
    OBVIOUS
  <2>1. r.refs[v] = d.refs[v] + IF v \in D \ h.null THEN -args[v] ELSE 0
    BY <1>4, <1>6, <1>8
  <2>2. d.refs[v] = h.refs[v] + IF v \in D \ h.null THEN (IF v \in owned THEN args[v] - 1 ELSE args[v]) ELSE 0
    BY <1>3, <1>4
  <2>3. h.refs[v] \in Int /\ (v \in D => args[v] \in Nat)
    BY DEF Holding
  <2> QED
    BY <2>1, <2>2, <2>3
<1> QED
  BY <1>4, <1>8, <1>9 DEF Spends, SameButRefs, d

\* A reference more by each of gets, one less by each of gives.
Changes(h, r, gets, gives, forgets) ==
  /\ r \in Holding
  /\ r.null = h.null /\ r.lost = h.lost \cup forgets
  /\ r.ok
  /\ \A v \in Var : r.refs[v] = h.refs[v] + (IF v \in gets THEN 1 ELSE 0)
                                          - (IF v \in gives \ h.null THEN 1 ELSE 0)

\* Fields of a shared cell: those that are used are counted, while the cell is
\* still there, before what is not used is given back.
LEMMA OpenSharedChanges ==
  ASSUME NEW h \in Holding, NEW sc \in Var, NEW fields \in SUBSET Var, NEW drop \in SUBSET Var,
         h.ok, h.refs[sc] > 0,
         \A v \in drop \ (fields \cup h.null) : h.refs[v] >= 1
  PROVE  LET r == OpenShared(h, sc, fields, drop)
         IN  Changes(h, r, fields \ drop, drop \ fields, {}) /\ r.cell = h.cell
<1> DEFINE d == DupFields(h, fields \ drop, sc)
           r == OpenShared(h, sc, fields, drop)
           bound == [v \in Var |-> h.refs[v] + IF v \in fields \ drop THEN 1 ELSE 0]
<1>1. d = [h EXCEPT !.refs = bound]
  BY DEF DupFields, Bind, Holding
<1>2. bound \in [Var -> Int]
  BY DEF Holding
<1>3. /\ d \in Holding /\ d.refs = bound
      /\ d.cell = h.cell /\ d.null = h.null /\ d.lost = h.lost /\ d.ok
  BY <1>1, <1>2 DEF Holding
<1>t. \A v \in Var : h.refs[v] \in Int
  BY DEF Holding
<1>s. \A v \in Var : d.refs[v] = h.refs[v] + (IF v \in fields \ drop THEN 1 ELSE 0)
  BY <1>3
<1> HIDE DEF d, bound
<1>4. \A v \in (drop \ fields) \ d.null : d.refs[v] >= 1
  BY <1>3, <1>s, <1>t
<1>5. Spends(d, r, drop \ fields)
  BY <1>3, <1>4, RemoveVarsSpends DEF OpenShared, d
<1> HIDE DEF r
<1>6. \A v \in Var : r.refs[v] = h.refs[v] + (IF v \in fields \ drop THEN 1 ELSE 0)
                                           - (IF v \in (drop \ fields) \ h.null THEN 1 ELSE 0)
  BY <1>3, <1>5, <1>s, <1>t DEF Spends
<1>7. /\ r \in Holding /\ r.null = h.null /\ r.lost = h.lost \cup {} /\ r.ok /\ r.cell = h.cell
  BY <1>3, <1>5 DEF Spends, SameButRefs
<1> QED
  BY <1>6, <1>7 DEF Changes, r

\* Fields of a cell taken for reuse: they get the references of the cell, and
\* those of fields that are not used are forgotten.
LEMMA OpenUniqueChanges ==
  ASSUME NEW h \in Holding, NEW sc \in Var, NEW fields \in SUBSET Var, NEW drop \in SUBSET Var,
         h.ok, h.refs[sc] > 0, sc \notin h.null, sc \in drop, sc \notin fields,
         \A v \in drop \ (fields \cup h.null) : h.refs[v] >= 1
  PROVE  LET r == OpenUnique(h, sc, fields, drop)
         IN  /\ Changes(h, r, fields, drop \ fields, fields \cap drop)
             /\ \A v \in Var : r.cell[v] = IF v = sc THEN "cell" ELSE h.cell[v]
<1> DEFINE a == RemoveVars(h, {sc})
           b == SetCells(a, {sc}, "cell")
           c == Forget(Bind(b, fields), fields \cap drop)
           S == drop \ (fields \cup {sc})
           r == OpenUnique(h, sc, fields, drop)
           cells == [v \in Var |-> IF v = sc THEN "cell" ELSE h.cell[v]]
           bound == [v \in Var |-> a.refs[v] + IF v \in fields THEN 1 ELSE 0]
<1>1. Spends(h, a, {sc})
  <2>1. \A v \in {sc} \ h.null : h.refs[v] >= 1
    BY DEF Holding
  <2> QED
    BY <2>1, RemoveVarsSpends
<1> HIDE DEF a
<1>2. /\ a \in Holding /\ a.cell = h.cell /\ a.null = h.null /\ a.lost = h.lost /\ a.ok
      /\ \A v \in Var : a.refs[v] = h.refs[v] - (IF v = sc THEN 1 ELSE 0)
  BY <1>1 DEF Spends, SameButRefs
<1>3. /\ b = [a EXCEPT !.cell = cells]
      /\ cells \in [Var -> Cells]
  BY <1>2 DEF SetCells, Holding, Cells
<1> HIDE DEF cells
<1>4. /\ b \in Holding /\ b.refs = a.refs /\ b.cell = cells
      /\ b.null = h.null /\ b.lost = h.lost /\ b.ok
  BY <1>2, <1>3 DEF Holding
<1> HIDE DEF b
<1>b. /\ Bind(b, fields) = [b EXCEPT !.refs = bound]
      /\ bound \in [Var -> Int]
  BY <1>2, <1>4 DEF Bind, Holding
<1>t. \A v \in Var : h.refs[v] \in Int
  BY DEF Holding
<1>6. \A v \in Var : bound[v] = h.refs[v] - (IF v = sc THEN 1 ELSE 0) + (IF v \in fields THEN 1 ELSE 0)
  BY <1>2, <1>t
<1> HIDE DEF bound
<1>7. /\ c \in Holding /\ c.refs = bound /\ c.cell = cells /\ c.null = h.null
      /\ c.lost = h.lost \cup (fields \cap drop) /\ c.ok
  BY <1>4, <1>b DEF Holding, Forget
<1> HIDE DEF c
<1>8. \A v \in S \ c.null : c.refs[v] >= 1
  BY <1>6, <1>7 DEF Holding
<1>9. Spends(c, r, S)
  BY <1>7, <1>8, RemoveVarsSpends DEF OpenUnique, c, b, a
<1> HIDE DEF r
<1>10. \A v \in Var : r.refs[v] = h.refs[v] + (IF v \in fields THEN 1 ELSE 0)
                                            - (IF v \in (drop \ fields) \ h.null THEN 1 ELSE 0)
  <2> SUFFICES ASSUME NEW v \in Var
               PROVE  r.refs[v] = h.refs[v] + (IF v \in fields THEN 1 ELSE 0)
                                            - (IF v \in (drop \ fields) \ h.null THEN 1 ELSE 0)
    OBVIOUS
  <2>1. r.refs[v] = h.refs[v] - (IF v = sc THEN 1 ELSE 0) + (IF v \in fields THEN 1 ELSE 0)
                              - (IF v \in S \ h.null THEN 1 ELSE 0)
    <3>1. r.refs[v] = c.refs[v] - (IF v \in S \ c.null THEN 1 ELSE 0)
      BY <1>9 DEF Spends
    <3>2. c.refs[v] = h.refs[v] - (IF v = sc THEN 1 ELSE 0) + (IF v \in fields THEN 1 ELSE 0)
      BY <1>6, <1>7
    <3>3. c.null = h.null
      BY <1>7
    <3> HIDE DEF S
    <3> QED
      BY <3>1, <3>2, <3>3, <1>t
  <2>2. h.refs[v] \in Int
    BY DEF Holding
  <2> QED
    BY <2>1, <2>2
<1>11. /\ r \in Holding /\ r.null = h.null /\ r.lost = h.lost \cup (fields \cap drop) /\ r.ok
       /\ r.cell = cells
  BY <1>7, <1>9 DEF Spends, SameButRefs
<1>a. \A v \in Var : r.cell[v] = IF v = sc THEN "cell" ELSE h.cell[v]
  BY <1>11 DEF cells
<1> QED
  BY <1>10, <1>11, <1>a DEF Changes, r

\* Cells that were waiting stop waiting, and nothing else changes.
LEMMA EndWaitFacts ==
  ASSUME NEW h \in Holding, NEW S \in SUBSET Var, NEW c \in {"unset", "filled"},
         h.ok, \A v \in S : h.cell[v] \in WaitingCell
  PROVE  LET r == EndWait(h, S, c)
         IN  /\ r \in Holding
             /\ r.refs = h.refs /\ r.null = h.null /\ r.lost = h.lost /\ r.ok
             /\ \A v \in Var : r.cell[v] = IF v \in S THEN c ELSE h.cell[v]
<1> DEFINE cells == [v \in Var |-> IF v \in S THEN c ELSE h.cell[v]]
<1>1. EndWait(h, S, c) = [h EXCEPT !.cell = cells]
  BY DEF EndWait, SetCells, Holding
<1>2. cells \in [Var -> Cells]
  BY DEF Holding, Cells
<1>3. \A v \in Var : cells[v] = IF v \in S THEN c ELSE h.cell[v]
  OBVIOUS
<1> HIDE DEF cells
<1> QED
  BY <1>1, <1>2, <1>3 DEF Holding

------------------------------------------------------------------------------
(* Ends of a path through a value *)

LEMMA NoEnvFacts ==
  /\ NoEnv.owned = {} /\ NoEnv.reuse = <<>> /\ DOMAIN <<>> = {}
  /\ Values(NoEnv.reuse) = {} /\ NoTerm.vars = {} /\ NoTerm.cons = {}
  /\ NoEnv \in Envs /\ NoTerm \in Terms
  /\ Fits(NoEnv, NoTerm)
<1>1. /\ NoEnv.owned = {} /\ NoEnv.reuse = <<>> /\ DOMAIN <<>> = {}
      /\ NoTerm.vars = {} /\ NoTerm.cons = {}
  BY DEF NoEnv, NoTerm, Term
<1>2. <<>> \in [{} -> Var]
  OBVIOUS
<1>3. NoEnv \in Envs /\ NoTerm \in Terms
  BY <1>1, <1>2 DEF NoEnv, NoTerm, Envs, ReuseMaps, Terms, Term
<1> QED
  BY <1>1, <1>3 DEF Values, Fits, OneName

\* A value uses up what it owns and the cells kept for it: here gives are
\* references handed over or given back, and the others are forgotten.
LEMMA ValueUsesUp ==
  ASSUME NEW v \in Var, NEW h \in Holding, NEW r \in Holding, NEW e \in Envs, NEW t,
         NEW O, NEW W, NEW N,
         VarInv(v, h, e, t, O, W, N),
         r.null = h.null,
         \/ r.lost = h.lost /\ r.refs[v] = h.refs[v] - (IF v \in e.owned \ h.null THEN 1 ELSE 0)
         \/ r.lost = h.lost \cup e.owned /\ r.refs[v] = h.refs[v],
         r.cell[v] \in WaitingCell <=> h.cell[v] \in WaitingCell /\ v \notin Values(e.reuse)
  PROVE  VarInv(v, r, NoEnv, NoTerm, O, W, N)
<1>1. h.refs[v] \in Int
  BY DEF Holding
<1>2. Counted(v, r, NoEnv, O)
  <2>1. Counted(v, h, e, O) /\ OwnedOnce(v, e, O)
    BY DEF VarInv
  <2> QED
    BY <1>1, <2>1, NoEnvFacts DEF Counted, OwnedOnce
<1>3. OwnedOnce(v, NoEnv, O)
  BY NoEnvFacts DEF OwnedOnce, VarInv
<1>4. CellOnce(v, r, NoEnv, O, W)
  BY NoEnvFacts DEF CellOnce, VarInv
<1>5. NamedHeld(v, r, NoEnv, NoTerm, O, N)
  BY NoEnvFacts DEF NamedHeld, VarInv
<1> QED
  BY <1>2, <1>3, <1>4, <1>5 DEF VarInv

\* The let body that comes next owns what it held already, and its own variable.
LEMMA BodyTakesOver ==
  ASSUME NEW v \in Var, NEW x \in Var, NEW h \in Holding, NEW r \in Holding,
         NEW e \in Envs, NEW t \in Terms,
         NEW n \in Nat \ {0}, NEW O \in SUBSET (1 .. n), NEW W \in SUBSET (1 .. n), NEW N \in SUBSET (1 .. n),
         VarInv(v, h, NoEnv, NoTerm, O, W, N),
         v = x => Fresh(v, h),
         r.null = h.null, r.lost = h.lost, r.cell[v] = h.cell[v],
         r.refs[v] = h.refs[v] + IF v = x /\ x \in t.vars THEN 1 ELSE 0,
         Fits(e, t), x \in t.vars => x \in e.owned,
         n \in O <=> v \in e.owned \ {x},
         n \in W <=> v \in Values(e.reuse),
         n \in N <=> v \in t.vars \ {x}
  PROVE  VarInv(v, r, e, t, O \ {n}, W \ {n}, N \ {n})
<1>1. h.refs[v] \in Int
  BY DEF Holding
<1>2. /\ Counted(v, h, NoEnv, O) /\ OwnedOnce(v, NoEnv, O)
      /\ CellOnce(v, h, NoEnv, O, W) /\ NamedHeld(v, h, NoEnv, NoTerm, O, N)
  BY DEF VarInv
<1>3. v = x => O = {} /\ W = {} /\ N = {} /\ v \notin h.null /\ v \notin h.lost /\ h.refs[v] = 0
  <2>1. ASSUME v = x PROVE v \notin h.null /\ v \notin h.lost /\ h.refs[v] = 0 /\ h.cell[v] \notin WaitingCell
    BY <2>1 DEF Fresh
  <2>2. ASSUME v = x PROVE O = {}
    BY <1>2, <2>1, <2>2 DEF Counted
  <2>3. ASSUME v = x PROVE W = {}
    BY <1>2, <2>1, <2>3 DEF CellOnce
  <2>4. ASSUME v = x PROVE N = {}
    BY <1>2, <2>1, <2>2, <2>4 DEF NamedHeld
  <2> QED
    BY <2>1, <2>2, <2>3, <2>4
<1>4. n \in O => O = {n}
  BY <1>2 DEF OwnedOnce, AtMostOne
<1>5. n \in W => W = {n}
  BY <1>2 DEF CellOnce, AtMostOne
<1>6. e.owned \subseteq t.vars
  BY DEF Fits
<1>7. Counted(v, r, e, O \ {n})
  <2>1. CASE v = x
    BY <2>1, <1>1, <1>3, <1>6 DEF Counted
  <2>2. CASE v # x
    <3>1. (O \ {n} = {} /\ v \notin e.owned) <=> O = {}
      BY <2>2, <1>4
    <3>2. r.refs[v] = h.refs[v] /\ r.null = h.null /\ r.lost = h.lost
      BY <2>2, <1>1
    <3>3. /\ v \notin h.null =>
               h.refs[v] = (IF O = {} THEN 0 ELSE 1) + (IF v \in h.lost THEN 1 ELSE 0)
          /\ v \in h.null => h.refs[v] > 0
          /\ v \in h.lost => O = {}
      BY <1>2, NoEnvFacts DEF Counted
    <3> QED
      BY <3>1, <3>2, <3>3 DEF Counted
  <2> QED
    BY <2>1, <2>2
<1>8. OwnedOnce(v, e, O \ {n})
  BY <1>2, <1>3, <1>4 DEF OwnedOnce, AtMostOne
<1>9. CellOnce(v, r, e, O \ {n}, W \ {n})
  <2>1. (W \ {n} # {} \/ v \in Values(e.reuse)) <=> W # {}
    BY <1>5
  <2>2. W # {} => O = {} /\ v # x
    BY <1>2, <1>3 DEF CellOnce
  <2>3. v \in Values(e.reuse) => W \ {n} = {}
    BY <1>5
  <2>4. W # {} => O \ {n} = {} /\ v \notin e.owned
    BY <2>2
  <2>5. h.cell[v] \in WaitingCell <=> W # {}
    BY <1>2, NoEnvFacts DEF CellOnce
  <2>6. AtMostOne(W \ {n})
    BY <1>2 DEF CellOnce, AtMostOne
  <2> QED
    BY <2>1, <2>3, <2>4, <2>5, <2>6 DEF CellOnce
<1>10. NamedHeld(v, r, e, t, O \ {n}, N \ {n})
  <2> SUFFICES ASSUME v \notin h.null
               PROVE  /\ \A i \in N \ {n} : \E j \in O \ {n} : j <= i
                      /\ v \in t.vars => v \in e.owned \/ O \ {n} # {}
    BY DEF NamedHeld
  <2>1. \A i \in N : \E j \in O : j <= i
    BY <1>2 DEF NamedHeld
  <2>2. ASSUME NEW i \in N \ {n} PROVE \E j \in O \ {n} : j <= i
    <3>1. PICK j \in O : j <= i
      BY <2>1
    <3>2. j # n
      BY <3>1
    <3> QED
      BY <3>1, <3>2
  <2>3. ASSUME v \in t.vars, v # x PROVE v \in e.owned \/ O \ {n} # {}
    <3>1. PICK j \in O : j <= n
      BY <2>1, <2>3
    <3> QED
      BY <3>1, <2>3
  <2> QED
    BY <2>2, <2>3
<1> QED
  BY <1>7, <1>8, <1>9, <1>10 DEF VarInv

\* A let binds its variable to what the value left, and gives that back if the
\* body does not use it.
LEMMA BindFacts ==
  ASSUME NEW h \in Holding, NEW x \in Var, NEW t \in Terms, h.ok, h.refs[x] = 0, x \notin h.null
  PROVE  LET r == RemoveVars(Bind(h, {x}), {x} \ t.vars)
         IN  /\ SameButRefs(h, r)
             /\ \A v \in Var : r.refs[v] = h.refs[v] + IF v = x /\ x \in t.vars THEN 1 ELSE 0
<1> DEFINE b == Bind(h, {x})
           S == {x} \ t.vars
           bound == [v \in Var |-> h.refs[v] + IF v = x THEN 1 ELSE 0]
<1>1. b = [h EXCEPT !.refs = bound] /\ bound \in [Var -> Int]
  BY DEF Bind, Holding
<1>2. \A v \in Var : bound[v] = h.refs[v] + IF v = x THEN 1 ELSE 0
  OBVIOUS
<1> HIDE DEF bound
<1>3. /\ b \in Holding /\ b.refs = bound
      /\ b.cell = h.cell /\ b.null = h.null /\ b.lost = h.lost /\ b.ok
  BY <1>1 DEF Holding
<1> HIDE DEF b
<1>4. Spends(b, RemoveVars(b, S), S)
  BY <1>2, <1>3, RemoveVarsSpends
<1>5. \A v \in Var : h.refs[v] \in Int
  BY DEF Holding
<1> DEFINE r == RemoveVars(b, S)
<1>6. \A v \in Var : r.refs[v] = b.refs[v] - (IF v \in S \ b.null THEN 1 ELSE 0)
  BY <1>4 DEF Spends
<1>7. SameButRefs(h, r)
  BY <1>3, <1>4 DEF Spends, SameButRefs
<1> HIDE DEF r
<1>8. \A v \in Var : r.refs[v] = h.refs[v] + IF v = x /\ x \in t.vars THEN 1 ELSE 0
  <2> SUFFICES ASSUME NEW v \in Var
               PROVE  r.refs[v] = h.refs[v] + IF v = x /\ x \in t.vars THEN 1 ELSE 0
    OBVIOUS
  <2>1. b.refs[v] = h.refs[v] + IF v = x THEN 1 ELSE 0
    BY <1>2, <1>3
  <2>2. v \in S \ b.null <=> v = x /\ x \notin t.vars
    BY <1>3
  <2> QED
    BY <1>5, <1>6, <2>1, <2>2
<1> QED
  BY <1>7, <1>8 DEF b, r

\* Each binder takes up its variable when the value is there, or the function
\* returns; both keep the invariant.
LEMMA DeliverKeeps ==
  ASSUME GenInv, NEW h \in Holding, h.ok, Each(h, NoEnv, NoTerm), Deliver(h)
  PROVE  GenInv'
<1> USE DEF GenInv
<1>1. CASE lets = <<>>
  <2>1. /\ status' = "returned" /\ held' = h /\ env' = NoEnv /\ term' = NoTerm
        /\ next' = next /\ lets' = lets
    BY <1>1 DEF Deliver, NoEnv, NoTerm
  <2>2. DOMAIN lets = {}
    BY <1>1
  <2>3. Shape'
    BY <2>1, <2>2, NoEnvFacts DEF Shape
  <2>4. Lifecycle'
    BY <1>1, <2>1 DEF Lifecycle
  <2>5. AllHeld'
    <3> SUFFICES ASSUME NEW v \in Var
                 PROVE  /\ VarInv(v, held', env', term', Owning(v)', Saving(v)', Naming(v)')
                        /\ v \notin Bound' => Fresh(v, held')
      BY DEF AllHeld, Each
    <3>1. Owning(v)' = Owning(v) /\ Saving(v)' = Saving(v) /\ Naming(v)' = Naming(v) /\ Bound' = Bound
      BY <2>1 DEF Owning, Saving, Naming, Bound, Pending
    <3> QED
      BY <2>1, <3>1 DEF Each
  <2> QED
    BY <2>1, <2>3, <2>4, <2>5
<1>2. CASE lets # <<>>
  <2> DEFINE n == Len(lets)
             l == lets[n]
             x == l.var
             t == l.body
  <2>1. /\ lets \in Seq(Lets) /\ n \in Nat \ {0} /\ n \in DOMAIN lets /\ DOMAIN lets = 1 .. n
        /\ l \in Lets
    BY <1>2 DEF Shape
  <2>2. /\ x \in Var /\ t \in Terms /\ l.env \in Envs
    BY <2>1 DEF Lets
  <2>3. /\ held' = RemoveVars(Bind(h, {x}), {x} \ t.vars)
        /\ term' = t /\ env' = l.env /\ status' = status
        /\ lets' = SubSeq(lets, 1, n - 1) /\ next' = next /\ status = "runs"
    BY <1>2 DEF Deliver, Continue
  <2>4. /\ DOMAIN lets' = 1 .. n - 1 /\ lets' \in Seq(Lets)
        /\ \A i \in DOMAIN lets' : i \in DOMAIN lets /\ i # n /\ lets'[i] = lets[i]
    BY <2>1, <2>3
  <2>5. /\ LetFits(n) /\ \A i \in DOMAIN lets : LetFits(i)
    BY <2>1 DEF Shape
  <2> HIDE DEF n
  <2>6. Pending' = Pending \ {x} /\ x \in Pending
    <3>1. \A i \in DOMAIN lets : lets[i].var = x => i = n
      BY <2>1, <2>5 DEF LetFits
    <3>2. \A i \in DOMAIN lets : i # n => i \in DOMAIN lets'
      BY <2>1, <2>4
    <3> QED
      BY <2>1, <2>4, <3>1, <3>2 DEF Pending
  <2>7. Bound' = Bound \cup {x}
    <3>1. x \in 1 .. next - 1
      BY <2>2, <2>5 DEF LetFits, Var, Shape
    <3> QED
      BY <2>3, <2>6, <3>1 DEF Bound
  <2>8. Fresh(x, h)
    BY <2>2, <2>6 DEF Each, Bound
  <2> DEFINE r == RemoveVars(Bind(h, {x}), {x} \ t.vars)
  <2>9. /\ SameButRefs(h, r)
        /\ \A v \in Var : r.refs[v] = h.refs[v] + IF v = x /\ x \in t.vars THEN 1 ELSE 0
    BY <2>2, <2>8, BindFacts DEF Fresh
  <2>10. held' = r
    BY <2>3
  <2> HIDE DEF r
  <2>11. /\ Fits(l.env, t) /\ (x \in t.vars => x \in l.env.owned) /\ t.vars \subseteq Bound \cup {x}
    BY <2>5 DEF LetFits
  <2>12. Shape'
    <3>1. \A i \in DOMAIN lets' : LetFits(i)'
      <4> SUFFICES ASSUME NEW i \in DOMAIN lets' PROVE LetFits(i)'
        OBVIOUS
      <4>1. LetFits(i) /\ lets'[i] = lets[i]
        BY <2>4, <2>5
      <4>2. \A j \in DOMAIN lets' : lets'[j] = lets[j] /\ j \in DOMAIN lets
        BY <2>4
      <4> QED
        BY <2>3, <2>7, <4>1, <4>2 DEF LetFits
    <3>2. held' \in Holding
      BY <2>9, <2>10 DEF SameButRefs
    <3> QED
      BY <2>2, <2>3, <2>4, <2>7, <2>11, <3>1, <3>2 DEF Shape
  <2>13. Lifecycle'
    BY <2>3 DEF Lifecycle
  <2>14. AllHeld'
    <3> SUFFICES ASSUME NEW v \in Var
                 PROVE  /\ VarInv(v, held', env', term', Owning(v)', Saving(v)', Naming(v)')
                        /\ v \notin Bound' => Fresh(v, held')
      BY DEF AllHeld, Each
    <3>1. /\ Owning(v)' = Owning(v) \ {n} /\ Saving(v)' = Saving(v) \ {n}
          /\ Naming(v)' = Naming(v) \ {n}
      BY <2>1, <2>4 DEF Owning, Saving, Naming
    <3>2. VarInv(v, h, NoEnv, NoTerm, Owning(v), Saving(v), Naming(v))
      BY DEF Each
    <3>3. v = x => Fresh(v, h)
      BY <2>8
    <3>4. /\ n \in Owning(v) <=> v \in l.env.owned \ {x}
          /\ n \in Saving(v) <=> v \in Values(l.env.reuse)
          /\ n \in Naming(v) <=> v \in t.vars \ {x}
      BY <2>1 DEF Owning, Saving, Naming
    <3>5. /\ Owning(v) \in SUBSET (1 .. n) /\ Saving(v) \in SUBSET (1 .. n)
          /\ Naming(v) \in SUBSET (1 .. n)
      BY <2>1 DEF Owning, Saving, Naming
    <3>6. /\ r \in Holding /\ r.null = h.null /\ r.lost = h.lost /\ r.cell[v] = h.cell[v]
          /\ r.refs[v] = h.refs[v] + IF v = x /\ x \in t.vars THEN 1 ELSE 0
      BY <2>9 DEF SameButRefs
    <3>a. n \in Nat \ {0}
      BY <2>1
    <3> HIDE DEF x, t, l
    <3>7. VarInv(v, r, l.env, t, Owning(v) \ {n}, Saving(v) \ {n}, Naming(v) \ {n})
      BY <2>2, <2>11, <3>a, <3>2, <3>3, <3>4, <3>5, <3>6, BodyTakesOver
    <3>8. v \notin Bound' => Fresh(v, r)
      <4> SUFFICES ASSUME v \notin Bound' PROVE Fresh(v, r)
        OBVIOUS
      <4>1. v # x /\ v \notin Bound
        BY <2>7
      <4>2. Fresh(v, h)
        BY <4>1 DEF Each
      <4> QED
        BY <3>6, <4>1, <4>2 DEF Fresh
    <3> QED
      BY <2>3, <2>10, <3>1, <3>7, <3>8 DEF l, t
  <2>15. held'.ok
    BY <2>9, <2>10 DEF SameButRefs
  <2> QED
    BY <2>12, <2>13, <2>14, <2>15
<1> QED
  BY <1>1, <1>2

------------------------------------------------------------------------------
(* Values: cStatementsFromANF *)

\* What the term names is held.
LEMMA NamedIsHeld ==
  ASSUME GenInv, status = "runs"
  PROVE  /\ Holds(held, term.vars)
         /\ held \in Holding /\ held.ok /\ env \in Envs /\ term \in Terms
         /\ env.owned \subseteq term.vars /\ DOMAIN env.reuse \subseteq term.cons
         /\ OneName(env.reuse)
         /\ term.vars \in SUBSET Var
<1>1. /\ held \in Holding /\ held.ok /\ env \in Envs /\ term \in Terms
      /\ env.owned \subseteq term.vars /\ DOMAIN env.reuse \subseteq term.cons
      /\ OneName(env.reuse) /\ term.vars \in SUBSET Var
  BY DEF GenInv, Shape, Fits, Terms
<1>2. ASSUME NEW v \in term.vars \ held.null PROVE held.refs[v] > 0
  <2>1. /\ Counted(v, held, env, Owning(v))
        /\ NamedHeld(v, held, env, term, Owning(v), Naming(v))
    BY <1>1, <1>2 DEF GenInv, AllHeld, Each, VarInv
  <2>2. v \in env.owned \/ Owning(v) # {}
    BY <1>2, <2>1 DEF NamedHeld
  <2> QED
    BY <1>2, <2>1, <2>2 DEF Counted
<1> QED
  BY <1>1, <1>2 DEF Holds

\* A value that gives back or forgets what it owns, and frees or fills the
\* cells kept for it, leaves to the lets around what is theirs.
LEMMA ValueLeaves ==
  ASSUME GenInv, status = "runs", NEW r \in Holding,
         r.null = held.null,
         \/ /\ r.lost = held.lost
            /\ \A v \in Var : r.refs[v] = held.refs[v] - (IF v \in env.owned \ held.null THEN 1 ELSE 0)
         \/ r.lost = held.lost \cup env.owned /\ r.refs = held.refs,
         \A v \in Var : r.cell[v] \in WaitingCell <=>
                          held.cell[v] \in WaitingCell /\ v \notin Values(env.reuse)
  PROVE  Each(r, NoEnv, NoTerm)
<1> SUFFICES ASSUME NEW v \in Var
             PROVE  /\ VarInv(v, r, NoEnv, NoTerm, Owning(v), Saving(v), Naming(v))
                    /\ v \notin Bound => Fresh(v, r)
  BY DEF Each
<1>1. /\ VarInv(v, held, env, term, Owning(v), Saving(v), Naming(v))
      /\ v \notin Bound => Fresh(v, held)
  BY DEF GenInv, AllHeld, Each
<1>2. held \in Holding /\ env \in Envs /\ env.owned \subseteq term.vars /\ term.vars \subseteq Bound
  BY DEF GenInv, Shape, Fits
<1>3. \/ r.lost = held.lost /\ r.refs[v] = held.refs[v] - (IF v \in env.owned \ held.null THEN 1 ELSE 0)
      \/ r.lost = held.lost \cup env.owned /\ r.refs[v] = held.refs[v]
  OBVIOUS
<1>4. VarInv(v, r, NoEnv, NoTerm, Owning(v), Saving(v), Naming(v))
  BY <1>1, <1>2, <1>3, ValueUsesUp
<1>5. ASSUME v \notin Bound PROVE Fresh(v, r)
  <2>1. v \notin env.owned /\ Fresh(v, held) /\ held.refs[v] \in Int
    BY <1>1, <1>2, <1>5 DEF Holding
  <2> QED
    BY <1>3, <2>1 DEF Fresh
<1> QED
  BY <1>4, <1>5

\* Arguments of calls, operators and new values.
LEMMA ArgumentsLeave ==
  ASSUME GenInv, status = "runs", NEW h \in Holding, h.ok,
         h.refs = held.refs, h.null = held.null, h.lost = held.lost,
         \A v \in Var : h.cell[v] \in WaitingCell <=>
                          held.cell[v] \in WaitingCell /\ v \notin Values(env.reuse),
         NEW args \in [term.vars -> Nat \ {0}]
  PROVE  LET r == GiveBack(Arguments(h, env.owned, args), args)
         IN  r \in Holding /\ r.ok /\ Each(r, NoEnv, NoTerm)
<1> DEFINE r == GiveBack(Arguments(h, env.owned, args), args)
<1>1. Holds(h, term.vars)
  BY NamedIsHeld DEF Holds
<1>2. Spends(h, r, env.owned)
  BY <1>1, NamedIsHeld, ArgumentsSpend
<1> HIDE DEF r
<1>3. /\ r \in Holding /\ r.ok /\ r.null = held.null /\ r.lost = held.lost
      /\ \A v \in Var : r.refs[v] = held.refs[v] - (IF v \in env.owned \ held.null THEN 1 ELSE 0)
      /\ \A v \in Var : r.cell[v] = h.cell[v]
  BY <1>2 DEF Spends, SameButRefs
<1>4. Each(r, NoEnv, NoTerm)
  BY <1>3, ValueLeaves
<1> QED
  BY <1>3, <1>4 DEF r

\* A term without constructors has no cells kept for it.
LEMMA NothingKept ==
  ASSUME GenInv, status = "runs", term.cons = {}
  PROVE  Values(env.reuse) = {}
  BY NamedIsHeld DEF Values

LEMMA ArgumentsLists ==
  ASSUME GenInv, status = "runs", NEW args \in ArgLists(term.vars)
  PROVE  args \in [term.vars -> Nat \ {0}]
  BY GeneratorAssumption DEF ArgLists

\* Each value keeps the invariant.
LEMMA CallKeeps ==
  ASSUME GenInv, NEW args \in ArgLists(term.vars), AAppName(args) \/ AOp(args)
  PROVE  GenInv'
<1> DEFINE r == GiveBack(Arguments(held, env.owned, args), args)
<1>1. Deliver(r) /\ status = "runs" /\ term.cons = {}
  BY DEF AAppName, AOp, Passed, Removed, Deliver, Term
<1>2. held \in Holding /\ held.ok
  BY DEF GenInv, Shape
<1>3. Values(env.reuse) = {} /\ args \in [term.vars -> Nat \ {0}]
  BY <1>1, NothingKept, ArgumentsLists
<1>4. r \in Holding /\ r.ok /\ Each(r, NoEnv, NoTerm)
  BY <1>1, <1>2, <1>3, ArgumentsLeave
<1> HIDE DEF r
<1> QED
  BY <1>1, <1>4, DeliverKeeps

LEMMA AVKeeps ==
  ASSUME GenInv, NEW x \in term.vars, AV(x)
  PROVE  GenInv'
<1> DEFINE r == GiveBack(Arguments(held, env.owned, Once({x})), Once({x}))
<1>1. Deliver(r) /\ status = "runs" /\ term.cons = {} /\ term.vars = {x}
  BY DEF AV, Passed, Deliver, Term
<1>2. held \in Holding /\ held.ok
  BY DEF GenInv, Shape
<1>3. Values(env.reuse) = {} /\ Once({x}) \in [term.vars -> Nat \ {0}]
  BY <1>1, NothingKept DEF Once
<1>4. r \in Holding /\ r.ok /\ Each(r, NoEnv, NoTerm)
  BY <1>1, <1>2, <1>3, ArgumentsLeave
<1> HIDE DEF r
<1> QED
  BY <1>1, <1>4, DeliverKeeps

LEMMA AConstantKeeps ==
  ASSUME GenInv, AConstant
  PROVE  GenInv'
<1>1. Deliver(held) /\ status = "runs" /\ term.cons = {} /\ term.vars = {}
  BY DEF AConstant, Deliver, Term
<1>2. held \in Holding /\ held.ok /\ env.owned = {} /\ Values(env.reuse) = {}
  BY <1>1, NamedIsHeld, NothingKept
<1>3. \A v \in Var : held.refs[v] = held.refs[v] - (IF v \in env.owned \ held.null THEN 1 ELSE 0)
  BY <1>2 DEF Holding
<1>4. Each(held, NoEnv, NoTerm)
  BY <1>1, <1>2, <1>3, ValueLeaves
<1> QED
  BY <1>1, <1>2, <1>4, DeliverKeeps

LEMMA AExtPrimKeeps ==
  ASSUME GenInv, NEW args \in ArgLists(term.vars), AExtPrim(args)
  PROVE  GenInv'
<1> DEFINE r == Forget(Use(held, term.vars), env.owned)
<1>1. Deliver(r) /\ status = "runs" /\ term.cons = {}
  BY DEF AExtPrim, Deliver, Term, ArgLists
<1>2. held \in Holding /\ held.ok /\ Values(env.reuse) = {} /\ env.owned \in SUBSET Var
  BY <1>1, NamedIsHeld, NothingKept
<1>3. r = [held EXCEPT !.lost = @ \cup env.owned]
  BY <1>1, NamedIsHeld, UseHeld DEF Forget
<1> HIDE DEF r
<1>4. /\ r \in Holding /\ r.ok /\ r.null = held.null /\ r.lost = held.lost \cup env.owned
      /\ r.refs = held.refs /\ r.cell = held.cell
  BY <1>2, <1>3 DEF Holding
<1>5. Each(r, NoEnv, NoTerm)
  BY <1>1, <1>2, <1>4, ValueLeaves
<1> QED
  BY <1>1, <1>4, <1>5, DeliverKeeps

LEMMA AConKeeps ==
  ASSUME GenInv, NEW args \in ArgLists(term.vars), NEW n \in Name, ACon(n, args)
  PROVE  GenInv'
<1> DEFINE S == Values(env.reuse)
           h == EndWait(held, S, "filled")
           r == GiveBack(Arguments(h, env.owned, args), args)
<1>1. status = "runs" /\ term.cons = {n}
  BY DEF ACon, Deliver, Term
<1>2. Values(Only(env.reuse, {n})) = S
  BY <1>1, NamedIsHeld DEF Values, Only
<1>3. Deliver(r)
  BY <1>2 DEF ACon, Passed
<1>4. S \in SUBSET Var /\ \A v \in S : held.cell[v] \in WaitingCell
  <2>1. S \in SUBSET Var
    BY <1>1, NamedIsHeld DEF Envs, ReuseMaps, Values
  <2>2. ASSUME NEW v \in S PROVE held.cell[v] \in WaitingCell
    BY <1>1, <2>1 DEF GenInv, AllHeld, Each, VarInv, CellOnce
  <2> QED
    BY <2>1, <2>2
<1> HIDE DEF S
<1>5. /\ h \in Holding /\ h.refs = held.refs /\ h.null = held.null /\ h.lost = held.lost /\ h.ok
      /\ \A v \in Var : h.cell[v] = IF v \in S THEN "filled" ELSE held.cell[v]
  BY <1>1, <1>4, NamedIsHeld, EndWaitFacts
<1> HIDE DEF h
<1>6. \A v \in Var : h.cell[v] \in WaitingCell <=> held.cell[v] \in WaitingCell /\ v \notin S
  BY <1>5 DEF WaitingCell
<1>7. r \in Holding /\ r.ok /\ Each(r, NoEnv, NoTerm)
  BY <1>1, <1>5, <1>6, ArgumentsLists, ArgumentsLeave DEF S
<1> HIDE DEF r
<1> QED
  BY <1>3, <1>7, DeliverKeeps

LEMMA AAppKeeps ==
  ASSUME GenInv, NEW x \in term.vars, NEW y \in term.vars, AApp(x, y), ~misapplied'
  PROVE  GenInv'
<1> DEFINE args == [v \in {x, y} |-> IF x = y THEN 2 ELSE 1]
           n == [v \in DOMAIN args |-> IF v \in env.owned THEN args[v] - 1 ELSE args[v]]
           r == GiveBack(Arguments(held, env.owned, args), args)
<1>1. /\ Deliver(GiveBack(ArgumentsAlike(held, env.owned, args), args))
      /\ status = "runs" /\ term.cons = {} /\ term.vars = {x, y}
      /\ x = y => x \notin env.owned
  BY DEF AApp, Passed, Deliver, Term
<1>2. [v \in DOMAIN args |-> IF v \in env.owned THEN 0 ELSE args[v]] = n
  BY <1>1
<1>3. ArgumentsAlike(held, env.owned, args) = Arguments(held, env.owned, args)
  BY <1>2 DEF ArgumentsAlike, Arguments
<1>4. held \in Holding /\ held.ok
  BY DEF GenInv, Shape
<1>5. Values(env.reuse) = {} /\ args \in [term.vars -> Nat \ {0}]
  BY <1>1, NothingKept
<1> HIDE DEF args
<1>6. r \in Holding /\ r.ok /\ Each(r, NoEnv, NoTerm)
  BY <1>1, <1>4, <1>5, ArgumentsLeave
<1>7. Deliver(r)
  BY <1>1, <1>3
<1> HIDE DEF r
<1> QED
  BY <1>6, <1>7, DeliverKeeps

------------------------------------------------------------------------------
(* Lets *)

\* A cell waits under one name, so it is kept on one side.
LEMMA ValuesSplit ==
  ASSUME NEW map, NEW S
  PROVE  /\ Values(map) = Values(Only(map, S)) \cup Values(Without(map, S))
         /\ OneName(map) =>
              /\ Values(Only(map, S)) \cap Values(Without(map, S)) = {}
              /\ OneName(Only(map, S)) /\ OneName(Without(map, S))
         /\ DOMAIN Only(map, S) = DOMAIN map \cap S
         /\ DOMAIN Without(map, S) = DOMAIN map \ S
         /\ \A m \in DOMAIN map \cap S : Only(map, S)[m] = map[m]
<1>1. DOMAIN Only(map, S) = DOMAIN map \cap S /\ DOMAIN Without(map, S) = DOMAIN map \ S
  BY DEF Only, Without
<1>2. /\ \A m \in DOMAIN map \cap S : Only(map, S)[m] = map[m]
      /\ \A m \in DOMAIN map \ S : Without(map, S)[m] = map[m]
  BY DEF Only, Without
<1>3. Values(map) = Values(Only(map, S)) \cup Values(Without(map, S))
  BY <1>1, <1>2 DEF Values
<1>4. OneName(map) => Values(Only(map, S)) \cap Values(Without(map, S)) = {}
  BY <1>1, <1>2 DEF Values, OneName
<1>5. OneName(map) => OneName(Only(map, S)) /\ OneName(Without(map, S))
  BY <1>1, <1>2 DEF OneName
<1> QED
  BY <1>1, <1>2, <1>3, <1>4, <1>5

\* The value gets what the body does not need, and the body keeps the rest: it
\* is place n + 1, and A, B and C say whether it owns v, keeps its cell, names it.
LEMMA LetSplits ==
  ASSUME NEW v \in Var, NEW h, NEW e, NEW ev, NEW t, NEW value, NEW n \in Nat,
         NEW O \in SUBSET (1 .. n), NEW W \in SUBSET (1 .. n), NEW N \in SUBSET (1 .. n),
         NEW A \in SUBSET {n + 1}, NEW B \in SUBSET {n + 1}, NEW C \in SUBSET {n + 1},
         VarInv(v, h, e, t, O, W, N),
         v \in e.owned <=> v \in ev.owned \/ A # {},
         ~(v \in ev.owned /\ A # {}),
         v \in Values(e.reuse) <=> v \in Values(ev.reuse) \/ B # {},
         ~(v \in Values(ev.reuse) /\ B # {}),
         v \in value.vars \/ C # {} => v \in t.vars,
         C # {} => v \notin ev.owned
  PROVE  VarInv(v, h, ev, value, O \cup A, W \cup B, N \cup C)
<1>1. /\ Counted(v, h, e, O) /\ OwnedOnce(v, e, O)
      /\ CellOnce(v, h, e, O, W) /\ NamedHeld(v, h, e, t, O, N)
  BY DEF VarInv
<1>2. A # {} => O = {}
  BY <1>1 DEF OwnedOnce
<1>3. /\ O \cup A = {} /\ v \notin ev.owned <=> O = {} /\ v \notin e.owned
      /\ v \in ev.owned => O \cup A = {}
  BY <1>1 DEF OwnedOnce
<1>4. Counted(v, h, ev, O \cup A)
  BY <1>1, <1>3 DEF Counted
<1>5. OwnedOnce(v, ev, O \cup A)
  BY <1>1, <1>2, <1>3 DEF OwnedOnce, AtMostOne
<1>6. CellOnce(v, h, ev, O \cup A, W \cup B)
  <2>1. B # {} => W = {}
    BY <1>1 DEF CellOnce
  <2>2. W \cup B # {} \/ v \in Values(ev.reuse) <=> W # {} \/ v \in Values(e.reuse)
    BY <1>1 DEF CellOnce
  <2>3. AtMostOne(W \cup B)
    BY <1>1, <2>1 DEF CellOnce, AtMostOne
  <2>4. v \in Values(ev.reuse) => W \cup B = {}
    BY <1>1 DEF CellOnce
  <2> QED
    BY <1>1, <1>3, <2>2, <2>3, <2>4 DEF CellOnce
<1>7. NamedHeld(v, h, ev, value, O \cup A, N \cup C)
  <2> SUFFICES ASSUME v \notin h.null
               PROVE  /\ \A i \in N \cup C : \E j \in O \cup A : j <= i
                      /\ v \in value.vars => v \in ev.owned \/ O \cup A # {}
    BY DEF NamedHeld
  <2>1. /\ \A i \in N : \E j \in O : j <= i
        /\ v \in t.vars => v \in e.owned \/ O # {}
    BY <1>1 DEF NamedHeld
  <2>2. v \in value.vars => v \in ev.owned \/ O \cup A # {}
    BY <2>1
  <2>3. ASSUME NEW i \in C PROVE \E j \in O \cup A : j <= i
    <3>1. O \cup A # {} /\ i = n + 1
      BY <2>1, <2>3
    <3>2. PICK j \in O \cup A : TRUE
      BY <3>1
    <3>3. j \in 1 .. n + 1
      BY <3>2
    <3> QED
      BY <3>1, <3>2, <3>3
  <2> QED
    BY <2>1, <2>2, <2>3
<1> QED
  BY <1>4, <1>5, <1>6, <1>7 DEF VarInv

LEMMA ReuseParts ==
  ASSUME NEW map \in ReuseMaps, NEW S
  PROVE  /\ Only(map, S) \in ReuseMaps /\ Without(map, S) \in ReuseMaps
         /\ DOMAIN map \subseteq Name /\ Values(map) \subseteq Var
<1>1. PICK D \in SUBSET Name : map \in [D -> Var]
  BY DEF ReuseMaps
<1>2. Only(map, S) \in [D \cap S -> Var] /\ Without(map, S) \in [D \ S -> Var]
  BY <1>1 DEF Only, Without
<1>3. D \cap S \in SUBSET Name /\ D \ S \in SUBSET Name
  OBVIOUS
<1>4. Only(map, S) \in ReuseMaps /\ Without(map, S) \in ReuseMaps
  BY <1>2, <1>3 DEF ReuseMaps
<1> QED
  BY <1>1, <1>4 DEF Values

LEMMA ALetKeeps ==
  ASSUME GenInv, ALet
  PROVE  GenInv'
<1>n. PICK n \in Nat : n = Len(lets)
  BY DEF GenInv, Shape
<1> DEFINE x == next
<1>1. PICK vv \in SUBSET term.vars, vc \in SUBSET term.cons,
           bv \in SUBSET (term.vars \cup {x}), bc \in SUBSET term.cons :
        LET value == Term(vv, vc)
            body == Term(bv, bc)
        IN /\ vv \cup (bv \ {x}) = term.vars
           /\ vc \cup bc = term.cons
           /\ lets' = Append(lets, [var |-> x, body |-> body, env |-> LetBody(x, value, body)])
           /\ Continue(held, value, LetValue(x, value, body))
  BY DEF ALet
<1> DEFINE value == Term(vv, vc)
           body == Term(bv, bc)
           eb == LetBody(x, value, body)
           ev == LetValue(x, value, body)
           l == [var |-> x, body |-> body, env |-> eb]
<1>2. /\ status' = status /\ status = "runs" /\ next' = next + 1 /\ x \in Var
      /\ held' = held /\ term' = value /\ env' = ev /\ lets' = Append(lets, l)
      /\ next \in Nat /\ next' \in 1 .. MaxVar + 1
  BY <1>1, GeneratorAssumption DEF ALet, Continue, GenInv, Shape, Var
<1>3. /\ value.vars = vv /\ value.cons = vc /\ body.vars = bv /\ body.cons = bc
      /\ vv \cup (bv \ {x}) = term.vars /\ vc \cup bc = term.cons
  BY <1>1 DEF Term
<1>4. /\ held \in Holding /\ env \in Envs /\ term \in Terms /\ lets \in Seq(Lets)
      /\ env.owned \subseteq term.vars /\ DOMAIN env.reuse \subseteq term.cons
      /\ OneName(env.reuse) /\ term.vars \subseteq Bound /\ term.vars \subseteq Var
      /\ DOMAIN lets = 1 .. n /\ \A i \in 1 .. n : LetFits(i)
  BY <1>n DEF GenInv, Shape, Fits, Terms
<1>t. \A i \in 1 .. n : lets[i].var \in Var /\ lets[i].var \in Nat
  <2>1. \A i \in 1 .. n : lets[i] \in Lets
    BY <1>4
  <2> QED
    BY <2>1 DEF Lets, Var
<1>5. value \in Terms /\ body \in Terms
  BY <1>2, <1>4 DEF Terms, Term
<1>6. /\ ev.owned = env.owned \ (body.vars \ {x}) /\ ev.reuse = Only(env.reuse, value.cons)
      /\ eb.reuse = Without(env.reuse, value.cons)
      /\ eb.owned = IF x \in body.vars THEN (env.owned \cap (body.vars \ {x})) \cup {x}
                                       ELSE env.owned \cap (body.vars \ {x})
  BY DEF LetValue, LetBody
<1>7. ev \in Envs /\ eb \in Envs
  <2>1. env.owned \in SUBSET Var /\ env.reuse \in ReuseMaps
    BY <1>4 DEF Envs
  <2>2. Only(env.reuse, value.cons) \in ReuseMaps /\ Without(env.reuse, value.cons) \in ReuseMaps
    BY <2>1, ReuseParts
  <2>3. ev \in Envs
    BY <2>1, <2>2 DEF LetValue, Envs
  <2>4. eb \in Envs
    BY <2>1, <2>2, <1>2 DEF LetBody, Envs
  <2> QED
    BY <2>3, <2>4
<1>8. \A v \in Bound : v # x
  BY <1>2 DEF Bound
<1>9. /\ l \in Lets /\ l.var = x /\ l.body = body /\ l.env = eb
  BY <1>2, <1>5, <1>7 DEF Lets
<1> HIDE DEF value, body, eb, ev, l
<1>10. /\ lets' \in Seq(Lets) /\ Len(lets') = n + 1 /\ DOMAIN lets' = 1 .. n + 1
       /\ lets'[n + 1] = l /\ \A i \in 1 .. n : lets'[i] = lets[i]
  BY <1>2, <1>4, <1>9, <1>n
<1>11. Bound' = Bound
  <2>1. Pending' = Pending \cup {x}
    <3>1. \A y : y \in Pending' <=> \E i \in 1 .. n + 1 : y = lets'[i].var
      BY <1>10 DEF Pending
    <3>2. \A y : y \in Pending <=> \E i \in 1 .. n : y = lets[i].var
      BY <1>4 DEF Pending
    <3> QED
      BY <1>4, <1>9, <1>10, <3>1, <3>2
  <2> QED
    BY <1>2, <2>1 DEF Bound
<1>a. /\ Fits(ev, value) /\ Fits(eb, body)
  <2>1. /\ DOMAIN ev.reuse \subseteq value.cons /\ DOMAIN eb.reuse \subseteq body.cons
        /\ OneName(ev.reuse) /\ OneName(eb.reuse)
    <3>1. /\ OneName(Only(env.reuse, value.cons)) /\ OneName(Without(env.reuse, value.cons))
          /\ DOMAIN Only(env.reuse, value.cons) = DOMAIN env.reuse \cap value.cons
          /\ DOMAIN Without(env.reuse, value.cons) = DOMAIN env.reuse \ value.cons
      BY <1>4, ValuesSplit
    <3> QED
      BY <1>3, <1>4, <1>6, <3>1
  <2> QED
    BY <1>3, <1>4, <1>6, <2>1 DEF Fits
<1>13. Shape'
  <2>1. ASSUME NEW i \in 1 .. n PROVE LetFits(i)'
    <3>1. LetFits(i) /\ lets'[i] = lets[i] /\ lets[i].var < next
      BY <1>4, <1>10, <2>1 DEF LetFits
    <3>2. \A j \in 1 .. n + 1 : lets[i].var = lets'[j].var => i = j
      <4> SUFFICES ASSUME NEW j \in 1 .. n + 1, lets[i].var = lets'[j].var PROVE i = j
        OBVIOUS
      <4>1. lets'[n + 1].var = next
        BY <1>9, <1>10
      <4>2. lets[i].var # next
        <5>1. lets[i].var \in Nat /\ lets[i].var < next /\ next \in Nat
          BY <1>2, <1>t, <2>1, <3>1
        <5> QED
          BY <5>1
      <4>3. j \in 1 .. n
        BY <1>4, <4>1, <4>2
      <4> QED
        BY <1>4, <1>10, <3>1, <4>3 DEF LetFits
    <3>3. lets[i].var < next'
      BY <1>2, <1>t, <2>1, <3>1
    <3> QED
      BY <1>10, <1>11, <3>1, <3>2, <3>3 DEF LetFits
  <2>2. LetFits(n + 1)'
    <3>1. \A j \in 1 .. n + 1 : lets'[j].var = x => n + 1 = j
      <4> SUFFICES ASSUME NEW j \in 1 .. n, lets'[j].var = x PROVE FALSE
        BY <1>4
      <4>1. LetFits(j) /\ lets[j].var \in Nat
        BY <1>4, <1>t
      <4> QED
        BY <1>2, <1>10, <4>1 DEF LetFits
    <3>2. body.vars \ {x} \subseteq Bound
      BY <1>3, <1>4
    <3>3. x \in body.vars => x \in eb.owned
      BY <1>6
    <3>4. x < next'
      BY <1>2
    <3> QED
      BY <1>9, <1>10, <1>11, <1>a, <3>1, <3>2, <3>3, <3>4 DEF LetFits
  <2>3. \A i \in DOMAIN lets' : LetFits(i)'
    BY <1>4, <1>10, <2>1, <2>2
  <2>4. Fits(env', term') /\ term'.vars \subseteq Bound'
    BY <1>2, <1>3, <1>4, <1>11, <1>a
  <2>5. status' \in {"called", "runs", "returned"} /\ held' \in Holding /\ env' \in Envs /\ term' \in Terms
    BY <1>2, <1>4, <1>5, <1>7
  <2> QED
    BY <1>2, <1>10, <2>3, <2>4, <2>5 DEF Shape
<1>14. AllHeld'
  <2> SUFFICES ASSUME NEW v \in Var
               PROVE  /\ VarInv(v, held', env', term', Owning(v)', Saving(v)', Naming(v)')
                      /\ v \notin Bound' => Fresh(v, held')
    BY DEF AllHeld, Each
  <2>1. /\ VarInv(v, held, env, term, Owning(v), Saving(v), Naming(v))
        /\ v \notin Bound => Fresh(v, held)
    BY <1>2 DEF GenInv, AllHeld, Each
  <2>2. /\ Owning(v)' = Owning(v) \cup (IF v \in eb.owned \ {x} THEN {n + 1} ELSE {})
        /\ Saving(v)' = Saving(v) \cup (IF v \in Values(eb.reuse) THEN {n + 1} ELSE {})
        /\ Naming(v)' = Naming(v) \cup (IF v \in body.vars \ {x} THEN {n + 1} ELSE {})
    <3>1. \A i : i \in 1 .. n + 1 <=> i \in 1 .. n \/ i = n + 1
      BY <1>4
    <3>2. ~(n + 1 \in 1 .. n)
      BY <1>4
    <3>3. \A i \in 1 .. n : lets'[i] = lets[i]
      BY <1>10
    <3>4. lets'[n + 1].var = x /\ lets'[n + 1].body = body /\ lets'[n + 1].env = eb
      BY <1>9, <1>10
    <3>5. Owning(v)' = Owning(v) \cup (IF v \in eb.owned \ {x} THEN {n + 1} ELSE {})
      BY <1>4, <1>10, <3>1, <3>2, <3>3, <3>4 DEF Owning
    <3>6. Saving(v)' = Saving(v) \cup (IF v \in Values(eb.reuse) THEN {n + 1} ELSE {})
      BY <1>4, <1>10, <3>1, <3>2, <3>3, <3>4 DEF Saving
    <3>7. Naming(v)' = Naming(v) \cup (IF v \in body.vars \ {x} THEN {n + 1} ELSE {})
      BY <1>4, <1>10, <3>1, <3>2, <3>3, <3>4 DEF Naming
    <3> QED
      BY <3>5, <3>6, <3>7
  <2>3. /\ Owning(v) \in SUBSET (1 .. n) /\ Saving(v) \in SUBSET (1 .. n)
        /\ Naming(v) \in SUBSET (1 .. n)
    BY <1>4 DEF Owning, Saving, Naming
  <2>4. x \notin env.owned
    BY <1>4, <1>8
  <2>5. /\ value.vars \cup (body.vars \ {x}) = term.vars
        /\ eb.owned \ {x} = env.owned \cap (body.vars \ {x})
    BY <1>3, <1>6
  <2> DEFINE A == IF v \in eb.owned \ {x} THEN {n + 1} ELSE {}
             B == IF v \in Values(eb.reuse) THEN {n + 1} ELSE {}
             C == IF v \in body.vars \ {x} THEN {n + 1} ELSE {}
  <2>6. /\ Values(env.reuse) = Values(ev.reuse) \cup Values(eb.reuse)
        /\ Values(ev.reuse) \cap Values(eb.reuse) = {}
    <3>1. /\ Values(env.reuse) = Values(Only(env.reuse, value.cons)) \cup Values(Without(env.reuse, value.cons))
          /\ Values(Only(env.reuse, value.cons)) \cap Values(Without(env.reuse, value.cons)) = {}
      BY <1>4, ValuesSplit
    <3> QED
      BY <1>6, <3>1
  <2>7. VarInv(v, held, ev, value, Owning(v) \cup A, Saving(v) \cup B, Naming(v) \cup C)
    <3>1. v \in env.owned <=> v \in ev.owned \/ A # {}
      BY <1>6, <2>4, <2>5
    <3>2. ~(v \in ev.owned /\ A # {})
      BY <1>6, <2>5
    <3>3. /\ v \in Values(env.reuse) <=> v \in Values(ev.reuse) \/ B # {}
          /\ ~(v \in Values(ev.reuse) /\ B # {})
      BY <2>6
    <3>4. v \in value.vars \/ C # {} => v \in term.vars
      BY <2>5
    <3>5. C # {} => v \notin ev.owned
      BY <1>6
    <3>6. A \in SUBSET {n + 1} /\ B \in SUBSET {n + 1} /\ C \in SUBSET {n + 1}
      OBVIOUS
    <3> HIDE DEF A, B, C
    <3> QED
      BY <2>1, <2>3, <3>1, <3>2, <3>3, <3>4, <3>5, <3>6, LetSplits
  <2>8. VarInv(v, held, ev, value, Owning(v)', Saving(v)', Naming(v)')
    BY <2>2, <2>7
  <2> QED
    BY <1>2, <1>11, <2>1, <2>8
<1>15. Lifecycle'
  BY <1>2 DEF Lifecycle
<1>16. held'.ok
  BY <1>2 DEF GenInv
<1> QED
  BY <1>13, <1>14, <1>15, <1>16 DEF GenInv

------------------------------------------------------------------------------
(* Alternatives of a case *)

\* References of one variable: it is counted by gets, given back by gives,
\* forgotten by forgets or NULL by nulls, and owned accordingly.
Recounted(v, h, r, e, e2, gets, gives, forgets, nulls) ==
  /\ r.refs[v] = h.refs[v] + (IF v \in gets THEN 1 ELSE 0)
                           - (IF v \in gives \ h.null THEN 1 ELSE 0)
  /\ r.null = h.null \cup nulls /\ r.lost = h.lost \cup forgets
  /\ v \in gets => Fresh(v, h)
  /\ forgets \subseteq gets
  /\ v \in gives => v \in e.owned /\ v \notin nulls
  /\ v \in e2.owned <=> \/ v \in e.owned /\ v \notin gives /\ v \notin nulls
                        \/ v \in gets /\ v \notin forgets
  /\ v \in nulls => h.refs[v] > 0 /\ v \notin gets

\* Its cell: no longer kept by freed, kept from here by kept.
Rekept(v, h, r, e, e2, freed, kept) ==
  /\ freed \subseteq Values(e.reuse)
  /\ v \in Values(e2.reuse) <=> v \in Values(e.reuse) \ freed \/ v \in kept
  /\ r.cell[v] \in WaitingCell <=>
       (h.cell[v] \in WaitingCell /\ v \notin freed) \/ v \in kept
  /\ v \in kept => v \in e.owned /\ v \notin e2.owned
  /\ v \in e2.owned => v \in e.owned \/ Fresh(v, h)

Renamed(v, r, e, e2, t, t2) ==
  v \in t2.vars =>
    /\ v \in t.vars \/ v \in e2.owned
    /\ v \in e.owned => v \in e2.owned \/ v \in r.null

LEMMA AlternativeVar ==
  ASSUME NEW v \in Var, NEW h \in Holding, NEW r \in Holding,
         NEW e, NEW e2, NEW t, NEW t2, NEW O, NEW W, NEW N,
         NEW gets, NEW gives, NEW forgets, NEW nulls, NEW freed, NEW kept,
         VarInv(v, h, e, t, O, W, N),
         Recounted(v, h, r, e, e2, gets, gives, forgets, nulls),
         Rekept(v, h, r, e, e2, freed, kept),
         Renamed(v, r, e, e2, t, t2)
  PROVE  VarInv(v, r, e2, t2, O, W, N)
<1>1. /\ Counted(v, h, e, O) /\ OwnedOnce(v, e, O)
      /\ CellOnce(v, h, e, O, W) /\ NamedHeld(v, h, e, t, O, N)
  BY DEF VarInv
<1>2. h.refs[v] \in Int
  BY DEF Holding
<1>3. Fresh(v, h) => O = {} /\ v \notin e.owned /\ W = {} /\ v \notin Values(e.reuse)
  BY <1>1 DEF Fresh, Counted, CellOnce
<1>4. v \in gets => O = {} /\ v \notin e.owned /\ v \notin h.null /\ v \notin h.lost /\ h.refs[v] = 0
  BY <1>3 DEF Recounted, Fresh
<1>5. OwnedOnce(v, e2, O)
  BY <1>1, <1>4 DEF OwnedOnce, Recounted
<1>6. Counted(v, r, e2, O)
  <2>1. CASE v \in gets
    <3>1. /\ r.refs[v] = 1 /\ v \notin r.null /\ v \notin nulls
          /\ v \in r.lost <=> v \in forgets
          /\ v \in e2.owned <=> v \notin forgets
      BY <2>1, <1>2, <1>4 DEF Recounted
    <3> QED
      BY <2>1, <1>4, <3>1 DEF Counted
  <2>2. CASE v \notin gets /\ v \in r.null
    <3>1. v \in gives => v \in h.null
      BY <2>2 DEF Recounted
    <3>2. r.refs[v] = h.refs[v] /\ (v \in r.lost <=> v \in h.lost) /\ (v \in e2.owned => v \in e.owned)
      BY <2>2, <1>2, <3>1 DEF Recounted
    <3>3. h.refs[v] > 0
      BY <1>1, <2>2 DEF Counted, Recounted
    <3> QED
      BY <2>2, <1>1, <3>2, <3>3 DEF Counted
  <2>3. CASE v \notin gets /\ v \notin r.null
    <3>1. /\ v \notin h.null /\ v \notin nulls /\ (v \in r.lost <=> v \in h.lost)
          /\ r.refs[v] = h.refs[v] - (IF v \in gives THEN 1 ELSE 0)
          /\ v \in e2.owned <=> v \in e.owned /\ v \notin gives
          /\ v \in gives => v \in e.owned
      BY <2>3, <1>2 DEF Recounted
    <3>2. CASE v \in gives
      <4>1. v \in e.owned /\ v \notin e2.owned /\ O = {} /\ h.refs[v] = 1 /\ v \notin h.lost
        BY <1>1, <3>1, <3>2 DEF Counted, OwnedOnce
      <4> QED
        BY <2>3, <3>1, <3>2, <4>1 DEF Counted
    <3>3. CASE v \notin gives
      <4>1. r.refs[v] = h.refs[v] /\ (v \in e2.owned <=> v \in e.owned)
        BY <1>2, <3>1, <3>3
      <4> QED
        BY <1>1, <2>3, <3>1, <4>1 DEF Counted
    <3> QED
      BY <3>2, <3>3
  <2> QED
    BY <2>1, <2>2, <2>3
<1>7. CellOnce(v, r, e2, O, W)
  <2>1. v \in kept => O = {} /\ W = {} /\ v \notin Values(e.reuse)
    BY <1>1 DEF Rekept, OwnedOnce, CellOnce
  <2>2. v \in Values(e2.reuse) => W = {}
    BY <1>1, <2>1 DEF Rekept, CellOnce
  <2>3. v \in freed => W = {}
    BY <1>1 DEF Rekept, CellOnce
  <2>4. r.cell[v] \in WaitingCell <=> W # {} \/ v \in Values(e2.reuse)
    BY <1>1, <2>1, <2>3 DEF Rekept, CellOnce
  <2>5. W # {} \/ v \in Values(e2.reuse) => O = {} /\ v \notin e2.owned
    BY <1>1, <1>3, <2>1 DEF Rekept, CellOnce
  <2> QED
    BY <1>1, <2>2, <2>4, <2>5 DEF CellOnce
<1>8. NamedHeld(v, r, e2, t2, O, N)
  <2>1. v \notin r.null => v \notin h.null
    BY DEF Recounted
  <2>2. v \in t2.vars /\ v \notin r.null => v \in e2.owned \/ O # {}
    BY <1>1, <2>1 DEF Renamed, NamedHeld
  <2> QED
    BY <1>1, <2>1, <2>2 DEF NamedHeld
<1> QED
  BY <1>5, <1>6, <1>7, <1>8 DEF VarInv

\* An alternative leaves the lets around alone.
LEMMA AlternativeKeeps ==
  ASSUME GenInv, status = "runs",
         status' = status, lets' = lets, next' \in next .. MaxVar + 1,
         held' \in Holding, held'.ok, env' \in Envs, term' \in Terms,
         Fits(env', term'), term'.vars \subseteq Bound \cup (next .. next' - 1),
         \A v \in Var :
           /\ VarInv(v, held', env', term', Owning(v), Saving(v), Naming(v))
           /\ v \notin Bound \cup (next .. next' - 1) => Fresh(v, held')
  PROVE  GenInv'
<1>1. /\ next \in Nat /\ next \in 1 .. MaxVar + 1 /\ next' \in Nat /\ next' \in 1 .. MaxVar + 1
      /\ next <= next' /\ lets \in Seq(Lets) /\ \A i \in DOMAIN lets : LetFits(i)
  BY GeneratorAssumption DEF GenInv, Shape
<1>2. \A i \in DOMAIN lets : lets[i].var \in Nat /\ lets[i].var < next
  <2>1. \A i \in DOMAIN lets : lets[i] \in Lets
    BY <1>1
  <2> QED
    BY <1>1, <2>1 DEF Lets, Var, LetFits
<1>3. Bound' = Bound \cup (next .. next' - 1)
  <2>0. Pending' = Pending
    BY DEF Pending
  <2>1. Pending \cap (next .. next' - 1) = {}
    BY <1>1, <1>2 DEF Pending
  <2>2. 1 .. next' - 1 = (1 .. next - 1) \cup (next .. next' - 1)
    BY <1>1
  <2> QED
    BY <2>0, <2>1, <2>2 DEF Bound
<1>4. \A i \in DOMAIN lets : LetFits(i)'
  <2> SUFFICES ASSUME NEW i \in DOMAIN lets PROVE LetFits(i)'
    OBVIOUS
  <2>1. LetFits(i) /\ lets[i].var < next'
    BY <1>1, <1>2
  <2> QED
    BY <1>3, <2>1 DEF LetFits
<1>5. Shape'
  BY <1>1, <1>3, <1>4 DEF Shape
<1>6. AllHeld'
  <2> SUFFICES ASSUME NEW v \in Var
               PROVE  /\ VarInv(v, held', env', term', Owning(v)', Saving(v)', Naming(v)')
                      /\ v \notin Bound' => Fresh(v, held')
    BY DEF AllHeld, Each
  <2>1. Owning(v)' = Owning(v) /\ Saving(v)' = Saving(v) /\ Naming(v)' = Naming(v)
    BY DEF Owning, Saving, Naming
  <2> QED
    BY <1>3, <2>1
<1>7. Lifecycle'
  BY DEF Lifecycle
<1> QED
  BY <1>5, <1>6, <1>7 DEF GenInv

\* What is owned here is held, and cells that are kept here wait.
LEMMA KeptHere ==
  ASSUME GenInv, status = "runs"
  PROVE  /\ \A v \in env.owned \ held.null : held.refs[v] >= 1
         /\ \A v \in held.null : held.refs[v] > 0
         /\ \A v \in Values(env.reuse) : v \in Var /\ held.cell[v] \in WaitingCell /\ v \notin env.owned
         /\ \A v \in Var \ Bound : Fresh(v, held)
<1>1. \A v \in Var : /\ VarInv(v, held, env, term, Owning(v), Saving(v), Naming(v))
                     /\ v \notin Bound => Fresh(v, held)
  BY DEF GenInv, AllHeld, Each
<1>2. Values(env.reuse) \subseteq Var
  BY NamedIsHeld, ReuseParts DEF Envs
<1>3. ASSUME NEW v \in Values(env.reuse) PROVE held.cell[v] \in WaitingCell /\ v \notin env.owned
  BY <1>1, <1>2 DEF VarInv, CellOnce
<1>4. ASSUME NEW v \in env.owned \ held.null PROVE held.refs[v] >= 1
  <2>1. v \in Var /\ held.refs[v] \in Int /\ v \in term.vars
    BY NamedIsHeld DEF Holding
  <2>2. held.refs[v] > 0
    BY <1>4, <2>1, NamedIsHeld DEF Holds
  <2> QED
    BY <2>1, <2>2
<1>5. ASSUME NEW v \in held.null PROVE held.refs[v] > 0
  <2>1. v \in Var
    BY NamedIsHeld DEF Holding
  <2> QED
    BY <1>1, <1>5, <2>1 DEF VarInv, Counted
<1> QED
  BY <1>1, <1>2, <1>3, <1>4, <1>5

\* The cells that an alternative has no use for are freed.
LEMMA FreesKept ==
  ASSUME GenInv, status = "runs", NEW h \in Holding, NEW S, h.ok,
         \A v \in Values(env.reuse) : h.cell[v] \in WaitingCell
  PROVE  LET r == RemoveReuseConstructors(h, Without(env.reuse, S))
             freed == Values(Without(env.reuse, S))
         IN  /\ r \in Holding
             /\ r.refs = h.refs /\ r.null = h.null /\ r.lost = h.lost /\ r.ok
             /\ freed \subseteq Values(env.reuse)
             /\ Values(Only(env.reuse, S)) = Values(env.reuse) \ freed
             /\ \A v \in Var : r.cell[v] \in WaitingCell <=> h.cell[v] \in WaitingCell /\ v \notin freed
<1> DEFINE freed == Values(Without(env.reuse, S))
           r == EndWait(h, freed, "unset")
<1>1. /\ freed \subseteq Values(env.reuse)
      /\ Values(Only(env.reuse, S)) = Values(env.reuse) \ freed
  <2>1. /\ Values(env.reuse) = Values(Only(env.reuse, S)) \cup freed
        /\ Values(Only(env.reuse, S)) \cap freed = {}
    BY NamedIsHeld, ValuesSplit
  <2> HIDE DEF freed
  <2> QED
    BY <2>1
<1>2. freed \in SUBSET Var
  BY <1>1, KeptHere
<1> HIDE DEF freed
<1>3. /\ r \in Holding /\ r.refs = h.refs /\ r.null = h.null /\ r.lost = h.lost /\ r.ok
      /\ \A v \in Var : r.cell[v] = IF v \in freed THEN "unset" ELSE h.cell[v]
  BY <1>1, <1>2, EndWaitFacts
<1> HIDE DEF r
<1>4. \A v \in Var : r.cell[v] \in WaitingCell <=> h.cell[v] \in WaitingCell /\ v \notin freed
  BY <1>3 DEF WaitingCell
<1> QED
  BY <1>1, <1>3, <1>4 DEF RemoveReuseConstructors, r, freed

\* What an alternative leaves to its body is a part of what there was.
LEMMA BodyEnv ==
  ASSUME GenInv, status = "runs", NEW body \in Terms, NEW more \in SUBSET Var
  PROVE  LET e == [owned |-> (env.owned \cup more) \cap body.vars, reuse |-> Only(env.reuse, body.cons)]
         IN  e \in Envs /\ Fits(e, body)
<1>1. /\ env.owned \in SUBSET Var /\ env.reuse \in ReuseMaps
  BY NamedIsHeld DEF Envs
<1>2. /\ Only(env.reuse, body.cons) \in ReuseMaps
      /\ OneName(Only(env.reuse, body.cons))
      /\ DOMAIN Only(env.reuse, body.cons) = DOMAIN env.reuse \cap body.cons
  BY <1>1, NamedIsHeld, ReuseParts, ValuesSplit
<1> QED
  BY <1>1, <1>2 DEF Envs, Fits

LEMMA ConcaseBodyKeeps ==
  ASSUME GenInv, NEW sc \in term.vars, NEW body \in Bodies({}), ConcaseBody(sc, body)
  PROVE  GenInv'
<1> DEFINE drop == env.owned \ body.vars
           h == RemoveVars(held, drop)
           freed == Values(Without(env.reuse, body.cons))
           r == RemoveReuseConstructors(h, Without(env.reuse, body.cons))
           e == [owned |-> env.owned \cap body.vars, reuse |-> Only(env.reuse, body.cons)]
<1>1. status = "runs" /\ body \in Terms /\ body.vars \subseteq term.vars /\ sc \in Var
  BY NamedIsHeld DEF ConcaseBody, Alternative, Bodies, Terms
<1>2. Use(held, {sc}) = held
  BY <1>1, NamedIsHeld, UseHeld DEF Holds
<1>3. held' = r /\ env' = e /\ term' = body /\ status' = status /\ next' = next /\ lets' = lets
  BY <1>2 DEF ConcaseBody, Continue
<1>4. Spends(held, h, drop)
  BY <1>1, NamedIsHeld, KeptHere, RemoveVarsSpends
<1> HIDE DEF h
<1>5. /\ r \in Holding /\ r.refs = h.refs /\ r.null = h.null /\ r.lost = h.lost /\ r.ok
      /\ freed \subseteq Values(env.reuse)
      /\ Values(e.reuse) = Values(env.reuse) \ freed
      /\ \A v \in Var : r.cell[v] \in WaitingCell <=> h.cell[v] \in WaitingCell /\ v \notin freed
  BY <1>1, <1>4, KeptHere, FreesKept DEF Spends, SameButRefs
<1> HIDE DEF r, freed
<1>6. e \in Envs /\ Fits(e, body)
  <2>1. e = [owned |-> (env.owned \cup {}) \cap body.vars, reuse |-> Only(env.reuse, body.cons)]
    OBVIOUS
  <2> QED
    BY <1>1, <2>1, BodyEnv
<1>7. e.owned = env.owned \cap body.vars
  OBVIOUS
<1> HIDE DEF e
<1>8. ASSUME NEW v \in Var
      PROVE  /\ VarInv(v, r, e, body, Owning(v), Saving(v), Naming(v))
             /\ v \notin Bound => Fresh(v, r)
  <2>1. /\ VarInv(v, held, env, term, Owning(v), Saving(v), Naming(v))
        /\ v \notin Bound => Fresh(v, held) /\ v \notin env.owned
        /\ held \in Holding /\ held.refs[v] \in Int
    BY <1>1 DEF GenInv, AllHeld, Each, Shape, Fits, Holding
  <2>2. /\ r.refs[v] = held.refs[v] - (IF v \in drop \ held.null THEN 1 ELSE 0)
        /\ r.null = held.null /\ r.lost = held.lost
        /\ r.cell[v] \in WaitingCell <=> held.cell[v] \in WaitingCell /\ v \notin freed
    BY <1>4, <1>5 DEF Spends, SameButRefs
  <2>3. Recounted(v, held, r, env, e, {}, drop, {}, {})
    BY <1>7, <2>1, <2>2 DEF Recounted
  <2>4. Rekept(v, held, r, env, e, freed, {})
    BY <1>5, <1>7, <2>2 DEF Rekept
  <2>5. Renamed(v, r, env, e, term, body)
    BY <1>1, <1>7 DEF Renamed
  <2>6. VarInv(v, r, e, body, Owning(v), Saving(v), Naming(v))
    BY <1>5, <2>1, <2>3, <2>4, <2>5, AlternativeVar
  <2>7. v \notin Bound => Fresh(v, r)
    BY <2>1, <2>2 DEF Fresh
  <2> QED
    BY <2>6, <2>7
<1>9. next' \in next .. MaxVar + 1 /\ next .. next' - 1 = {} /\ body.vars \subseteq Bound
  BY <1>1, <1>3, GeneratorAssumption DEF GenInv, Shape
<1> QED
  BY <1>1, <1>3, <1>5, <1>6, <1>8, <1>9, AlternativeKeeps

LEMMA NullAltKeeps ==
  ASSUME GenInv, NEW sc \in term.vars, NEW body \in Bodies({}), NullAlt(sc, body)
  PROVE  GenInv'
<1> DEFINE owned == env.owned \ {sc}
           drop == owned \ body.vars
           nulled == [held EXCEPT !.null = @ \cup {sc}, !.ok = @ /\ held.refs[sc] > 0]
           h == RemoveVars(nulled, drop)
           freed == Values(Without(env.reuse, body.cons))
           r == RemoveReuseConstructors(h, Without(env.reuse, body.cons))
           e == [owned |-> owned \cap body.vars, reuse |-> Only(env.reuse, body.cons)]
<1>1. status = "runs" /\ body \in Terms /\ body.vars \subseteq term.vars /\ sc \in Var
  BY NamedIsHeld DEF NullAlt, Alternative, Bodies, Terms
<1>2. held' = r /\ env' = e /\ term' = body /\ status' = status /\ next' = next /\ lets' = lets
  BY DEF NullAlt, Continue
<1>3. held.refs[sc] > 0
  BY <1>1, NamedIsHeld, KeptHere DEF Holds
<1>4. /\ nulled \in Holding /\ nulled.refs = held.refs /\ nulled.cell = held.cell
      /\ nulled.null = held.null \cup {sc} /\ nulled.lost = held.lost /\ nulled.ok
  BY <1>1, <1>3, NamedIsHeld DEF Holding
<1> HIDE DEF nulled
<1>5. Spends(nulled, h, drop)
  <2>1. drop \in SUBSET Var
    BY <1>1, NamedIsHeld
  <2>2. \A v \in drop \ nulled.null : nulled.refs[v] >= 1
    BY <1>1, <1>4, KeptHere
  <2> HIDE DEF drop
  <2> QED
    BY <1>4, <2>1, <2>2, RemoveVarsSpends
<1> HIDE DEF h
<1>6. /\ r \in Holding /\ r.refs = h.refs /\ r.null = h.null /\ r.lost = h.lost /\ r.ok
      /\ freed \subseteq Values(env.reuse)
      /\ Values(e.reuse) = Values(env.reuse) \ freed
      /\ \A v \in Var : r.cell[v] \in WaitingCell <=> h.cell[v] \in WaitingCell /\ v \notin freed
  BY <1>1, <1>4, <1>5, KeptHere, FreesKept DEF Spends, SameButRefs
<1> HIDE DEF r, freed
<1>7. e \in Envs /\ Fits(e, body)
  <2> DEFINE e0 == [owned |-> (env.owned \cup {}) \cap body.vars, reuse |-> Only(env.reuse, body.cons)]
  <2>1. e0 \in Envs /\ Fits(e0, body)
    BY <1>1, BodyEnv
  <2> QED
    BY <2>1 DEF Envs, Fits
<1>8. e.owned = owned \cap body.vars
  OBVIOUS
<1> HIDE DEF e
<1>9. ASSUME NEW v \in Var
      PROVE  /\ VarInv(v, r, e, body, Owning(v), Saving(v), Naming(v))
             /\ v \notin Bound => Fresh(v, r)
  <2>1. /\ VarInv(v, held, env, term, Owning(v), Saving(v), Naming(v))
        /\ v \notin Bound => Fresh(v, held) /\ v \notin env.owned /\ v # sc
        /\ held \in Holding /\ held.refs[v] \in Int
    BY <1>1 DEF GenInv, AllHeld, Each, Shape, Fits, Holding
  <2>2. /\ r.refs[v] = held.refs[v] - (IF v \in drop \ held.null THEN 1 ELSE 0)
        /\ r.null = held.null \cup {sc} /\ r.lost = held.lost
        /\ r.cell[v] \in WaitingCell <=> held.cell[v] \in WaitingCell /\ v \notin freed
    BY <1>4, <1>5, <1>6 DEF Spends, SameButRefs
  <2>3. Recounted(v, held, r, env, e, {}, drop, {}, {sc})
    BY <1>3, <1>8, <2>1, <2>2 DEF Recounted
  <2>4. Rekept(v, held, r, env, e, freed, {})
    BY <1>6, <1>8, <2>2 DEF Rekept
  <2>5. Renamed(v, r, env, e, term, body)
    BY <1>1, <1>8, <2>2 DEF Renamed
  <2>6. VarInv(v, r, e, body, Owning(v), Saving(v), Naming(v))
    BY <1>6, <2>1, <2>3, <2>4, <2>5, AlternativeVar
  <2>7. v \notin Bound => Fresh(v, r)
    BY <2>1, <2>2 DEF Fresh
  <2> QED
    BY <2>6, <2>7
<1>10. next' \in next .. MaxVar + 1 /\ next .. next' - 1 = {} /\ body.vars \subseteq Bound
  BY <1>1, <1>2, GeneratorAssumption DEF GenInv, Shape
<1> QED
  BY <1>1, <1>2, <1>6, <1>7, <1>9, <1>10, AlternativeKeeps

\* The fields of a constructor of arity k are k variables.
LEMMA CountRange ==
  ASSUME NEW a \in Nat, NEW k \in Nat
  PROVE  Cardinality(a .. a + k - 1) = k
<1>1. a \in Int /\ a + k - 1 \in Int
  OBVIOUS
<1>2. Cardinality(a .. a + k - 1) = IF a > a + k - 1 THEN 0 ELSE a + k - 1 - a + 1
  BY ONLY <1>1, FS_Interval
<1>3. (IF a > a + k - 1 THEN 0 ELSE a + k - 1 - a + 1) = k
  OBVIOUS
<1> QED
  BY ONLY <1>2, <1>3

\* A constructor is matched: however its fields are taken, each that is used
\* is owned, and the cell waits where one of its kind is built.
LEMMA ConAltKeeps ==
  ASSUME GenInv, NEW k \in 0 .. MaxField, NEW n \in Name, NEW sc \in term.vars,
         NEW fields, fields = next .. next + k - 1, fields \subseteq Var,
         NEW body \in Bodies(fields), ConAlt(n, sc, fields, body)
  PROVE  GenInv'
<1> DEFINE owned == env.owned \cup fields
           drop == owned \ body.vars
           rest == Only(env.reuse, body.cons)
           freed == Values(Without(env.reuse, body.cons))
           Free(h) == RemoveReuseConstructors(h, Without(env.reuse, body.cons))
           e == [owned |-> owned \cap body.vars, reuse |-> rest]
           reusing == [e EXCEPT !.reuse = [m \in DOMAIN rest \cup {n} |->
                                             IF m = n THEN sc ELSE rest[m]]]
<1>1. /\ status = "runs" /\ body \in Terms /\ body.vars \subseteq term.vars \cup fields
      /\ sc \in Var /\ sc \notin held.null /\ status' = status /\ lets' = lets /\ term' = body
      /\ next \in Nat /\ next \in 1 .. MaxVar + 1
      /\ held \in Holding /\ held.ok /\ env.owned \subseteq term.vars /\ term.vars \subseteq Bound
      /\ OneName(env.reuse)
  <2>1. body \in Terms
    BY NamedIsHeld DEF Bodies, Terms, ConAlt, Alternative
  <2>2. term' = body /\ status' = status
    BY DEF ConAlt, Continue
  <2> QED
    BY <2>1, <2>2, GeneratorAssumption DEF ConAlt, Alternative, GenInv, Shape, Fits, Terms
<1>2. /\ next' = next + k /\ next' \in next .. MaxVar + 1 /\ next .. next' - 1 = fields
  <2>1. Cardinality(fields) = k
    <3>1. k \in Nat
      BY GeneratorAssumption
    <3>2. Cardinality(next .. next + k - 1) = k
      BY ONLY <1>1, <3>1, CountRange
    <3> QED
      BY ONLY <3>2, fields = next .. next + k - 1
  <2>2. next' = next + k
    BY <2>1 DEF ConAlt
  <2>3. k > 0 => next + k - 1 \in Var
    BY <1>1
  <2> QED
    BY <1>1, <2>2, <2>3, GeneratorAssumption DEF Var
<1>3. Use(held, {sc}) = held
  BY <1>1, NamedIsHeld, UseHeld DEF Holds
<1>4. /\ \A v \in fields : Fresh(v, held) /\ v \notin env.owned /\ v \notin Bound
      /\ sc \notin fields /\ held.refs[sc] > 0
      /\ \A v \in drop \ (fields \cup held.null) : held.refs[v] >= 1
      /\ drop \in SUBSET Var
  <2>1. Bound \cap fields = {}
    BY <1>1 DEF Bound
  <2>2. \A v \in fields : Fresh(v, held)
    BY <1>1, <2>1, KeptHere
  <2>3. held.refs[sc] > 0
    BY <1>1, NamedIsHeld DEF Holds
  <2> QED
    BY <1>1, <2>1, <2>2, <2>3, NamedIsHeld, KeptHere
<1>5. /\ e \in Envs /\ Fits(e, body)
      /\ e.owned = owned \cap body.vars /\ e.reuse = rest
  <2>1. fields \in SUBSET Var
    OBVIOUS
  <2> QED
    BY <1>1, <2>1, BodyEnv
<1>6. Values(rest) = Values(env.reuse) \ freed /\ freed \subseteq Values(env.reuse)
  BY <1>1, KeptHere, FreesKept
<1> HIDE DEF rest, freed
<1> DEFINE Taken(h, e2, gets, forgets, kept) ==
             /\ h \in Holding /\ Changes(held, h, gets, drop \ fields, forgets)
             /\ \A v \in Var : h.cell[v] \in WaitingCell <=> held.cell[v] \in WaitingCell \/ v \in kept
             /\ e2 \in Envs /\ Fits(e2, body) /\ e2.owned = owned \cap body.vars
             /\ Values(e2.reuse) = Values(rest) \cup kept
             /\ kept \subseteq {sc} /\ (kept # {} => sc \in drop)
             /\ gets \subseteq fields /\ forgets \subseteq gets
             /\ \A v \in fields : v \in body.vars <=> v \in gets /\ v \notin forgets
<1>7. ASSUME NEW h, NEW e2, NEW gets, NEW forgets, NEW kept,
             Taken(h, e2, gets, forgets, kept), held' = Free(h), env' = e2
      PROVE  GenInv'
  <2> DEFINE r == Free(h)
  <2>1. /\ r \in Holding /\ r.refs = h.refs /\ r.null = h.null /\ r.lost = h.lost /\ r.ok
        /\ \A v \in Var : r.cell[v] \in WaitingCell <=> h.cell[v] \in WaitingCell /\ v \notin freed
    <3>1. h \in Holding /\ h.ok /\ \A v \in Values(env.reuse) : h.cell[v] \in WaitingCell
      BY <1>1, <1>7, KeptHere DEF Changes
    <3> HIDE DEF Taken
    <3> QED
      BY <1>1, <3>1, FreesKept DEF freed
  <2>2. held' = r
    BY <1>7
  <2> HIDE DEF r
  <2>3. ASSUME NEW v \in Var
        PROVE  /\ VarInv(v, r, e2, body, Owning(v), Saving(v), Naming(v))
               /\ v \notin Bound \cup fields => Fresh(v, r)
    <3>1. /\ VarInv(v, held, env, term, Owning(v), Saving(v), Naming(v))
          /\ v \notin Bound => Fresh(v, held) /\ v \notin env.owned /\ v # sc
          /\ held.refs[v] \in Int
      BY <1>1 DEF GenInv, AllHeld, Each, Holding
    <3>2. /\ r.refs[v] = held.refs[v] + (IF v \in gets THEN 1 ELSE 0)
                                      - (IF v \in (drop \ fields) \ held.null THEN 1 ELSE 0)
          /\ r.null = held.null /\ r.lost = held.lost \cup forgets
          /\ r.cell[v] \in WaitingCell <=>
               (held.cell[v] \in WaitingCell \/ v \in kept) /\ v \notin freed
      BY <1>7, <2>1 DEF Changes
    <3>3. v \in kept => v = sc /\ v \in env.owned /\ v \notin e2.owned /\ v \notin freed
      BY <1>1, <1>4, <1>6, <1>7, KeptHere
    <3>4. Recounted(v, held, r, env, e2, gets, drop \ fields, forgets, {})
      <4>1. v \in gets => Fresh(v, held)
        BY <1>4, <1>7
      <4>2. v \in drop \ fields => v \in env.owned
        OBVIOUS
      <4>3. v \in e2.owned <=> \/ v \in env.owned /\ v \notin drop \ fields
                               \/ v \in gets /\ v \notin forgets
        BY <1>4, <1>7
      <4> QED
        BY <1>7, <3>2, <4>1, <4>2, <4>3 DEF Recounted
    <3>5. Rekept(v, held, r, env, e2, freed, kept)
      <4>1. v \in e2.owned => v \in env.owned \/ Fresh(v, held)
        BY <1>4, <1>7
      <4> QED
        BY <1>6, <1>7, <3>2, <3>3, <4>1 DEF Rekept
    <3>6. Renamed(v, r, env, e2, term, body)
      BY <1>1, <1>7 DEF Renamed
    <3>7. VarInv(v, r, e2, body, Owning(v), Saving(v), Naming(v))
      BY <1>1, <2>1, <3>1, <3>4, <3>5, <3>6, AlternativeVar
    <3>8. v \notin Bound \cup fields => Fresh(v, r)
      <4> SUFFICES ASSUME v \notin Bound \cup fields PROVE Fresh(v, r)
        OBVIOUS
      <4>1. v \notin gets /\ v \notin drop /\ v \notin kept /\ v \notin forgets
        BY <1>7, <3>1, <3>3
      <4> HIDE DEF drop
      <4>2. r.refs[v] = held.refs[v] /\ v \notin Bound
        BY <3>1, <3>2, <4>1
      <4>3. v \notin r.lost <=> v \notin held.lost
        BY <3>2, <4>1
      <4>4. r.cell[v] \in WaitingCell => held.cell[v] \in WaitingCell
        BY <3>2, <4>1
      <4> QED
        BY <3>1, <3>2, <4>2, <4>3, <4>4 DEF Fresh
    <3> QED
      BY <3>7, <3>8
  <2>4. body.vars \subseteq Bound \cup fields
    BY <1>1
  <2> QED
    BY <1>1, <1>2, <1>7, <2>1, <2>2, <2>3, <2>4, AlternativeKeeps
<1>8. fields \in SUBSET Var /\ drop \in SUBSET Var
  BY <1>4
<1>9. /\ \A v \in fields : v \in body.vars <=> v \in fields \ drop
      /\ \A v \in fields : v \in body.vars <=> v \in fields /\ v \notin fields \cap drop
  OBVIOUS
<1>a. /\ fields \in SUBSET Var /\ drop \in SUBSET Var /\ sc \in Var
       /\ held \in Holding /\ held.ok /\ held.refs[sc] > 0 /\ sc \notin held.null /\ sc \notin fields
       /\ \A v \in drop \ (fields \cup held.null) : held.refs[v] >= 1
  BY <1>1, <1>4, <1>8
<1> HIDE DEF drop, owned, Free, e
<1>10. CASE ~MayReuse(n, sc, drop, body)
  <2> DEFINE h == OpenShared(held, sc, fields, drop)
  <2>1. held' = Free(h) /\ env' = e
    BY <1>3, <1>10 DEF ConAlt, Continue, rest, drop, owned, e, Free
  <2>2. Changes(held, h, fields \ drop, drop \ fields, {}) /\ h.cell = held.cell
    BY ONLY <1>a, OpenSharedChanges
  <2> HIDE DEF h
  <2>3. Taken(h, e, fields \ drop, {}, {})
    BY <1>5, <1>9, <2>2 DEF Changes
  <2> HIDE DEF Taken
  <2> QED
    BY <1>7, <2>1, <2>3
<1>11. CASE MayReuse(n, sc, drop, body)
  <2>1. sc \in drop /\ n \notin DOMAIN env.reuse /\ n \in body.cons
    BY <1>11 DEF MayReuse
  <2>2. /\ reusing \in Envs /\ Fits(reusing, body) /\ reusing.owned = owned \cap body.vars
        /\ Values(reusing.reuse) = Values(rest) \cup {sc}
    <3> DEFINE map == [m \in DOMAIN rest \cup {n} |-> IF m = n THEN sc ELSE rest[m]]
    <3>1. e = [owned |-> owned \cap body.vars, reuse |-> rest]
      BY DEF e
    <3>a. reusing = [e EXCEPT !.reuse = map]
      OBVIOUS
    <3> HIDE DEF map, reusing
    <3>2. reusing = [owned |-> owned \cap body.vars, reuse |-> map]
      BY <3>1, <3>a
    <3> USE DEF map
    <3>b. DOMAIN rest \subseteq DOMAIN env.reuse
      BY DEF rest, Only
    <3>3. n \notin DOMAIN rest /\ DOMAIN rest \subseteq body.cons /\ OneName(rest)
      BY <1>5, <2>1, <3>b DEF Fits
    <3>4. sc \notin Values(rest)
      BY <1>1, <1>4, <1>6, <2>1, KeptHere DEF drop, owned
    <3>5. PICK D \in SUBSET Name : rest \in [D -> Var]
      BY <1>5, <3>1 DEF Envs, ReuseMaps
    <3>6. map \in [D \cup {n} -> Var] /\ D \cup {n} \in SUBSET Name
      BY <1>1, <3>5
    <3>7. map \in ReuseMaps
      BY <3>6 DEF ReuseMaps
    <3>8. Values(map) = Values(rest) \cup {sc}
      BY <3>3 DEF Values
    <3>9. OneName(map)
      BY <3>3, <3>4 DEF OneName, Values
    <3>10. DOMAIN map \subseteq body.cons
      BY <2>1, <3>3
    <3> HIDE DEF map
    <3>11. owned \cap body.vars \in SUBSET Var
      BY <1>5 DEF Envs
    <3> QED
      BY <3>2, <3>7, <3>8, <3>9, <3>10, <3>11 DEF Envs, Fits
  <2> HIDE DEF reusing
  <2>3. CASE held' = Free(OpenUnique(held, sc, fields, drop)) /\ env' = reusing
    <3> DEFINE h == OpenUnique(held, sc, fields, drop)
    <3>1. /\ Changes(held, h, fields, drop \ fields, fields \cap drop)
          /\ \A v \in Var : h.cell[v] = IF v = sc THEN "cell" ELSE held.cell[v]
      BY ONLY <1>a, <2>1, OpenUniqueChanges
    <3> HIDE DEF h
    <3>2. \A v \in Var : h.cell[v] \in WaitingCell <=> held.cell[v] \in WaitingCell \/ v \in {sc}
      BY <3>1 DEF WaitingCell
    <3>3. Taken(h, reusing, fields, fields \cap drop, {sc})
      BY <1>9, <2>1, <2>2, <3>1, <3>2 DEF Changes
    <3> HIDE DEF Taken
    <3> QED
      BY <1>7, <2>3, <3>3 DEF h
  <2>4. CASE held' = Free(OpenShared(SetCells(held, {sc}, "NULL"), sc, fields, drop)) /\ env' = reusing
    <3> DEFINE s == SetCells(held, {sc}, "NULL")
               h == OpenShared(s, sc, fields, drop)
               cells == [v \in Var |-> IF v = sc THEN "NULL" ELSE held.cell[v]]
    <3>1. s = [held EXCEPT !.cell = cells] /\ cells \in [Var -> Cells]
      BY <1>1 DEF SetCells, Holding, Cells
    <3> HIDE DEF cells
    <3>2. /\ s \in Holding /\ s.refs = held.refs /\ s.cell = cells
          /\ s.null = held.null /\ s.lost = held.lost /\ s.ok
      BY <1>1, <3>1 DEF Holding
    <3> HIDE DEF s
    <3>3. Changes(s, h, fields \ drop, drop \ fields, {}) /\ h.cell = cells
      <4>1. /\ s \in Holding /\ s.ok /\ s.refs[sc] > 0
            /\ \A v \in drop \ (fields \cup s.null) : s.refs[v] >= 1
        BY <1>a, <3>2
      <4> QED
        BY ONLY <1>a, <3>2, <4>1, OpenSharedChanges
    <3> HIDE DEF h
    <3>4. Changes(held, h, fields \ drop, drop \ fields, {})
      BY <3>2, <3>3 DEF Changes
    <3>5. \A v \in Var : h.cell[v] \in WaitingCell <=> held.cell[v] \in WaitingCell \/ v \in {sc}
      BY <3>3 DEF cells, WaitingCell
    <3>6. Taken(h, reusing, fields \ drop, {}, {sc})
      BY <1>9, <2>1, <2>2, <3>4, <3>5 DEF Changes
    <3> HIDE DEF Taken
    <3> QED
      BY <1>7, <2>4, <3>6 DEF h, s
  <2> QED
    BY <1>3, <1>11, <2>3, <2>4 DEF ConAlt, Continue, rest, drop, owned, e, Free, reusing
<1> QED
  BY <1>10, <1>11

------------------------------------------------------------------------------
(* The whole function *)

LEMMA NothingHeldFacts ==
  /\ NothingHeld \in Holding /\ NothingHeld.ok
  /\ NothingHeld.null = {} /\ NothingHeld.lost = {}
  /\ \A v \in Var : NothingHeld.refs[v] = 0 /\ NothingHeld.cell[v] \notin WaitingCell
<1>1. NothingHeld.ok
  BY DEF NothingHeld
<1>2. NothingHeld \in Holding
  BY DEF NothingHeld, Holding, Cells
<1> QED
  BY <1>1, <1>2 DEF NothingHeld, WaitingCell

LEMMA GenInit == Init => GenInv
<1> SUFFICES ASSUME Init PROVE GenInv
  OBVIOUS
<1>1. /\ next \in 1 .. MaxVar + 1 /\ next \in Nat /\ lets = <<>> /\ env = NoEnv
      /\ held = NothingHeld /\ status = "called" /\ DOMAIN lets = {} /\ lets \in Seq(Lets)
      /\ term \in Terms /\ term.vars \subseteq 1 .. next - 1
  <2>1. /\ next \in 1 .. MaxVar + 1 /\ next \in Nat /\ 1 .. next - 1 \subseteq Var
        /\ lets = <<>> /\ env = NoEnv /\ held = NothingHeld /\ status = "called"
    BY GeneratorAssumption DEF Init, NoEnv, Var
  <2>2. PICK vs \in SUBSET (1 .. next - 1), cs \in SUBSET Name : term = Term(vs, cs)
    BY DEF Init
  <2>3. term \in Terms /\ term.vars \subseteq 1 .. next - 1
    BY <2>1, <2>2 DEF Term, Terms
  <2> QED
    BY <2>1, <2>3
<1>2. term.vars \subseteq Bound
  BY <1>1 DEF Bound, Pending
<1>3. Fits(env, term)
  BY <1>1, NoEnvFacts DEF Fits
<1> QED
  BY <1>1, <1>2, <1>3, NoEnvFacts, NothingHeldFacts DEF GenInv, Shape, Lifecycle

\* The function is entered with a reference to each argument.
LEMMA EnteredFacts ==
  ASSUME GenInv, status = "called", NEW args, args = 1 .. next - 1
  PROVE  LET r == Bind(held, args)
         IN  /\ r \in Holding /\ r.ok /\ r.null = {} /\ r.lost = {}
             /\ \A v \in Var : r.refs[v] = IF v \in args THEN 1 ELSE 0
             /\ \A v \in Var : r.cell[v] \notin WaitingCell
<1> DEFINE r == Bind(held, args)
           bound == [v \in Var |-> IF v \in args THEN 1 ELSE 0]
<1>1. held = NothingHeld /\ args \subseteq Var
  BY GeneratorAssumption DEF GenInv, Lifecycle, Shape, Var
<1>2. \A v \in Var : held.refs[v] = 0
  BY <1>1, NothingHeldFacts
<1>3. [v \in Var |-> held.refs[v] + IF v \in args THEN 1 ELSE 0] = bound
  BY <1>2
<1>4. r = [held EXCEPT !.refs = bound] /\ bound \in [Var -> Int]
  <2>1. r = [held EXCEPT !.refs = [v \in Var |-> held.refs[v] + IF v \in args THEN 1 ELSE 0]]
    BY <1>1, NothingHeldFacts DEF Bind, Holding
  <2> QED
    BY <2>1, <1>3
<1>5. \A v \in Var : bound[v] = IF v \in args THEN 1 ELSE 0
  OBVIOUS
<1> HIDE DEF bound
<1>6. /\ r \in Holding /\ r.refs = bound /\ r.cell = held.cell
      /\ r.null = held.null /\ r.lost = held.lost /\ r.ok
  BY <1>1, <1>4, NothingHeldFacts DEF Holding
<1> QED
  BY <1>1, <1>5, <1>6, NothingHeldFacts

\* Without lets around a function holds what the term owns.
LEMMA Outermost ==
  ASSUME NEW v \in Var, NEW r, NEW e, NEW t,
         r.null = {}, r.lost = {}, r.cell[v] \notin WaitingCell, Values(e.reuse) = {},
         r.refs[v] = IF v \in e.owned THEN 1 ELSE 0,
         v \in t.vars => v \in e.owned
  PROVE  VarInv(v, r, e, t, {}, {}, {})
  BY DEF VarInv, Counted, OwnedOnce, CellOnce, NamedHeld, AtMostOne

LEMMA EnterKeeps ==
  ASSUME GenInv, Enter
  PROVE  GenInv'
<1> DEFINE args == 1 .. next - 1
           h == Bind(held, args)
           r == RemoveVars(h, args \ term.vars)
<1>1. /\ status = "called" /\ status' = "runs" /\ next' = next /\ term' = term /\ lets' = lets
      /\ env' = [env EXCEPT !.owned = term.vars] /\ held' = r
  BY DEF Enter
<1>2. /\ lets = <<>> /\ env = NoEnv /\ DOMAIN lets = {} /\ term \in Terms
      /\ term.vars \subseteq Bound /\ next \in 1 .. MaxVar + 1 /\ lets \in Seq(Lets)
  BY <1>1 DEF GenInv, Lifecycle, Shape
<1>3. Bound = args /\ args \in SUBSET Var
  BY <1>2, GeneratorAssumption DEF Bound, Pending, Var
<1>4. /\ h \in Holding /\ h.ok /\ h.null = {} /\ h.lost = {}
      /\ \A v \in Var : h.refs[v] = IF v \in args THEN 1 ELSE 0
      /\ \A v \in Var : h.cell[v] \notin WaitingCell
  BY <1>1, EnteredFacts
<1> HIDE DEF args
<1>5. Spends(h, r, args \ term.vars)
  BY <1>3, <1>4, RemoveVarsSpends
<1> HIDE DEF h, r
<1>6. /\ r \in Holding /\ r.ok /\ r.null = {} /\ r.lost = {}
      /\ \A v \in Var : r.refs[v] = IF v \in term.vars THEN 1 ELSE 0
      /\ \A v \in Var : r.cell[v] \notin WaitingCell
  BY <1>2, <1>3, <1>4, <1>5 DEF Spends, SameButRefs
<1>7. /\ env' \in Envs /\ Fits(env', term) /\ Values(env'.reuse) = {} /\ env'.owned = term.vars
  <2>1. env' = [owned |-> term.vars, reuse |-> <<>>]
    BY <1>1, <1>2 DEF NoEnv
  <2>2. <<>> \in ReuseMaps
    BY NoEnvFacts DEF Envs, NoEnv
  <2> QED
    BY <1>2, <2>1, <2>2, NoEnvFacts DEF Envs, Fits, Terms, OneName, Values
<1>8. Bound' = Bound
  BY <1>1 DEF Bound, Pending
<1>9. Shape'
  BY <1>1, <1>2, <1>6, <1>7, <1>8 DEF Shape
<1>10. AllHeld'
  <2> SUFFICES ASSUME NEW v \in Var
               PROVE  /\ VarInv(v, held', env', term', Owning(v)', Saving(v)', Naming(v)')
                      /\ v \notin Bound' => Fresh(v, held')
    BY DEF AllHeld, Each
  <2>1. Owning(v)' = {} /\ Saving(v)' = {} /\ Naming(v)' = {}
    BY <1>1, <1>2 DEF Owning, Saving, Naming
  <2>2. VarInv(v, held', env', term', {}, {}, {})
    BY <1>1, <1>6, <1>7, Outermost
  <2>3. v \notin Bound' => Fresh(v, held')
    BY <1>1, <1>2, <1>6, <1>8 DEF Fresh
  <2> QED
    BY <2>1, <2>2, <2>3
<1> QED
  BY <1>1, <1>6, <1>9, <1>10 DEF GenInv, Lifecycle

LEMMA ForeignKeeps ==
  ASSUME GenInv, Foreign
  PROVE  GenInv'
<1> DEFINE args == 1 .. next - 1
           h == Bind(held, args)
           r == RemoveVars(h, args)
<1>1. /\ status = "called" /\ status' = "returned" /\ next' = next /\ term' = NoTerm
      /\ lets' = lets /\ env' = env /\ held' = RemoveVars(Use(h, args), args)
  BY DEF Foreign, NoTerm
<1>2. /\ lets = <<>> /\ env = NoEnv /\ DOMAIN lets = {}
      /\ next \in 1 .. MaxVar + 1 /\ lets \in Seq(Lets)
  BY <1>1 DEF GenInv, Lifecycle, Shape
<1>3. Bound = args /\ args \in SUBSET Var
  BY <1>2, GeneratorAssumption DEF Bound, Pending, Var
<1>4. /\ h \in Holding /\ h.ok /\ h.null = {} /\ h.lost = {}
      /\ \A v \in Var : h.refs[v] = IF v \in args THEN 1 ELSE 0
      /\ \A v \in Var : h.cell[v] \notin WaitingCell
  BY <1>1, EnteredFacts
<1> HIDE DEF args
<1>5. Use(h, args) = h
  <2> HIDE DEF h
  <2>1. Holds(h, args)
    BY <1>3, <1>4 DEF Holds
  <2> QED
    BY <1>3, <1>4, <2>1, UseHeld
<1>6. Spends(h, r, args)
  BY <1>3, <1>4, RemoveVarsSpends
<1>7. held' = r
  BY <1>1, <1>5
<1> HIDE DEF h, r
<1>8. /\ r \in Holding /\ r.ok /\ r.null = {} /\ r.lost = {}
      /\ \A v \in Var : r.refs[v] = 0
      /\ \A v \in Var : r.cell[v] \notin WaitingCell
  BY <1>3, <1>4, <1>6 DEF Spends, SameButRefs
<1>9. Bound' = Bound
  BY <1>1 DEF Bound, Pending
<1>10. Shape'
  BY <1>1, <1>2, <1>7, <1>8, <1>9, NoEnvFacts DEF Shape
<1>11. AllHeld'
  <2> SUFFICES ASSUME NEW v \in Var
               PROVE  /\ VarInv(v, held', env', term', Owning(v)', Saving(v)', Naming(v)')
                      /\ v \notin Bound' => Fresh(v, held')
    BY DEF AllHeld, Each
  <2>1. Owning(v)' = {} /\ Saving(v)' = {} /\ Naming(v)' = {}
    BY <1>1, <1>2 DEF Owning, Saving, Naming
  <2>2. VarInv(v, held', env', term', {}, {}, {})
    BY <1>1, <1>2, <1>7, <1>8, NoEnvFacts, Outermost
  <2>3. v \notin Bound' => Fresh(v, held')
    BY <1>7, <1>8 DEF Fresh
  <2> QED
    BY <2>1, <2>2, <2>3
<1> QED
  BY <1>1, <1>2, <1>7, <1>8, <1>10, <1>11 DEF GenInv, Lifecycle

------------------------------------------------------------------------------
(* Types, which hold also after a variable was applied to itself *)

Sits(e, t) == e.owned \subseteq t.vars /\ DOMAIN e.reuse \subseteq t.cons
TypedLet == {l \in Lets : Sits(l.env, l.body)}

Types ==
  /\ status \in {"called", "runs", "returned"}
  /\ next \in 1 .. MaxVar + 1
  /\ term \in Terms
  /\ env \in Envs
  /\ Sits(env, term)
  /\ lets \in Seq(TypedLet)
  /\ status = "called" => env = NoEnv

LEMMA TypesStart == Init => Types
<1> SUFFICES ASSUME Init PROVE Types
  OBVIOUS
<1>1. GenInv
  BY GenInit
<1>2. lets = <<>>
  BY DEF Init
<1> QED
  BY <1>1, <1>2, NoEnvFacts DEF GenInv, Shape, Lifecycle, Fits, Types, Sits

LEMMA TypesDeliver ==
  ASSUME Types, NEW h, Deliver(h)
  PROVE  Types'
<1>1. CASE lets = <<>>
  <2>1. /\ status' = "returned" /\ env' = NoEnv /\ term' = NoTerm
        /\ next' = next /\ lets' = lets
    BY <1>1 DEF Deliver, NoEnv, NoTerm
  <2> QED
    BY <2>1, NoEnvFacts DEF Types, Sits, Fits
<1>2. CASE lets # <<>>
  <2> DEFINE l == lets[Len(lets)]
  <2>1. /\ term' = l.body /\ env' = l.env /\ status' = "runs" /\ next' = next
        /\ lets' = SubSeq(lets, 1, Len(lets) - 1)
    BY <1>2 DEF Deliver, Continue
  <2>2. l \in TypedLet /\ lets' \in Seq(TypedLet)
    BY <1>2, <2>1 DEF Types
  <2>3. l.body \in Terms /\ l.env \in Envs /\ Sits(l.env, l.body)
    BY <2>2 DEF TypedLet, Lets
  <2> QED
    BY <2>1, <2>2, <2>3 DEF Types
<1> QED
  BY <1>1, <1>2

LEMMA TypesLet ==
  ASSUME Types, ALet
  PROVE  Types'
<1> DEFINE x == next
<1>1. PICK vv \in SUBSET term.vars, vc \in SUBSET term.cons,
           bv \in SUBSET (term.vars \cup {x}), bc \in SUBSET term.cons :
        LET value == Term(vv, vc)
            body == Term(bv, bc)
        IN /\ vv \cup (bv \ {x}) = term.vars
           /\ vc \cup bc = term.cons
           /\ lets' = Append(lets, [var |-> x, body |-> body, env |-> LetBody(x, value, body)])
           /\ Continue(held, value, LetValue(x, value, body))
  BY DEF ALet
<1> DEFINE value == Term(vv, vc)
           body == Term(bv, bc)
           eb == LetBody(x, value, body)
           ev == LetValue(x, value, body)
           l == [var |-> x, body |-> body, env |-> eb]
<1>2. /\ status' = "runs" /\ next' = next + 1 /\ x \in Var /\ term' = value /\ env' = ev
      /\ lets' = Append(lets, l) /\ next' \in 1 .. MaxVar + 1
  BY <1>1, GeneratorAssumption DEF ALet, Continue, Types, Var
<1>3. /\ value.vars = vv /\ value.cons = vc /\ body.vars = bv /\ body.cons = bc
      /\ vv \cup (bv \ {x}) = term.vars /\ vc \cup bc = term.cons
  BY <1>1 DEF Term
<1>4. /\ value \in Terms /\ body \in Terms
      /\ env.owned \in SUBSET Var /\ env.reuse \in ReuseMaps
      /\ env.owned \subseteq term.vars /\ DOMAIN env.reuse \subseteq term.cons
  BY <1>2 DEF Terms, Term, Types, Sits, Envs
<1>5. /\ Only(env.reuse, vc) \in ReuseMaps /\ Without(env.reuse, vc) \in ReuseMaps
      /\ DOMAIN Only(env.reuse, vc) = DOMAIN env.reuse \cap vc
      /\ DOMAIN Without(env.reuse, vc) = DOMAIN env.reuse \ vc
  BY <1>4, ReuseParts DEF Only, Without
<1>6. /\ ev.owned = env.owned \ (bv \ {x}) /\ ev.reuse = Only(env.reuse, vc)
      /\ eb.owned = IF x \in bv THEN (env.owned \cap (bv \ {x})) \cup {x}
                                ELSE env.owned \cap (bv \ {x})
      /\ eb.reuse = Without(env.reuse, vc)
  BY <1>3 DEF LetValue, LetBody
<1>7. ev \in Envs /\ eb \in Envs
  BY <1>2, <1>4, <1>5, <1>6 DEF LetValue, LetBody, Envs
<1>8. Sits(ev, value) /\ Sits(eb, body)
  BY <1>3, <1>4, <1>5, <1>6 DEF Sits
<1>9. l \in TypedLet
  BY <1>2, <1>4, <1>7, <1>8 DEF TypedLet, Lets
<1> HIDE DEF l, value, body, ev, eb
<1> QED
  BY <1>2, <1>4, <1>7, <1>8, <1>9 DEF Types

\* An alternative goes on with a part of what there was, and what it binds.
LEMMA TypesAlternative ==
  ASSUME Types, status # "called", NEW body \in Terms, NEW o \in SUBSET Var,
         status' = status, lets' = lets, term' = body, next' \in 1 .. MaxVar + 1,
         env' = [owned |-> o \cap body.vars, reuse |-> Only(env.reuse, body.cons)]
  PROVE  Types'
<1>1. /\ Only(env.reuse, body.cons) \in ReuseMaps
      /\ DOMAIN Only(env.reuse, body.cons) = DOMAIN env.reuse \cap body.cons
  BY ReuseParts DEF Types, Envs, Only
<1>2. env' \in Envs
  BY <1>1 DEF Envs
<1>3. Sits(env', body)
  BY <1>1 DEF Sits
<1> QED
  BY <1>2, <1>3 DEF Types

LEMMA TypesConAlt ==
  ASSUME Types, NEW k \in 0 .. MaxField, NEW n \in Name, NEW sc \in term.vars,
         NEW fields, fields = next .. next + k - 1, fields \subseteq Var,
         NEW body \in Bodies(fields), ConAlt(n, sc, fields, body)
  PROVE  Types'
<1> DEFINE owned == env.owned \cup fields
           rest == Only(env.reuse, body.cons)
           e == [owned |-> owned \cap body.vars, reuse |-> rest]
           reusing == [e EXCEPT !.reuse = [m \in DOMAIN rest \cup {n} |->
                                             IF m = n THEN sc ELSE rest[m]]]
<1>1. /\ body \in Terms /\ sc \in Var /\ owned \in SUBSET Var /\ k \in Nat
      /\ next \in Nat /\ next \in 1 .. MaxVar + 1 /\ env.reuse \in ReuseMaps
  BY GeneratorAssumption DEF Bodies, Terms, Types, Envs
<1>2. /\ next' = next + Cardinality(fields) /\ lets' = lets /\ status' = status /\ term' = body
      /\ status = "runs"
  BY DEF ConAlt, Continue, Alternative
<1>3. next' \in 1 .. MaxVar + 1
  <2>1. Cardinality(next .. next + k - 1) = k
    BY ONLY <1>1, CountRange
  <2>2. next' = next + k
    BY ONLY <1>2, <2>1, fields = next .. next + k - 1
  <2>3. k > 0 => next + k - 1 \in Var
    BY <1>1
  <2> QED
    BY <1>1, <2>2, <2>3, GeneratorAssumption DEF Var
<1>4. \/ env' = e
      \/ env' = reusing /\ n \in body.cons
  BY DEF ConAlt, Continue, MayReuse
<1>5. CASE env' = e
  <2> HIDE DEF owned
  <2> QED
    BY <1>1, <1>2, <1>3, <1>5, TypesAlternative
<1>6. CASE env' = reusing /\ n \in body.cons
  <2>1. PICK D \in SUBSET Name : rest \in [D -> Var]
    BY <1>1, ReuseParts DEF ReuseMaps
  <2>2. DOMAIN rest \subseteq body.cons
    BY DEF Only
  <2>3. [m \in DOMAIN rest \cup {n} |-> IF m = n THEN sc ELSE rest[m]] \in [D \cup {n} -> Var]
    BY <1>1, <2>1
  <2>4. [m \in DOMAIN rest \cup {n} |-> IF m = n THEN sc ELSE rest[m]] \in ReuseMaps
    BY <2>1, <2>3 DEF ReuseMaps
  <2> HIDE DEF rest
  <2>5. env' \in Envs
    BY <1>1, <1>6, <2>4 DEF Envs
  <2>6. Sits(env', body)
    BY <1>6, <2>2 DEF Sits
  <2> QED
    BY <1>1, <1>2, <1>3, <2>5, <2>6 DEF Types
<1> QED
  BY <1>4, <1>5, <1>6

LEMMA TypesStep == Types /\ [Next]_vars => Types'
<1> SUFFICES ASSUME Types, [Next]_vars PROVE Types'
  OBVIOUS
<1>0. env.owned \in SUBSET Var /\ next \in 1 .. MaxVar + 1 /\ term.vars \in SUBSET Var
  BY DEF Types, Envs, Terms
<1>1. CASE Enter
  <2>1. /\ status' = "runs" /\ next' = next /\ term' = term /\ lets' = lets
        /\ env' = [env EXCEPT !.owned = term.vars]
    BY <1>1 DEF Enter
  <2>2. env \in Envs /\ Sits(env, term)
    BY DEF Types
  <2>3. env' \in Envs /\ Sits(env', term)
    BY <1>0, <2>1, <2>2 DEF Sits, Envs
  <2> QED
    BY <2>1, <2>3 DEF Types
<1>2. CASE Foreign
  <2>1. /\ status' = "returned" /\ next' = next /\ env' = NoEnv /\ lets' = lets
        /\ term' = NoTerm
    BY <1>2 DEF Foreign, Types, NoTerm
  <2> QED
    BY <2>1, NoEnvFacts DEF Types, Sits
<1>3. CASE ALet
  BY <1>3, TypesLet
<1>4. ASSUME NEW x \in term.vars, AConCase(x) PROVE Types'
  <2>1. PICK k \in 0 .. MaxField :
          LET fields == next .. next + k - 1 IN
          /\ fields \subseteq Var
          /\ \E n \in Name, body \in Bodies(fields) : ConAlt(n, x, fields, body)
    BY <1>4 DEF AConCase
  <2> DEFINE fields == next .. next + k - 1
  <2>2. PICK n \in Name, body \in Bodies(fields) : ConAlt(n, x, fields, body)
    BY <2>1
  <2>3. fields = next .. next + k - 1 /\ fields \subseteq Var
    BY <2>1
  <2> HIDE DEF fields
  <2> QED
    BY <2>2, <2>3, TypesConAlt
<1>5. ASSUME NEW x \in term.vars, AConstCase(x) PROVE Types'
  <2>1. PICK body \in Bodies({}) : ConcaseBody(x, body)
    BY <1>5 DEF AConstCase
  <2>2. body \in Terms
    BY DEF Bodies, Types, Terms
  <2>3. /\ status' = status /\ lets' = lets /\ term' = body /\ next' = next /\ status = "runs"
        /\ env' = [owned |-> env.owned \cap body.vars, reuse |-> Only(env.reuse, body.cons)]
    BY <2>1 DEF ConcaseBody, Continue, Alternative
  <2> QED
    BY <1>0, <2>2, <2>3, TypesAlternative
<1>6. ASSUME NEW x \in term.vars, ANullCase(x) PROVE Types'
  <2>1. PICK body \in Bodies({}) : NullAlt(x, body)
    BY <1>6 DEF ANullCase
  <2>2. body \in Terms
    BY DEF Bodies, Types, Terms
  <2> DEFINE o == env.owned \ {x}
  <2>3. /\ status' = status /\ lets' = lets /\ term' = body /\ next' = next /\ status = "runs"
        /\ env' = [owned |-> o \cap body.vars, reuse |-> Only(env.reuse, body.cons)]
    BY <2>1 DEF NullAlt, Continue, Alternative
  <2>4. o \in SUBSET Var
    BY <1>0
  <2> HIDE DEF o
  <2> QED
    BY <1>0, <2>2, <2>3, <2>4, TypesAlternative
<1>7. ASSUME NEW h, Deliver(h) PROVE Types'
  BY <1>7, TypesDeliver
<1>8. CASE UNCHANGED vars
  BY <1>8 DEF vars, Types
<1> QED
  BY <1>1, <1>2, <1>3, <1>4, <1>5, <1>6, <1>7, <1>8
     DEF Next, Counting, AConstant, AV, AApp, AAppName, AOp, AExtPrim, ACon

------------------------------------------------------------------------------
(* Until then every step keeps the invariant *)

LEMMA GenStep == GenInv /\ [Next]_vars /\ ~misapplied' => GenInv'
<1> SUFFICES ASSUME GenInv, [Next]_vars, ~misapplied' PROVE GenInv'
  OBVIOUS
<1>1. CASE Enter
  BY <1>1, EnterKeeps
<1>2. CASE Foreign
  BY <1>2, ForeignKeeps
<1>3. CASE AConstant
  BY <1>3, AConstantKeeps
<1>4. CASE ALet
  BY <1>4, ALetKeeps
<1>5. ASSUME NEW x \in term.vars, AV(x) PROVE GenInv'
  BY <1>5, AVKeeps
<1>6. ASSUME NEW x \in term.vars, AConCase(x) PROVE GenInv'
  <2>1. PICK k \in 0 .. MaxField :
          LET fields == next .. next + k - 1 IN
          /\ fields \subseteq Var
          /\ \E n \in Name, body \in Bodies(fields) : ConAlt(n, x, fields, body)
    BY <1>6 DEF AConCase
  <2> DEFINE fields == next .. next + k - 1
  <2>2. PICK n \in Name, body \in Bodies(fields) : ConAlt(n, x, fields, body)
    BY <2>1
  <2>3. fields = next .. next + k - 1 /\ fields \subseteq Var
    BY <2>1
  <2> HIDE DEF fields
  <2> QED
    BY <2>2, <2>3, ConAltKeeps
<1>7. ASSUME NEW x \in term.vars, AConstCase(x) PROVE GenInv'
  BY <1>7, ConcaseBodyKeeps DEF AConstCase
<1>8. ASSUME NEW x \in term.vars, ANullCase(x) PROVE GenInv'
  BY <1>8, NullAltKeeps DEF ANullCase
<1>9. ASSUME NEW x \in term.vars, NEW y \in term.vars, AApp(x, y) PROVE GenInv'
  BY <1>9, AAppKeeps
<1>10. ASSUME NEW args \in ArgLists(term.vars), AAppName(args) \/ AOp(args) PROVE GenInv'
  BY <1>10, CallKeeps
<1>11. ASSUME NEW args \in ArgLists(term.vars), AExtPrim(args) PROVE GenInv'
  BY <1>11, AExtPrimKeeps
<1>12. ASSUME NEW args \in ArgLists(term.vars), NEW n \in Name, ACon(n, args) PROVE GenInv'
  BY <1>12, AConKeeps
<1>13. CASE UNCHANGED vars
  <2>1. Bound' = Bound
    BY <1>13 DEF vars, Bound, Pending
  <2>2. \A i \in DOMAIN lets : LetFits(i) => LetFits(i)'
    BY <1>13, <2>1 DEF vars, LetFits
  <2>3. Shape'
    BY <1>13, <2>1, <2>2 DEF vars, GenInv, Shape
  <2>4. AllHeld => AllHeld'
    <3>1. \A v \in Var : Owning(v)' = Owning(v) /\ Saving(v)' = Saving(v) /\ Naming(v)' = Naming(v)
      BY <1>13 DEF vars, Owning, Saving, Naming
    <3> SUFFICES ASSUME AllHeld, NEW v \in Var
                 PROVE  /\ VarInv(v, held', env', term', Owning(v)', Saving(v)', Naming(v)')
                        /\ v \notin Bound' => Fresh(v, held')
      BY DEF AllHeld, Each
    <3> QED
      BY <1>13, <2>1, <3>1 DEF vars, AllHeld, Each
  <2> QED
    BY <1>13, <2>3, <2>4 DEF vars, GenInv, Lifecycle
<1> QED
  BY <1>1, <1>2, <1>3, <1>4, <1>5, <1>6, <1>7, <1>8, <1>9, <1>10, <1>11, <1>12, <1>13 DEF Next, Counting

\* The invariant says of each variable what the properties say of all places.
LEMMA GenImplies == GenInv => Settled /\ UsesAreHeld
<1> SUFFICES ASSUME GenInv PROVE Settled /\ UsesAreHeld
  OBVIOUS
<1>n. PICK n \in Nat : n = Len(lets)
  BY DEF GenInv, Shape
<1>1. /\ DOMAIN lets = 1 .. n /\ \A i \in 1 .. n : LetFits(i)
      /\ term \in Terms /\ Fits(env, term) /\ lets \in Seq(Lets)
  BY <1>n DEF GenInv, Shape
<1>3. ASSUME NEW v \in Var
      PROVE  /\ Owners(v) = Owning(v) \cup (IF v \in env.owned THEN {n + 1} ELSE {})
             /\ Waiting(v) = Saving(v) \cup (IF v \in Values(env.reuse) THEN {n + 1} ELSE {})
  <2>1. Top = n + 1 /\ EnvAt(n + 1) = env
    BY <1>n DEF Top, EnvAt
  <2>2. ASSUME NEW i \in 1 .. n
        PROVE  /\ EnvAt(i).owned = lets[i].env.owned \ {lets[i].var}
               /\ EnvAt(i).reuse = lets[i].env.reuse
    <3>1. lets[i] \in Lets /\ i # Top
      BY <1>1, <2>1
    <3>2. lets[i].env \in Envs
      BY <3>1 DEF Lets
    <3> QED
      BY <3>1, <3>2 DEF EnvAt, Envs
  <2>3. \A i : i \in 1 .. Top <=> i \in 1 .. n \/ i = n + 1
    BY <2>1
  <2>4. n + 1 \notin 1 .. n
    OBVIOUS
  <2> QED
    BY <1>1, <2>1, <2>2, <2>3, <2>4 DEF Owners, Waiting, Owning, Saving
<1>4. Settled
  <2> SUFFICES ASSUME status # "called", NEW v \in Var
               PROVE  /\ v \notin held.null =>
                           held.refs[v] = (IF Owners(v) = {} THEN 0 ELSE 1) + (IF v \in held.lost THEN 1 ELSE 0)
                      /\ \A i, j \in Owners(v) : i = j
                      /\ \A i, j \in Waiting(v) : i = j
                      /\ held.cell[v] \in WaitingCell <=> Waiting(v) # {}
    BY DEF Settled
  <2>1. /\ Counted(v, held, env, Owning(v)) /\ OwnedOnce(v, env, Owning(v))
        /\ CellOnce(v, held, env, Owning(v), Saving(v))
    BY DEF GenInv, AllHeld, Each, VarInv
  <2>2. Owners(v) = {} <=> Owning(v) = {} /\ v \notin env.owned
    BY <1>3
  <2>3. v \notin held.null =>
          held.refs[v] = (IF Owners(v) = {} THEN 0 ELSE 1) + (IF v \in held.lost THEN 1 ELSE 0)
    BY <2>1, <2>2 DEF Counted
  <2>4. \A i, j \in Owners(v) : i = j
    BY <1>3, <2>1 DEF OwnedOnce, AtMostOne
  <2>5. \A i, j \in Waiting(v) : i = j
    BY <1>3, <2>1 DEF CellOnce, AtMostOne
  <2>6. held.cell[v] \in WaitingCell <=> Waiting(v) # {}
    BY <1>3, <2>1 DEF CellOnce
  <2> QED
    BY <2>3, <2>4, <2>5, <2>6
<1>5. UsesAreHeld
  <2>1. ASSUME status = "runs",
               NEW v \in term.vars \cup UNION {lets[i].body.vars \ {lets[i].var} : i \in DOMAIN lets}
        PROVE  held.refs[v] > 0 \/ v \in held.null
    <3>1. v \in term.vars \/ \E i \in DOMAIN lets : v \in lets[i].body.vars \ {lets[i].var}
      OBVIOUS
    <3>2. v \in Var
      <4>1. \A i \in DOMAIN lets : lets[i].body.vars \subseteq Var
        <5>1. \A i \in DOMAIN lets : lets[i] \in Lets
          BY <1>1
        <5> QED
          BY <5>1 DEF Lets, Terms
      <4> QED
        BY <1>1, <3>1, <4>1 DEF Terms
    <3>3. /\ Counted(v, held, env, Owning(v))
          /\ NamedHeld(v, held, env, term, Owning(v), Naming(v))
      BY <2>1, <3>2 DEF GenInv, AllHeld, Each, VarInv
    <3>4. v \in held.null \/ v \in env.owned \/ Owning(v) # {}
      BY <3>1, <3>3 DEF NamedHeld, Naming
    <3> QED
      BY <3>3, <3>4 DEF Counted
  <2>2. held.ok
    BY DEF GenInv
  <2> QED
    BY <2>1, <2>2 DEF UsesAreHeld
<1> QED
  BY <1>4, <1>5

LEMMA GenInvariant == Spec => [](Types /\ (misapplied \/ GenInv))
<1>1. Init => Types /\ (misapplied \/ GenInv)
  BY TypesStart, GenInit
<1>2. /\ Types /\ (misapplied \/ GenInv) /\ [Next]_vars
      => (Types /\ (misapplied \/ GenInv))'
  <2> SUFFICES ASSUME Types, misapplied \/ GenInv, [Next]_vars, ~misapplied'
               PROVE  Types' /\ GenInv'
    BY TypesStep
  <2>1. ~misapplied
    BY DEF Next, AApp, vars
  <2> QED
    BY <2>1, TypesStep, GenStep
<1> QED
  BY <1>1, <1>2, PTL DEF Spec

LEMMA TypesImply == Types => TypeOK
<1> SUFFICES ASSUME Types PROVE TypeOK
  OBVIOUS
<1>1. \A i \in DOMAIN lets : lets[i] \in TypedLet
  BY DEF Types
<1> QED
  BY <1>1 DEF Types, TypeOK, Sits, TypedLet, Terms

\* Whatever path a function takes, each reference and each waiting cell has
\* exactly one place in the code to come that is to use it up: nothing leaks,
\* known leaks apart, and nothing is dropped twice, until an owned variable is
\* applied to itself.
THEOREM FunctionsSettle == Spec => []Inv
<1>1. Types /\ (misapplied \/ GenInv) => Inv
  BY TypesImply, GenImplies DEF Inv, Settled
<1> QED
  BY <1>1, GenInvariant, PTL

\* No emitted statement uses what may have been freed, and all that the code
\* to come names is held, until an owned variable is applied to itself.
THEOREM FunctionsUseWhatTheyHold == Spec => []UsesAreHeld
<1>1. Types /\ (misapplied \/ GenInv) => UsesAreHeld
  BY GenImplies DEF UsesAreHeld
<1> QED
  BY <1>1, GenInvariant, PTL
=============================================================================
