--------------------------- MODULE RefCGenerator ---------------------------
(***************************************************************************)
(* Reference counting by the RefC code generator                           *)
(* (src/Compiler/RefC/RefC.idr): where the C text it emits takes a         *)
(* reference, hands one over or gives one back, and when it builds a       *)
(* constructor in the memory of one that was taken apart.                  *)
(*                                                                         *)
(* The generator walks over every branch of a function's ANF, and the      *)
(* compiled function runs along one of them.  A behaviour of this model is *)
(* one such path through an arbitrary function: each action translates the *)
(* term it has come to as cStatementsFromANF does, and runs what that      *)
(* emits.  The term is chosen as the walk goes; all the generator ever     *)
(* asks of the parts it has not come to is which variables and which       *)
(* constructors they use.                                                  *)
(***************************************************************************)
EXTENDS Integers, Sequences, FiniteSets

CONSTANTS
  Arity,    \* bound: arguments of the function
  MaxVar,   \* bound: variables of the function, arguments included
  MaxField, \* bound: fields of a constructor
  Times,    \* bound: how often a variable occurs in one argument list
  Name      \* names of constructors that are represented by a cell

ASSUME GeneratorAssumption ==
  /\ Arity \in Nat /\ MaxVar \in Nat /\ MaxField \in Nat /\ Times \in Nat
  /\ Arity <= MaxVar

Var == 1 .. MaxVar

VARIABLES
  status,  \* "called", "runs" or "returned"
  next,    \* the next variable; ANF binds each number once
  term,    \* what the term come to uses: [vars, cons]
  env,     \* EnvTracker: [owned, reuse]; reuse maps a name to the variable
           \* whose cell is waiting to be filled again
  lets,    \* the bodies of the lets whose value is being computed, the
           \* innermost last
  held,    \* what the running function holds, see below
  misapplied \* history: one reference has been handed over twice (AApp)

vars == <<status, next, term, env, lets, held, misapplied>>

------------------------------------------------------------------------------
(* The C function.  refs[v] counts the references it holds by the variable *)
(* v; cell[v] is the state of constructor_N, where N belongs to v.         *)

NothingHeld ==
  [refs |-> [v \in Var |-> 0],
   cell |-> [v \in Var |-> "unset"],
   null |-> {},    \* variables whose value is NULL in this branch
   lost |-> {},    \* variables whose reference the code is known to forget
   ok   |-> TRUE]  \* no statement used a value that may have been freed

\* Statements on several variables are taken together where each is about one
\* variable and their order makes no difference.  What they use must be held; a
\* variable that is NULL has nothing to count.
Holds(h, S) == \A v \in S \ h.null : h.refs[v] > 0
Adds(h, n)  == [v \in Var |-> h.refs[v] + IF v \in DOMAIN n \ h.null THEN n[v] ELSE 0]

Use(h, S) == [h EXCEPT !.ok = @ /\ Holds(h, S)]

\* newReference, n[v] times on each v, which is used in any case.
Dup(h, n) == [Use(h, DOMAIN n) EXCEPT !.refs = Adds(h, n)]

\* Likewise removeReference, or handing the reference over.
GiveBack(h, n) ==
  [h EXCEPT !.refs = Adds(h, [v \in DOMAIN n |-> -n[v]]),
            !.ok = @ /\ \A v \in DOMAIN n \ h.null : h.refs[v] >= n[v]]

\* New variables hold what they are bound to.
Bind(h, S) == [h EXCEPT !.refs = [v \in Var |-> @[v] + IF v \in S THEN 1 ELSE 0]]

Forget(h, S) == [h EXCEPT !.lost = @ \cup S]

WaitingCell == {"cell", "NULL"}
SetCells(h, S, c) == [h EXCEPT !.cell = [v \in Var |-> IF v \in S THEN c ELSE @[v]]]
\* A cell that is filled, or freed, must have been waiting.
EndWait(h, S, c) ==
  [SetCells(h, S, c) EXCEPT !.ok = @ /\ \A v \in S : h.cell[v] \in WaitingCell]

------------------------------------------------------------------------------
(* What the generator emits *)

Once(S) == [v \in S |-> 1]
RemoveVars(h, S) == GiveBack(h, Once(S))

\* A field that was read out of a cell is there as long as the cell is.
DupFields(h, S, sc) ==
  [Bind(h, S) EXCEPT !.ok = @ /\ \A v \in S : h.refs[v] > 0 \/ h.refs[sc] > 0]

(* args[v] is how often v occurs in an argument list.  avarToC: an owned
   variable is used as it is, a borrowed one counted.                       *)
\* Each argument translated in the same environment.
ArgumentsAlike(h, owned, args) ==
  Dup(h, [v \in DOMAIN args |-> IF v \in owned THEN 0 ELSE args[v]])

\* avarsToC, fillArgs and argsVect: once used, an owned variable is borrowed.
Arguments(h, owned, args) ==
  Dup(h, [v \in DOMAIN args |-> IF v \in owned THEN args[v] - 1 ELSE args[v]])

\* A call or a new value takes a reference by each argument, at once; after an
\* operator they are removed.
Passed(h, args)  == GiveBack(h, args)
Removed(h, args) == GiveBack(h, args)

Only(map, S)    == [n \in DOMAIN map \cap S |-> map[n]]
Without(map, S) == [n \in DOMAIN map \ S |-> map[n]]
Values(map)     == {map[n] : n \in DOMAIN map}

RemoveReuseConstructors(h, map) == EndWait(h, Values(map), "unset")

------------------------------------------------------------------------------
(* Terms *)

Term(vs, cs) == [vars |-> vs, cons |-> cs]

Init ==
  /\ status = "called"
  /\ next \in 1 .. Arity + 1
  /\ term \in {Term(vs, cs) : vs \in SUBSET (1 .. next - 1), cs \in SUBSET Name}
  /\ env = [owned |-> {}, reuse |-> <<>>]
  /\ lets = <<>>
  /\ held = NothingHeld
  /\ misapplied = FALSE

\* The function is called with a reference to each of its arguments, and
\* gives back those it does not use.
Enter ==
  LET args == 1 .. next - 1 IN
  /\ status = "called"
  /\ status' = "runs"
  /\ env' = [env EXCEPT !.owned = term.vars]
  /\ held' = RemoveVars(Bind(held, args), args \ term.vars)
  /\ UNCHANGED <<next, term, lets>>

\* A foreign function reads its arguments and gives them all back.
Foreign ==
  LET args == 1 .. next - 1 IN
  /\ status = "called"
  /\ status' = "returned"
  /\ term' = Term({}, {})
  /\ held' = RemoveVars(Use(Bind(held, args), args), args)
  /\ UNCHANGED <<next, env, lets>>

\* Translate a part of the term: the function has come to it, holding h.
Continue(h, part, e) ==
  /\ held' = h
  /\ term' = part
  /\ env' = e
  /\ UNCHANGED status

\* The value is computed: the innermost let binds it, or it is returned.
Deliver(h) ==
  /\ status = "runs"
  /\ IF lets = <<>>
       THEN /\ status' = "returned"
            /\ held' = h
            /\ env' = [owned |-> {}, reuse |-> <<>>]
            /\ term' = Term({}, {})
            /\ UNCHANGED <<next, lets>>
       ELSE LET l == lets[Len(lets)]
            IN /\ Continue(RemoveVars(Bind(h, {l.var}), {l.var} \ l.body.vars), l.body, l.env)
               /\ lets' = SubSeq(lets, 1, Len(lets) - 1)
               /\ UNCHANGED next

\* Argument lists that use these variables.
ArgLists(S) == [S -> 1 .. Times]

------------------------------------------------------------------------------
(* cStatementsFromANF *)

AV(x) ==
  /\ term = Term({x}, {})
  /\ Deliver(Passed(Arguments(held, env.owned, Once({x})), Once({x})))

\* AAppName, AUnderApp: a call, or a closure that keeps its arguments.
AAppName(args) ==
  /\ term = Term(DOMAIN args, {})
  /\ Deliver(Passed(Arguments(held, env.owned, args), args))

\* The closure and its argument are translated in the same environment: an
\* owned variable applied to itself hands its one reference over twice.
AApp(closure, arg) ==
  LET args == [v \in {closure, arg} |-> IF closure = arg THEN 2 ELSE 1] IN
  /\ term = Term({closure, arg}, {})
  /\ misapplied' = (misapplied \/ (closure = arg /\ closure \in env.owned))
  /\ Deliver(Passed(ArgumentsAlike(held, env.owned, args), args))

\* APrimVal, AErased, ACrash, constructors that are NULL: nothing is used.
AConstant == term = Term({}, {}) /\ Deliver(held)

ACon(n, args) ==
  /\ term = Term(DOMAIN args, {n})
  /\ Deliver(Passed(Arguments(EndWait(held, Values(Only(env.reuse, {n})), "filled"),
                              env.owned, args), args))

AOp(args) ==
  /\ term = Term(DOMAIN args, {})
  /\ Deliver(Removed(Arguments(held, env.owned, args), args))

\* Arguments of an external primitive are lent and never given back.
AExtPrim(args) ==
  /\ term = Term(DOMAIN args, {})
  /\ Deliver(Forget(Use(held, DOMAIN args), env.owned))

\* The body of a let goes on with what its value must not use up.
LetBody(v, value, body) ==
  LET kept == env.owned \cap (body.vars \ {v}) IN
  [owned |-> IF v \in body.vars THEN kept \cup {v} ELSE kept,
   reuse |-> Without(env.reuse, value.cons)]

\* Slip: both the value and the body may use the cells that wait.
LetValueReusing(v, value, body) ==
  [owned |-> env.owned \ (body.vars \ {v}),
   reuse |-> env.reuse]

LetValue(v, value, body) ==
  [owned |-> env.owned \ (body.vars \ {v}),
   reuse |-> Only(env.reuse, value.cons)]

ALet ==
  /\ status = "runs"
  /\ next <= MaxVar
  /\ \E vv \in SUBSET term.vars, vc \in SUBSET term.cons :
     \E bv \in SUBSET (term.vars \cup {next}), bc \in SUBSET term.cons :
       LET value == Term(vv, vc)
           body == Term(bv, bc)
       IN /\ vv \cup (bv \ {next}) = term.vars
          /\ vc \cup bc = term.cons
          /\ lets' = Append(lets, [var |-> next, body |-> body,
                                   env |-> LetBody(next, value, body)])
          /\ Continue(held, value, LetValue(next, value, body))
  /\ next' = next + 1

\* The part of a case that an alternative is; others may use the rest.
Alternative(sc, args, body) ==
  /\ status = "runs"
  /\ sc \in term.vars
  /\ body.vars \subseteq term.vars \cup args
  /\ body.cons \subseteq term.cons

\* An alternative that binds nothing: of AConstCase, or a default.
ConcaseBody(sc, body) ==
  /\ Alternative(sc, {}, body)
  /\ Continue(RemoveReuseConstructors(RemoveVars(Use(held, {sc}), env.owned \ body.vars),
                                      Without(env.reuse, body.cons)),
              body,
              [owned |-> env.owned \cap body.vars,
               reuse |-> Only(env.reuse, body.cons)])
  /\ UNCHANGED <<next, lets>>

\* NIL, NOTHING, ZERO, UNIT: the scrutinee is NULL and owned by nobody.
NullAlt(sc, body) ==
  /\ Alternative(sc, {}, body)
  /\ LET owned == env.owned \ {sc}
         h == [held EXCEPT !.null = @ \cup {sc}, !.ok = @ /\ held.refs[sc] > 0]
     IN Continue(RemoveReuseConstructors(RemoveVars(h, owned \ body.vars),
                                         Without(env.reuse, body.cons)),
                 body,
                 [owned |-> owned \cap body.vars,
                  reuse |-> Only(env.reuse, body.cons)])
  /\ UNCHANGED <<next, lets>>

\* Slip: the cell is dropped before its fields are counted.
OpenSharedEarly(h, sc, fields, drop) ==
  DupFields(RemoveVars(h, drop \ fields), fields \ drop, sc)

\* Somebody else may hold the cell, or its memory is not wanted: the fields
\* that are used are counted, and then what is not used is given back.
OpenShared(h, sc, fields, drop) ==
  RemoveVars(DupFields(h, fields \ drop, sc), drop \ fields)

\* The references of the cell pass to the variables of its fields, and those
\* of fields that are not used are forgotten.
OpenUnique(h, sc, fields, drop) ==
  LET taken == SetCells(RemoveVars(h, {sc}), {sc}, "cell")
  IN  RemoveVars(Forget(Bind(taken, fields), fields \cap drop), drop \ (fields \cup {sc}))

\* The cell is given up here, and one of its kind is built further on.
MayReuse(n, sc, drop, body) ==
  n \notin DOMAIN env.reuse /\ n \in body.cons /\ sc \in drop

ConAlt(n, sc, fields, body) ==
  LET owned == env.owned \cup fields
      drop == owned \ body.vars
      rest == Only(env.reuse, body.cons)
      Free(h) == RemoveReuseConstructors(h, Without(env.reuse, body.cons))
      used == Use(held, {sc})
      e == [owned |-> owned \cap body.vars, reuse |-> rest]
      reusing == [e EXCEPT !.reuse = [m \in DOMAIN rest \cup {n} |->
                                        IF m = n THEN sc ELSE rest[m]]]
  IN
  /\ Alternative(sc, fields, body)
  /\ sc \notin held.null
  /\ IF MayReuse(n, sc, drop, body)
       THEN \/ Continue(Free(OpenUnique(used, sc, fields, drop)), body, reusing)
            \/ Continue(Free(OpenShared(SetCells(used, {sc}, "NULL"), sc, fields, drop)),
                        body, reusing)
       ELSE Continue(Free(OpenShared(used, sc, fields, drop)), body, e)
  /\ next' = next + Cardinality(fields)
  /\ UNCHANGED lets

Bodies(bound) == [vars : SUBSET (term.vars \cup bound), cons : SUBSET term.cons]

AConCase(sc) ==
  \E k \in 0 .. MaxField :
    LET fields == next .. next + k - 1 IN
    /\ fields \subseteq Var
    /\ \E n \in Name, body \in Bodies(fields) : ConAlt(n, sc, fields, body)

AConstCase(sc) == \E body \in Bodies({}) : ConcaseBody(sc, body)

ANullCase(sc) == \E body \in Bodies({}) : NullAlt(sc, body)

Counting ==
  \/ Enter \/ Foreign \/ AConstant \/ ALet
  \/ \E x \in term.vars : AV(x) \/ AConCase(x) \/ AConstCase(x) \/ ANullCase(x)
  \/ \E args \in ArgLists(term.vars) :
       AAppName(args) \/ AOp(args) \/ AExtPrim(args) \/ \E n \in Name : ACon(n, args)

Next ==
  \/ Counting /\ UNCHANGED misapplied
  \/ \E x, y \in term.vars : AApp(x, y)

Spec == Init /\ [][Next]_vars

------------------------------------------------------------------------------
(* Properties *)

\* The term come to, and the bodies of the lets around it, the last to come first.
Top == Len(lets) + 1

\* What each body still to come will own is held already, except the variable
\* that its let has yet to bind.
EnvAt(i) == IF i = Top THEN env ELSE [lets[i].env EXCEPT !.owned = @ \ {lets[i].var}]

Owners(v)  == {i \in 1 .. Top : v \in EnvAt(i).owned}
Waiting(v) == {i \in 1 .. Top : v \in Values(EnvAt(i).reuse)}

TypeOK ==
  /\ status \in {"called", "runs", "returned"}
  /\ next \in 1 .. MaxVar + 1
  /\ term \in [vars : SUBSET Var, cons : SUBSET Name]
  /\ env.owned \subseteq term.vars /\ DOMAIN env.reuse \subseteq term.cons
  /\ \A i \in DOMAIN lets : lets[i].env.owned \subseteq lets[i].body.vars

\* Settled: whatever path a function takes, it holds exactly one reference by
\* each variable that the code to come owns, one place of it alone, and none
\* by any other: nothing leaks and nothing is dropped twice.  Likewise each
\* cell kept for reuse waits in one place, to be filled or freed there.
\* Known leaks apart: arguments of external primitives, and unused fields of
\* a cell taken for reuse.  It ends where a variable is applied to itself.
Settled ==
  status # "called" /\ ~misapplied =>
    \A v \in Var :
      /\ v \notin held.null =>
           held.refs[v] = (IF Owners(v) = {} THEN 0 ELSE 1) + (IF v \in held.lost THEN 1 ELSE 0)
      /\ \A i, j \in Owners(v) : i = j
      /\ \A i, j \in Waiting(v) : i = j
      /\ held.cell[v] \in WaitingCell <=> Waiting(v) # {}

Inv == TypeOK /\ Settled

\* UsesAreHeld: no statement uses, counts or drops a variable whose value may
\* have been freed, no cell is filled twice, and every variable that the term
\* or a pending body still names is held by somebody, as long as no variable
\* that the function owns was applied to itself.
UsesAreHeld ==
  ~misapplied =>
    /\ held.ok
    /\ status = "runs" =>
         \A v \in term.vars \cup UNION {lets[i].body.vars \ {lets[i].var} : i \in DOMAIN lets} :
           held.refs[v] > 0 \/ v \in held.null
=============================================================================
