# Verification of the runtime and the build of Idris 2

This directory models, in TLA+, the parts of this repository (the Idris 2
compiler, its libraries and its run-time support) whose correctness depends on
the order in which things happen or on representations that are hard to test
through: the RefC back end (its code generator as far as reference counting
goes, its heap, numbers, strings, buffers and arrays), the synchronisation
primitives that the Chez and Racket back ends implement for
`System.Concurrency`, signals and sub-processes in the C support library, and
the incremental build of a program module by module.

Every definition is translated from the source; `PROJECT.json` ("map") names
the lines of each. `X.tla` is checked by TLC with the `X_*.cfg` files; theorems
are in the modules `*Proofs.tla` and are checked by TLAPS (`ChezProofs` has those
about the three Chez modules, `CSupportProofs` those about signals and
sub-processes, `RefCBlocksProofs` those about arrays, strings and buffers).

    tlc -config RefCHeap_cells.cfg MCRefCHeap.tla
    tlapm RefCHeapProofs.tla

1. [Inventory](#1-inventory)
2. [Modules, and how they correspond to the code](#2-modules-and-how-they-correspond-to-the-code)
3. [What the runs check](#3-what-the-runs-check)
4. [What is proved](#4-what-is-proved)
5. [Where code and documentation disagree](#5-where-code-and-documentation-disagree)
6. [What is not modelled, and the plan](#6-what-is-not-modelled-and-the-plan)

## 1. Inventory

The repository holds a compiler written in Idris (`src/`), its libraries
(`libs/`), the run-time support of each back end (`support/`), documentation
and tests. The compiler itself is sequential and mostly a chain of pure
transformations; state that outlives a step, and actors that interfere, are
found in these places.

| Component | State it keeps | Operations | What makes it hard | What makes it correct |
|---|---|---|---|---|
| RefC heap (`support/refc/memoryManagement.c`, `runtime.c`, `prim.h`) | a header (tag, 16-bit counter) and a payload for each cell | allocate, newReference, removeReference, apply, trampoline, IORef access, reuse | re-entrancy: a finaliser is Idris code run in the middle of a cascade; saturation of the counter; aliasing | the counter is the number of references; nothing referred to is freed, nothing unreferred is kept; what is overwritten in place is private |
| RefC code generator (`src/Compiler/RefC/RefC.idr`) | the environment: owned variables, cells waiting for reuse | translate each form of ANF | every path through a function must give back exactly what it was given, and lets, cases and reuse share variables and cells between parts that do not see each other | nothing is used after it may have been freed, nothing is dropped twice or forgotten |
| RefC numbers (`casts.h`, `casts.c`, `mathFunctions.h`, `mathFunctions.c`, `_datatypes.h`) | a word for each value, in the pointer or behind it | casts, arithmetic, shifts, comparison, cases on constants | one value has several words; sign, width and C's conversions | each operation means what the language says |
| RefC strings and buffers (`stringOps.c`, `buffer.c`) | blocks of C memory | string operations, iterators, reads and writes of buffers, copies | NUL, off-by-one lengths, C ints, overlapping copies, iterators that outlive their string | blocks end where `strlen` stops; what is read is what was written |
| RefC arrays (`support/refc/prim.c`) | the payload of the array | newArray, arrayGet, arraySet | arraySet drops before it stores | a finalised element is out of reach |
| Chez synchronisation (`support/chez/support.ss`) | boxes behind a mutex and condition variables | semaphore post and wait, barrier wait, channel put, get, get without blocking, get with timeout | wakeups versus arrivals; signals sent outside the mutex; polling | what `System.Concurrency` says of each; no lost wakeup |
| Racket synchronisation (`support/racket/support.rkt`) | a count and three semaphores for each condition variable | condition wait, signal, broadcast | the handshake that keeps tokens from being stolen | one signal releases one waiter, a broadcast all; notifiers return, up to the first broadcast that found waiters |
| Collected signals (`support/c/idris_signal.c`) | one atomic word of signal bits | collect, ignore, default, next signal | a handler runs between any two instructions | no collected signal is lost or returned twice |
| Sub-processes (`support/c/idris_file.c`: popen2) | the descriptor tables of the program and of its children, pipes | popen2, the streams, popen2Wait | threads share the table and children inherit it; failures half way; end of file depends on who else has the write end | each child is wired to its own pipes, nothing stays open, no answer is cut short, everybody finishes |
| Module build (`src/Idris/ModTree.idr`, `ProcessIdr.idr`) | source files, TTC files, modification times, hashes | find imports and cycles, decide, elaborate, write | saves and kills at any moment; equal time stamps; stale interfaces; reverted edits | the result is the one a build from scratch has; nothing is elaborated without a reason |
| Elaboration, unification, totality, parsing, REPL, packages, TTC format, other back ends | terms, contexts, texts | pure functions of these | unbounded data | metatheory |

They interact as follows. The generator emits the calls of newReference,
removeReference and the reuse macros that the heap's mutator makes; arrays and
IORefs are cells of the heap and own references. `threadWait` on Chez is a
semaphore that the forked thread posts. The words that the number operations
leave behind are what the next cast, comparison or case reads; strings go into
buffers and come back from them. Racket mutexes, conditions and
barriers are built of Racket semaphores. The build calls the elaborator, which
it needs only for "does this text check against what it sees", and shares
nothing with the programs it compiles but their files.

`PROJECT.json` lists the components with what is left out of each
("components") and the hazards, each at its line, with the properties that
watch it or the reason why none does ("hazards").

## 2. Modules, and how they correspond to the code

### The RefC heap: `RefCHeap`, `ManagedHeap`, `RefCHeapProofs`, `MCRefCHeap`

The variables `tag`, `rc`, `arity` and `size` are the header and the closure's
or constructor's own fields. A *slot* is a place that owns one reference: a C
local (`Var`) or a payload entry `<<cell, i>>`; `ref` says where each slot
points. A slot whose reference was given away reads `NULL`, which stands as
well for unboxed integers and erased arguments, because the counting functions
skip both. `drops` is the C stack of `idris2_removeReference` activations.

The runtime has one thread, so an action is a runtime call or an emitted
statement, and the one interleaving is re-entrancy: `BeginFinalizer` suspends
the cascade on top of `drops`, the mutator's actions are enabled again
(`MutatorRuns`), they may begin cascades of their own, and `EndFinalizer` lets
the interrupted one go on. A cascade is taken one payload entry at a time
(`DropField`, `DropFree`), so that a finaliser meets half-dropped payloads as
it does in C.

Actions and code: `Alloc` is `idris2_newValue` with the `mk` function that
calls it, `FillArg` one statement of `fillArgs`, `NewReference` and
`RemoveReference` the two primitives, `ProjectArg` and `TakeForReuse` /
`TakeArg` / `ReuseConstructor` / `RemoveReuseConstructor` the two branches that
`addReuseConstructor` emits, `TailcallApplyClosure`, `Dispatch` and
`ReturnFromCall` the closure functions of `runtime.c`, `NewIORef`,
`ReadIORef`, `WriteIORef` and `OnCollect` those of `prim.h` and `prim.c`. Three
roles that have no tag in C are tags here, because the code knows of them
only by where it is: a cell kept for reuse, a closure whose function is
running, a GC pointer whose finaliser is running.

`ManagedHeap` is the abstract specification: references are only copied, never
forged, and a cell is reclaimed only when no slot refers to it. It knows no
counters. `RefCHeap` implements it with `live` as the cells that are not free.

The mutator is any program that obeys the discipline of the generator: it
drops only what it owns, copies only values, empties a consumed cell before
giving it back. That the generator keeps this discipline is what
`RefCGenerator` is about.

### The code generator: `RefCGenerator`

The generator walks over every branch of a function; the compiled function
runs along one. A behaviour is one such path through an arbitrary function: an
action translates the form of ANF that the walk has come to, as
`cStatementsFromANF` does, and runs the statements this emits. Terms are chosen
as the walk goes. All the generator asks of a part it has not come to is which
variables and which constructors it uses (`freeVariables`,
`usedConstructors`), so `term` is these two sets, and a run of TLC covers every
function within the bounds: an alternative may use any part of what its case
uses, since the other alternatives may use the rest.

`env` is the `EnvTracker`, `lets` the bodies of the lets whose value is being
translated, each with the environment kept for it. `held` is the running C
function: how many references it holds by each variable (`refs`), and the state
of each `constructor_N` (`cell`), named here by the variable whose cell it may
take. `Dup`, `GiveBack`, `Bind` and the others are what the C statements do; `ok` turns false when one
of them uses, counts or drops a value that may be gone by then: a field read
out of a cell is there as long as the cell is. Whether a cell is unique is a
free choice. The references that the generator is known to forget are put
down in `lost` where that happens (`AExtPrim`, `OpenUnique`). Emitted statements
on several variables are taken together where each is about one variable and
their order makes no difference (`Dup`, `GiveBack`, `Bind`); where the order
matters (fields are counted before what is not used is dropped) the effects are
applied one after the other.

Argument lists are taken in one order and with at most one variable twice: the
translation looks at nothing else (`Times` bounds how often it may occur in
general). `ANull`, which is dropped and counted without effect, does not
appear. `AApp` records in `misapplied` that one reference went away twice
(section 5); the walk goes on, and the two properties end there.

### Numbers: `FixedWidth`, `RefCNumbers`, `MCRefCNumbers`, `RefCNumbersProofs`

`FixedWidth` is what Idris says of the numeric types: their ranges, casts as
the one congruent value, Euclidean division. A `Char` is a code point there
(`CodePoint`), and a number that is none becomes the character 0: this is what
the Chez and Racket back ends do (`cast-int-char`, `support/chez/support.ss:152`,
`support/racket/support.rkt:159`). `RefCNumbers` is what the run-time
support does on a machine of 64 bits: a type of at most 32 bits is the upper
half of the pointer and is cut to its width only when it is read (`Read`,
`Make`), wider ones are boxed, and some casts pass the pointer on as it is
(`InPlace`). The program is any sequence of operations on registers; `ideal` is
what the language says a register holds. A character is an unsigned char in C
(`Size`), so that most characters have no representation. The four operations
known to part from the language are named: `CarelessCast` (a word that is not
canonical is handed to a wider type, or a number beyond a byte is cast to
Char), `CarelessLiteral` (a character beyond a byte in the source),
`CarelessDivision` and `CarelessMatch`. After one the history goes on from what
the program then holds. The widths and the set of characters are constants:
nothing depends on 8 being 8.

Bitwise operations yield any value of the type. A cast to a string yields the
number or the character that it spells; that a character from 128 is spelled as
one byte is a matter of `RefCText`. Doubles are left out, and so are
casts from strings to numbers, which do not link: the generator emits
`idris2_cast_string_to_...` where the functions are called
`idris2_cast_String_to_...`. Signed overflow is taken to wrap in the casts and
operations narrower than `int`, as C has it, and the one quotient that traps is
not taken (`Traps`).

### Strings and buffers: `RefCText`

One String, one List Char, one iterator and one Buffer. A String is a block of
memory that is read up to its first NUL. The generator writes a character from
128 (`Ascii`) as several bytes of UTF-8 (`Utf8`, RefC.idr:97), and the run-time
support then works on bytes. Beside each value stands its `meaning`: of a
string the UTF-8 of the characters that it has in Idris, of a list these
characters. It is `Lost` once the program did what the representation cannot
follow: it took a NUL into a string, gave a length beyond a C int, read bytes
as text that were not written as text, or took a string apart (`head`, `tail`,
`reverse`, indexing, `substr`, `unpack`, an iterator) at or behind a character of several
bytes, or put one together out of such a character (`strCons`, `pack`).
Literals with such characters may be appended, concatenated and sent through
buffers. `slots` remembers what
was written into a buffer and has not been overwritten. Fresh memory is `Junk`;
memcpy within one buffer of ranges that overlap is undefined in C and yields
any bytes of the range. A failed check of `assert_valid_range` stops the
program. `malloc` does not fail, places in buffers are C ints, and iterators
are linear, as their Idris interface has it.

### RefC arrays: `RefCArray`

`arraySet` drops the old element, and if that was the last reference runs the
finaliser before it stores the new one. `frames` is the C stack with one frame
for each removeReference inside a finaliser; each level has locals of its own.
`Finish` is the return of the finaliser together with the rest of the
statement that called it. The `Just` around an element is identified with the
element. `Touches` says whether finalisers use the slot being overwritten.

`RefCBlocks` puts arrays and `RefCText` side by side: a program uses the ones or
the other. `MCRefCBlocks` gives it three literals, one of them with a character
of two bytes.

### Chez: `ChezSemaphore`, `ChezBarrier`, `ChezChannel` and their promises

All three keep their state in boxes that are touched only under a mutex, and
nothing inside a critical section blocks but `condition-wait`. A critical
section is therefore one step, and the mutex needs no variable: to wait for it
is not to have taken the next step yet. A thread released by a signal must
take the mutex again ("woken", "released") and others may be quicker. The
mutex and the condition variable are Chez Scheme's own and are modelled from
their use: a signal releases any one of the waiting threads, a broadcast all.
In `ChezChannel` the signal is sent after the mutex has been released and is a
step of its own; its waiting loops test again, and there a condition wait may
also return unasked (`SpuriousWakeup`).

`Semaphore`, `Barrier` and `Channel` are what the comments in
`libs/base/System/Concurrency.idr` say, and each model is related to its
promise by a refinement (`permits <- box`; the history variables of calls and
returns; the sequences of values sent and got).

### Racket: `RacketCV`

Racket's conditions are made of a lock (`waitersLock`), a counting semaphore,
a handshake semaphore and the count of waiters. `blodwen-cv-wait` is five
steps (register, release, take a token, answer, take the mutex back); a
notifier takes the lock, posts tokens and keeps the lock until all handshakes
have come. Statements between taking the lock and the next statement that may
block are one step.

### Signals: `IdrisSignal`

The word of bits is the set of their numbers. The handler (`Collect`) is
enabled between any two steps of the caller, and
`handle_next_collected_signal` is its two atomic accesses, `Load` and
`FetchAnd`.

### Sub-processes: `Popen2`

Each session is a thread of the program that calls `popen2` for a filter,
writes, closes the child's input, reads to the end, closes and waits, in the
order of `tests/allbackends/popen2`. `popen2` is one system call at a time,
because its threads share the descriptor table and a child inherits all of it;
end `i` of the array `pipes` of session `s` is the value `<<s, i>>` wherever it
is open. The table is finite, so that either `pipe` may fail, and so may
`fork`. What a child does between `fork` and `exec` is one step, as it touches
its own table only; so are the two closes of the parent. A child holds at most
one line, ends when it has read all and nobody has the write end, and is killed
when it writes to nobody. Pipes, processes and `waitpid` are the operating
system's and modelled from their use.

Left out: the Windows branch, `exec` that fails, a child that leaves by itself,
buffering inside stdio (flushed at each line), and the shell that `sh -c`
leaves in between.

### The build: `ModTree`, `IncrementalBuild`, `MCIncrementalBuild`

`ModTree` is the walk over the imports as recursive operators: cycles, the
flattening with dependencies first, the merge of several files. These
operators are handed to `IncrementalBuild` as constants (`Cyclic`,
`BuildOrder`), so that the state machine uses no RECURSIVE operator and can be
proved about; its assumption `OrderAssumption` says what it needs of them, and
TLC evaluates it. `MCIncrementalBuild` also compares the walk with
reachability on every import graph over three modules.

`IncrementalBuild` has a source file and at most one TTC for each module. A
source is its imports, which of them are public, and a text; what elaboration
depends on is the set of interfaces in view, which a TTC records in `saw`. A
hash is the tree of what was hashed, so there are no collisions. `Check` is
`needsBuilding` and the rest of `buildMod`, `Read` the reading of the source
at the start of `process`, `Process` what follows up to the decision to write,
`WriteToTTC` the writing, `Finish` the end of `buildDeps` or `buildAll`. The
programmer's `Save` and a `Kill` can fall between any two of them. The clock
ticks at most once for each file written, or not at all: files of the same tick
are the interesting case for the `>=` of `isTTCOutdated` (ProcessIdr.idr:255).
The history variable `raced` remembers the modules whose TTC was written in a
build during which a file was saved, or was made from such a TTC (section 5).

## 3. What the runs check

Bounds are constants named in the module and given in the `.cfg`. Every run
that passes has, for each of its properties, a mutation of one definition (the
operators commented "Slip", which `PROJECT.json` lists under "mutants") that
breaks the property under the same bounds: the bounds are large enough for
the case each property is about.

| Run | Shows | Bounds |
|---|---|---|
| `RefCHeap_cells` | constructors with reuse, IORefs, boxed values and a static value: counters exact, nothing dangling, forgotten or seen while it is overwritten; the maximum count is never left; cascades return; the heap is a managed heap | 2 cells and 1 static value, 3 locals, 2 payload slots, counter up to 3 |
| `RefCHeap_apply` | closures that are applied, shared and run, and GC pointers whose finalisers are such closures and may do all that a program does: counters exact, nothing dangling or revived | 4 cells, 3 locals, 3 payload slots, counter up to 19 (never reached), closures of arity 2 |
| `RefCGenerator_functions` | along every path of every function the emitted code uses nothing that may have been freed, and gives back every reference and every reserved cell, except in the two known places; until an owned variable is applied to itself | 2 arguments, 4 variables, 2 fields, a variable up to twice in an argument list, 1 name of constructors |
| `RefCNumbers_program` | programs of casts, arithmetic, shifts, comparisons and branches: every register means what it should unless a named careless operation lies in between; division fits remainder | 2 registers, bytes of 2 bits and words of 3, 4 and 5, Integers up to 8, 6 literals, 2 characters beyond a byte |
| `RefCBlocks_programs` | arrays whose finalisers use the same array, but not the slot being overwritten: counters exact, a finalised pointer is out of reach. Strings, lists, iterators and buffers: blocks end where `strlen` stops, texts read as meant unless their meaning is lost, buffers keep what was written | 3 elements, 2 indices, 2 locals at each of 3 levels; bytes of 4 values, one of them above the characters of one byte, a character of 2 bytes, C ints of 16, strings and buffers up to 3 bytes, numbers of 2 bytes; while an iterator is open no list is kept (`NoListMeanwhile`): no operation of those programs reads it |
| `ChezSemaphore_many` | several waiters: no permit is lost, the semaphore of the documentation until a thread barges in, and permits get used | 3 waiters, 6 posts, 9 waits, 1 permit at first |
| `ChezBarrier_uses` | nobody leaves before the party has come, in the first or a later use; the broadcast lets through exactly that party, nobody left behind and no late comer with it; the first party does leave | 5 threads, parties of 3, 2 calls each |
| `ChezChannel_exchange` | every value is got once and in order, no wakeup is lost, values arrive, and while putters sleep puts go on being made (not necessarily theirs) | 2 putters, 2 getters, 1 poller, 3 puts, a timeout of 1 sleep |
| `RacketCV_notify` | no thread is woken by an older notification, waiters are accounted for, a broadcast wakes all, and notifiers return up to the first broadcast that finds threads asleep | 3 waiters, 2 notifiers, 2 signals and 2 broadcasts in any order |
| `IdrisSignal_loop` | no collected signal is lost, none is returned more often than collected, each is returned unless a lower one is collected again before it | 3 signal numbers, each raised up to twice, 1 asking loop |
| `Popen2_two` | two concurrent calls, with failures: every end is open exactly where it should be, children are wired to their own pipes, answers are complete, only a child whose output was closed early is killed, and sessions finish unless a child inherited another's input | 2 sessions, 0 or 4 other files, 11 descriptors, pipes of 1 line, 2 lines |
| `IncrementalBuild_edits` | a build that ends well has the result of a build from scratch; TTC files are replaced for a reason | 3 modules, 4 ticks, 2 saves; any number of builds and kills |

Why these bounds. In the heap the counter is compared with 1 and with the
maximum only, so a maximum of 3 has every case (unique, shared, immortal) and
its borders, and a maximum above the number of slots shows the heap when it
cannot saturate; two cells suffice for an object that owns itself, the other
one, or both the old and the new content of an IORef, and four for a GC
pointer, its finaliser, the object it guards and a cell for the finaliser's
application. Semaphores need a waiter asleep, one woken and one that barges
in; the barrier needs more threads than parties, and a second round; the
channel needs a second putter and a second getter to steal what another was
woken for. Three modules are a chain in which the middle one may re-export:
the shortest graph on which a change must pass through a module whose own text
has not changed. Four ticks and two saves allow an edit that is reverted, and
an import cycle that is made and undone.

In the generator a let whose value matches on what its body owns, a case within
a case and the reuse of a cell across a let need four variables; names of
constructors do not interact but by being the same. Words of 2 to 5 bits reach
every word of every type, the extremes included, and keep the ratios that the
code depends on (int is wider than every unboxed type but one, a pointer has
two ints). A text of two characters within three bytes can be cut at either
end, a character of two bytes can be cut in two and stand before or after
another, and three bytes hold a number of width 2 and a neighbour.
Two characters beyond a byte, with a gap below them, tell a cast to the code
point from one to the low byte and from a number that is no character. Two sessions and
a table that is full after one or two pipes have all that can cross; one line
fewer in a pipe than is written makes writers wait.

The proofs of section 4 need none of these bounds.

**Symmetry** is used in `RefCHeap_apply` only (cells and locals are
interchangeable there), which checks no liveness.

**Deadlock.** `IdrisSignal_loop` and `RefCNumbers_program` check it. The others say
`CHECK_DEADLOCK FALSE`: a program may end (all calls made, threads asleep in a
semaphore nobody posts, getters on an empty channel, a function that has
returned, a program stopped by a failed check), a heap may be full of
static and reachable cells, the clock or the saves of a build may be used up.
What must not get stuck there is stated as a liveness property.

**Fairness** is assumed only of steps the machine takes by itself:

- `RefCHeap`: `RemoveReferenceStep`. The single thread goes on with a loop it
  is in; nothing is assumed of the program (`CascadeReturns` is checked where
  there are no finalisers, which are free to run for ever).
- `ChezSemaphore`, `ChezBarrier`: a thread that was released takes the mutex
  at some time and returns (weak fairness: in the model, as no critical section
  lasts, the mutex is free over and over).
- `ChezChannel`: the same for woken threads and for a signal about to be sent,
  and getters go on asking, which is the condition under which the library
  can promise that a value arrives.
- `RacketCV`: steps inside the procedures that wait for nothing but the
  condition's own semaphores; nothing is assumed of the program's mutex or of
  its calls, so the properties hold even for a notifier that keeps the mutex.
- `IdrisSignal`: the asking loop goes on.
- `Popen2`: the operating system runs every thread and every child; no thread
  is bound to call `popen2` or to stop reading.

The build has no liveness property: it can be killed or fail at any moment.

## 4. What is proved

### The heap (`RefCHeapProofs`)

For every set of cells, locals and static values, every number of payload
slots and every maximum of the counter. The theorems assume `HeapAssumption`
(the typing of the constants) and `SoundCounts`: either the counter can count
all the slots there are (`Roomy`), or the program makes no closures. Some such
premise is needed, because without it the code does make immortal closures
mortal (section 5); every other operation leaves saturated counters alone, and
the theorems hold of it with any maximum.

| Theorem | States |
|---|---|
| `Invariance` | the inductive invariant `IInv` |
| `CountersStayInRange` | types; no counter above the maximum or below zero |
| `CountersAreExact` | the counter of a mortal object is the number of its owners |
| `NothingDangles` | no reference leads to a freed cell; no double free |
| `NothingIsRevived` | no reference to an object whose cascade has begun, finalisers included |
| `NothingIsForgotten` | a mortal cell without owners is on its way to the allocator |
| `ConsumptionIsPrivate` | a cell that is overwritten or run has one owner, a local |
| `ImmortalsStay` | the maximum is never left |
| `RuntimeManagesHeap` | the runtime implements `ManagedHeap` |

`IInv` is `TypeOK /\ CountExact /\ Payload /\ OnceOnStack /\ ConsumedIsPrivate
/\ Roles`. `CountExact` alone is not inductive. A cascade frees a cell whatever
its counter says, so one must know that a cell on the stack has the count 1 and
is there once (`OnceOnStack`): with `CountExact` it follows that nobody holds
it. Freeing a cell, or running it, loses what its payload holds, so a free cell
must hold nothing and a payload must lie within `size` (`Payload`).
`ReturnFromCall` and `RemoveReuseConstructor` decrement without looking for the
maximum, which is harmless because they only meet cells with one owner
(`ConsumedIsPrivate`). `Roles` ties the tag to the counter (free is zero) and
keeps static values immortal.

The argument is local: a step moves, adds or removes one reference, so the
lemmas `Give`, `Take` and `Move` say what this does to the set of holders of
each cell, `CellStep` and `PayloadStep` reduce the invariant after a step to
one statement for each cell (`ByCell`), and shapes of steps that several
actions share are lemmas (`CopyStep`, `MoveStep`, `RetagStep`, `BirthStep`,
`ReleaseStep`, `ShallowStep`). Only an application changes many slots at once;
`Copies`, `DisjointSum` and `ExtendedCount` count what it hands over.

A cycle of IORefs keeps its own counters up: `NothingIsForgotten` speaks of
owners and not of reachability, as reference counting does.

### The code generator (`RefCGeneratorProofs`)

For any number of arguments, variables and fields, any argument lists and any
names of constructors, and until an owned variable is applied to itself
(`misapplied`, section 5): `FunctionsSettle` (`Inv`: on every path through every
function, what the function holds by a variable is what the code still to come
owns, known leaks apart, and each cell kept for reuse waits in one place) and
`FunctionsUseWhatTheyHold` (`UsesAreHeld`).

The invariant `GenInv` speaks of one variable at a time. `VarInv` says, of the
lets around that own the variable, keep its cell or name it, and of the term
that the function has come to: one reference or none (`Counted`), one owner
(`OwnedOnce`), one place for the cell (`CellOnce`), and that whatever names the
variable is reached while an owner is still to come (`NamedHeld`: a body is
reached only after those inside it, so its variables belong to itself or to a
body further out). A variable without a value holds nothing (`Fresh`). For the
operators there is one lemma each on what it does to the references
(`RemoveVarsSpends`, `ArgumentsSpend`, ...). A value uses up what it owns
(`Values`); a let splits what is owned and what waits between value and body
(`Lets`); an alternative gives its body a part of what there was
(`Alternatives`). All but a let and the end of a value leave the lets around
alone.

### Arrays (`RefCBlocksProofs`)

For any number of elements, slots and locals, finalisers nested to any depth,
under the condition that no finaliser uses the slot whose overwriting called it
(`~Touches`; without it the code does reach a pointer that is being finalised,
section 5): `ArraysAreCounted` (the counter of an element is the number of slots
and locals that hold it) and `FinalisedStaysAway`. What makes them inductive is
`Suspended`: each interrupted `arraySet` will find, when it goes on, its slot
still the only place that holds the old element, and the new value still held
by the local it came from.

### Strings and buffers (`RefCBlocksProofs`)

For strings, lists and buffers of any size, bytes and C ints of any number of
values, any encoding, any literals and any widths of numbers: `TextsRead`
(strings hold the UTF-8 of the characters that they are meant to have, lists those
characters, and open iterators have given the first bytes of their string and
have the rest, as long as the meaning is not `Lost`: no NUL,
no oversized length, no string taken apart or put together at a character of
several bytes; `ReadsAsMeant` says so) and
`TextsAreKept` (every string is a block that has been filled and ends where
`strlen` stops, and what was written into a buffer is read back from it until
it is overwritten, across copies and resizing). The assumption is
`TextConstants`: a byte has more than one value, twice the longest string that
the program keeps is below the number of C ints, the bytes of a literal hold no
NUL, and numbers are at least a byte wide.

The inductive invariant `TextInv` is the conjunction of the properties with the
types of what they are about. The work is in what the operations compute. Each
of them is shown to make a block that *holds* (`Holds`) a certain text:
`StrAppendHolds`, `StrSubstrHolds`, `FastConcatHolds` and the others; that
`fastPack`, `fastConcat` and `getBufferString` fill memory which `malloc` left
unset is part of it. Then each operation of the program keeps the invariant
(`ConcatKeeps`, `IteratorNextKeeps`, `CopyKeeps`, ...).

Joining several strings, and taking a number apart into bytes and putting it
together again, are recursive functions. What they compute is proved by
induction over a set of numbers (`Upwards`): `Recursion` says that such a
function exists and obeys its equation, `ReadBack` that the bytes of a number
give the number back but for a multiple of what fits, `NumberBack` that for a
number of its width this multiple is none, or the one that the sign puts back.
The powers of two are written as a recursive function (`Power`) in the model,
because the provers know nothing of exponentiation, and `UIntLE` shifts byte by
byte as the loop of `setBufferUIntLE` does.

### Semaphores (`ChezProofs`)

For every number of waiters, posts, waits and every initial count:
`SemaphoreTypes`; `NoPermitIsLost` (nobody sleeps while there are permits that
no woken thread is on its way to fetch; the invariant `Inductive` adds that
every call has returned or is blocked, which bounds the returns); `PermitsAreReserved` and
`IsSemaphore` (until a thread barges in, no more waits return than there were
permits, and the box behaves as the promised semaphore); `JoinIsSafe` (with a
single waiter, as in `threadWait`, nobody can barge in, so permits are
respected without exception).

### Barriers (`ChezProofs`)

For every set of threads, size of the party and number of rounds: `OnePartyOnly`
(the broadcast lets through nobody or exactly a party, and no thread leaves twice)
and `IsBarrier` (`ChezBarrier` implements `Barrier`).
The invariant has two phases. While the party is incomplete the count is the
number of threads that wait, and all calls are first calls; from then on as many
threads as make a party have arrived, the count is above it for good, and only
threads that waited when it was reached are released, each in its first call;
those let through are a party then and ever after.

### Channels (`ChezProofs`)

For every number of putters, getters, pollers and puts, with spurious returns:
`NoWakeupIsLost` and `IsChannel` (`ChezChannel` implements `Channel`: every
value is got once and in order). Behind the second stands `Boxes`: what was
sent and not yet got is the value in the box, or nothing. Behind the first,
that a sleeper whose condition holds has a thread on its way to signal it, or
a woken one before it that will test the same condition.

### Conditions on Racket (`RacketCVProofs`)

For any number of waiters and notifiers: `NoStaleNotification`. Its invariant
accounts for the two semaphores that serve as locks (who holds which, and that
a notifier keeps `waitersLock` until its handshakes are in), and for tokens and
handshakes: together with the threads between taking a token and answering they
are as many as the notifier has posted and not yet heard of. Until the first
broadcast the count is the number of registered threads that were not let
through.

### Signals (`CSupportProofs`)

`NothingIsLost`, with any number of asking threads: a signal that was collected
is in the word until a thread returns it. `LoopIsRight`, with one asking
thread, adds that none is returned more often than it came; its invariant says
that the bit the caller has chosen after `Load` is still set, which a second
caller could undo.

### Numbers (`RefCNumbersProofs`)

For every width with the ratios of `WidthAssumption`, every set of characters that
holds at least the bytes (`CharAssumption`), every set of registers and literals: `TypesRight`, `ProgramRight` and `DivisionRight`. The lemmas say
that cutting in two steps is cutting once (a narrower width divides a wider
one), that reading what was made gives the value back, and that C's truncating
division, corrected by the signs as the code does, is Euclidean. `Fit` chooses
the one congruent value; `ProgramRight` takes each operation from the words to
this value, whatever word, canonical or not, the operands came with. A character
that is a byte is read and made as a Bits8 is (`CharIsByte`, `ByteFits`); all that
is beyond a byte goes through one of the careless operations.

### Sub-processes (`CSupportProofs`)

For any number of concurrent calls, any table size and any number of lines:
`TypesRight`, `Accounted` (the program has open exactly the ends that its
threads own, each once and where their arrays say) and `Wired` (if the program
keeps descriptors 0 and 1 open, a child's standard streams are the ends of its
own pipes). The invariant adds that a child's table after fork is the
program's at that time, which the other threads change only at descriptors of
their own.

`AnswersComplete` and `KillsOnlyEarly`, under the same condition, follow the lines
through the two pipes: as long as a session's output is not closed early, the
lines that were sent are those that came back and those in the two pipes and in
the child (`Conserved`), and a session that has read to the end has an ended
child with nothing left in its input (`Drained`).

### The build (`IncrementalBuildProofs`)

For any modules, sources, interfaces, files asked for and orders of edits,
builds and kills: `BuildsMatchCleanBuilds` (`Inv`, which contains
`BuildIsAsClean`) and `RebuildsHaveAReason` (`RebuiltForAReason`). The former is
not about two kinds of builds, which break it in the code and are excepted by
name: those in which a TTC asked for was written, or made from one written, while
a file was being saved (`raced`, ProcessIdr.idr:419), and those with one torn
by a kill in the middle of its writing (Buffer.idr:72). Section 5 has both. What the walk
over the imports yields is assumed (`OrderAssumption`); TLC evaluates this
assumption for the walk of `ModTree`, in every import graph of the run.

A build from scratch is not mentioned by the code, which compares times and
hashes. The proof goes from the former to the latter in three steps, the parts
of `Shown`. A TTC younger than its source was made from it. A TTC younger than
those of its imports holds their present hashes, because any TTC written later
is not older. And the hashes of the imports determine what a module sees: a hash
is a tree with the exported interface and the hashes of what is re-exported, so
everything in view is found inside (`InHashes`, a least set, so that no
induction is needed), and if all in view hold the present hashes it is what
re-exporting reaches now (`HashesShowView`). `Unedited` adds that the modules a
build is over with are settled in this sense, which the order of the walk
carries from a module's imports to the module (`Ordered`, `OrderedAdvances`);
once nothing is left to do this is all that was asked for (`CleanAtFinish`).

The attempt to prove this showed that a first version of `BuildIsAsClean`, which
excepted only a TTC written from an old source, held within the bounds of the
run and not beyond: section 5 has the four modules that break it.

### What only TLC checks

Liveness, ENABLED and everything that depends on fairness (`CascadeReturns`,
`PermitsAreUsed`, `PartyLeaves`, `SentIsReceived`, `PutsGoOn`,
`BroadcastWakesAll`, `NotifierReturns`, `EveryRaiseHandled`,
`FinishesUnlessCrossed`); the import walk, which is recursive.

## 5. Where code and documentation disagree

Met while modelling, and excepted by name where a property would break:

- **An application can make an immortal closure mortal.** `_datatypes.h:34` says that objects that reach the
  maximum count are immortal, and newReference and removeReference keep to it.
  `idris2_tailcall_apply_closure` decrements the counter of a shared closure
  without the comparison (`runtime.c:171`): from then on the counter is lower
  than the number of references. It takes 65535 references between two applications.
  `ImmortalsStay` and the other theorems of the heap therefore assume
  `SoundCounts`; the run with closures has a maximum that is never reached.
- **Semaphores on Chez let a thread through without a permit.** The counter is tested with `when` before
  `condition-wait` and not again after it (`support.ss:347`). A thread that
  calls semaphoreWait between the post and the return of the released thread
  takes the permit; both return, the box is -1, and from then on further
  waiters pass, because only zero blocks. The theorem
  `PermitsAreReserved` shows that this is the only way, and `JoinIsSafe` that
  `threadWait` is not affected. TLC finds it at once when `PermitsRespected` is
  put in the place of the invariant in `ChezSemaphore_many.cfg`.
- **A notification after a broadcast blocks for ever on Racket.**
  `broadcast-while-helper` counts a copy down and leaves
  `cv-waiters` as it was (`support.rkt:443`); the next signal posts a token for
  a thread that is gone and waits for its handshake with `waitersLock` taken.
  `RacketCV_notify` makes such calls; `NotifierReturns` excepts by name those
  after the first broadcast that found threads asleep (`era = "past"`), unless
  as many threads are asleep again as the call lets through.
- **Nothing is fair to one thread or one signal.** A putter of a Chez channel that was
  woken tests `read-box` again (`support.ss:398`) and may find that a quicker
  one has filled the channel, and so for ever; `PutsGoOn` says that some put
  returns, not whose. `handle_next_collected_signal` searches from the lowest bit
  (`idris_signal.c:84`), so a signal that is raised again and again keeps those
  of higher numbers waiting; `EveryRaiseHandled` is stated while no lower signal
  is collected again. Both hold for any number of puts and raises in this form.
- **Remainders of negative numbers.** `mathFunctions.c:96` adds the magnitude of
  the divisor to every remainder of a negative dividend, also to zero: `(-4)
  mod 2` is 2, and so it is for Integer. `EuclideanDivision`, which
  `tests/refc/integers/TestIntegers.idr:129` tests for other operands, is
  violated by these alone (`CarelessDivision`).
- **Casts that pass the pointer on.** `casts.h:140`: the Bits8 255 + 1 has a word
  that reads as 0, and as 256 after a cast to Bits16 (`CarelessCast`).
- **A case on a constant compares C ints** (`runtime.c:193`): values of 64 bits
  and Integers are cut, words that are not canonical and characters from 128
  take the wrong branch (`CarelessMatch`).
- **A character is one byte.** `casts.h` and `casts.c:287` cut a number that is cast to
  Char to its low byte, and `escapeChar` writes `(char)n` (`RefC.idr:92`), where Chez
  and Racket keep code points up to 0x10FFFF and give 0 for what is none
  (`support.ss:152`): 256 + 65 becomes `'A'`, -1 becomes the character 255
  (`CarelessCast`, `CarelessLiteral`).
- **Strings are counted in bytes.** A literal has a character from 128 as UTF-8
  (`RefC.idr:97`), and `stringOps.c` indexes, reverses, cuts and unpacks bytes, so that
  `length "é"` is 2 and its `reverse` is no text; `strCons` and `pack` put a character
  from 128 in as a single byte. Such a string has no meaning any more in the
  model (`Lost`) but is still a string (`TextIsKept`).
- **References the generator forgets.** The arguments of an external primitive
  that were owned are lent to it and never dropped (`RefC.idr:564`; the
  finaliser of `onCollect` apart, which the primitive keeps without counting),
  and the fields of a cell taken for reuse that the alternative does not use
  are never dropped (`RefC.idr:444`). `Settled` counts these apart.
- **An owned variable applied to itself** (`RefC.idr:499`): closure and argument
  are translated in the same environment, so that one reference is handed over
  twice. It takes a recursive type whose only constructor is erased. `AApp` does
  as the code does and sets `misapplied`, which `UsesAreHeld` and `Settled` except;
  without the exception both fail.
- **Pipes without close-on-exec** (`idris_file.c:351`): two threads that open
  their pipes before either forks give each child the other's write end, and
  neither filter ever sees the end of its input. `FinishesUnlessCrossed` excepts
  these (`Crossed`); a single thread is in the same position when it waits for
  one child while a younger one is open.
- `popen2Wait` asserts that the child has exited (`idris_file.c:439`): a child
  killed by SIGPIPE, after its output was closed early, stops the whole
  program. A `fork` that fails leaves four descriptors open. A program started
  with standard input or output closed may cut its children off from their
  pipes. What is documented as cleaning up leaves the streams open.
- Strings: a NUL character ends a string (`stringOps.c:41`); the length of
  `substr` is cut to a C int (`stringOps.c:63`), and one between 2^31 and 2^32 asks
  for a block of almost the whole memory. A place in a buffer is cut before
  it is checked (`buffer.c:40`). `fastPack`, `fastConcat` and `getBufferString`
  return memory that nobody frees (`stringOps.c:85`).
- A Chez barrier is not reset (`support.ss:368`): of a party that comes a
  second time nobody leaves. A Racket barrier keeps its turnstile open after
  the first use (`support.rkt:341`): from then on nobody waits.
- A Chez channel tells "empty" from the value itself in the polling operations
  (`support.ss:449`): a value represented as `'()` is never received by them,
  though `channelGet` receives it.
- A Racket mutex is a binary semaphore (`support.rkt:358`); the thread that
  holds it and acquires it again blocks, where `Concurrency.idr:61` describes
  a mutex that its owner may acquire again.
- Two threads that ask for the next signal at the same time may get the same
  one (`idris_signal.c:80`). The model has one asking loop.
- `condition-wait` stands outside any loop in Chez semaphores, barriers and
  futures (`support.ss:348`, 370, 532): a spurious return lets a thread through.
  A poller with a timeout does not look at the time while the mutex is busy
  (`support.ss:490`).
- A finaliser that uses the array slot being overwritten gets a pointer that
  is being finalised, and what it stores there is overwritten without being
  dropped (`prim.c:95`). `RefCArray` has this behaviour with `Touches = TRUE`.
- A source saved between the moment a build reads it and the moment its TTC is
  written looks older than the TTC and is not built again (`ProcessIdr.idr:419`).
  It need not be the module's own source: the order of a build comes from the
  imports at its start (`ModTree.idr:73`), the elaboration from the imports in the
  file at that time. Let `M` import `I` and `K`, and `K` import `J`; while a build
  runs, `I` comes to import `J` publicly and is built before `J`, whose text is
  another by now. `M` then sees the new `J` through an `I` whose hash says the old
  one. When `J` goes back to its old text, `I` and `M` look unchanged, and `M` keeps a
  TTC made against a `J` that is no more. `BuildIsAsClean` leaves out by name
  (`raced`) what is written in a build during which a file was saved, and what
  is made from it, until it is built again.
- A TTC is truncated and written in place (`Buffer.idr:72`), and one that is
  torn by a kill looks up to date; `BuildIsAsClean` leaves it out (`"torn"`). A
  build that reads a torn TTC does fail.
- The TTC of a module whose source was deleted is still imported, because
  `nsToPath` looks in the build directory first (`Core/Directory.idr:199`).

## 6. What is not modelled, and the plan

Abstracted in the models: payloads in the heap (leaves); floating point
everywhere; collisions of hashes and options in the build; spurious returns of
`condition-wait` in Chez semaphores and barriers, where they would break the
first property at once because nothing is tested again.

Not modelled, with the reason: elaboration, unification, totality, coverage
and the optimisers (pure functions of unbounded terms whose correctness is
metatheory), parsing, printing, REPL and IDE protocol (text, one sequential
request loop), the TTC encoding (the build has the header fields it depends
on), packages (their build step is `buildAll`, which is modelled), wrappers of
single system calls for files, directories, sockets, terminals and clocks (their
state is the operating system's), mutexes and conditions of RefC (`prim.c:126`;
no library binds to them, and `conditionWaitTimeout` would take a relative time
for an absolute one), the JavaScript and Gambit supports
(one thread, no protocol).

Done so far, in this order: the heap with its abstract specification and its
proofs; the Chez primitives with theirs; Racket conditions; signals; arrays;
the build; numbers, sub-processes, strings and buffers; the proofs about
barriers, channels, conditions, signals, numbers and sub-processes; the code
generator; the proofs about the generator, arrays, the flow of lines through
sub-processes, strings, buffers and the build.

Next:

1. **The generator against the heap**: what `held` counts as the references
   that the C locals of `RefCHeap` own, as a refinement.
2. **Racket barriers and mutexes** and **futures** on both back ends, with the
   abstract `Barrier` that is here already.
3. **Size-change termination** (`Core/Termination/SizeChange.idr`): the closure
   of a call graph as operators, against the definition by paths, over small
   graphs.
4. **The build** with deleted sources, package directories, and two builds in
   the same directory.
