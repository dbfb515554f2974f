---------------------------- MODULE IdrisSignal ----------------------------
(***************************************************************************)
(* Collected signals (support/c/idris_signal.c): the handler sets a bit of *)
(* one atomic word, at any moment; the program takes the lowest bit out in *)
(* two atomic operations, a load and a fetch-and.                          *)
(*                                                                         *)
(* The word is the set of signal numbers whose bits are set.  A signal of  *)
(* default disposition ends the process: it is not raised here.            *)
(***************************************************************************)
EXTENDS Naturals, FiniteSets
LOCAL INSTANCE Functions

CONSTANTS
  Signal,   \* signal numbers, below N_SIGNALS
  Caller,   \* the threads that call handleNextCollectedSignal
  MaxRaises \* bound: how often each signal is raised

ASSUME SignalAssumption == Signal \subseteq 0..31 /\ MaxRaises \in Nat

VARIABLES
  signals,     \* the word
  disposition, \* what sigaction was last told for each signal
  snapshot,    \* what each caller has loaded; {} outside the call
  raises,      \* history: collected raises of each signal
  handled,     \* history: how often each signal was returned
  owed         \* history: signals collected since they were last returned

signalVars == <<signals, disposition, snapshot, raises, handled, owed>>

SignalTypeOK ==
  /\ signals \subseteq Signal /\ owed \subseteq Signal
  /\ disposition \in [Signal -> {"default", "ignore", "collect"}]
  /\ snapshot \in [Caller -> SUBSET Signal]
  /\ raises \in [Signal -> 0..MaxRaises]
  /\ handled \in [Signal -> Nat]

SignalInit ==
  /\ signals = {} /\ owed = {}
  /\ disposition = [s \in Signal |-> "default"]
  /\ snapshot = [c \in Caller |-> {}]
  /\ raises = [s \in Signal |-> 0]
  /\ handled = [s \in Signal |-> 0]

\* collect_signal, ignore_signal, default_signal: what was collected stays.
Dispose(s, d) ==
  /\ disposition' = [disposition EXCEPT ![s] = d]
  /\ UNCHANGED <<signals, snapshot, raises, handled, owed>>

\* _collect_signal runs between any two instructions of the program.
Collect(s) ==
  /\ disposition[s] = "collect" /\ raises[s] < MaxRaises
  /\ signals' = signals \cup {s}
  /\ owed' = owed \cup {s}
  /\ raises' = [raises EXCEPT ![s] = @ + 1]
  /\ UNCHANGED <<disposition, snapshot, handled>>

Lowest(S) == CHOOSE s \in S : \A t \in S : s <= t

\* handle_next_collected_signal loads the word; an empty one ends the call.
Load(c) ==
  /\ snapshot[c] = {} /\ signals # {}
  /\ snapshot' = [snapshot EXCEPT ![c] = signals]
  /\ UNCHANGED <<signals, disposition, raises, handled, owed>>

\* Slip: the word is written back without the bit.
StoreBack(c) ==
  /\ snapshot[c] # {}
  /\ LET s == Lowest(snapshot[c]) IN
       /\ signals' = snapshot[c] \ {s}
       /\ handled' = [handled EXCEPT ![s] = @ + 1]
       /\ owed' = owed \ {s}
  /\ snapshot' = [snapshot EXCEPT ![c] = {}]
  /\ UNCHANGED <<disposition, raises>>

\* Slip: the mask is applied to the wrong side, and the bit stays.
KeepBit(c) ==
  /\ snapshot[c] # {}
  /\ LET s == Lowest(snapshot[c]) IN
       /\ handled' = [handled EXCEPT ![s] = @ + 1]
       /\ owed' = owed \ {s}
  /\ snapshot' = [snapshot EXCEPT ![c] = {}]
  /\ UNCHANGED <<signals, disposition, raises>>

\* The lowest bit of the snapshot is cleared in the word, and returned.
FetchAnd(c) ==
  /\ snapshot[c] # {}
  /\ LET s == Lowest(snapshot[c]) IN
       /\ signals' = signals \ {s}
       /\ handled' = [handled EXCEPT ![s] = @ + 1]
       /\ owed' = owed \ {s}
  /\ snapshot' = [snapshot EXCEPT ![c] = {}]
  /\ UNCHANGED <<disposition, raises>>

SignalNext ==
  \/ \E s \in Signal :
       Collect(s) \/ \E d \in {"default", "ignore", "collect"} : Dispose(s, d)
  \/ \E c \in Caller : Load(c) \/ FetchAnd(c)

SignalSpec == SignalInit /\ [][SignalNext]_signalVars
SignalFairSpec == SignalSpec /\ \A c \in Caller : WF_signalVars(Load(c)) /\ WF_signalVars(FetchAnd(c))

(***************************************************************************)
(* Properties                                                              *)
(***************************************************************************)
(* A signal that arrives while another one (or the same) is being taken out
   is not lost with it.                                                     *)
NoSignalLost == owed \subseteq signals

(* Signal.idr:229 "Calling this marks the signal as handled so the next time
   this function is called you will retrieve the next unhandled signal
   instead of the same signal again": no signal is returned more often than
   it was collected.                                                        *)
HandledOnce == \A s \in Signal : handled[s] <= raises[s]

\* What a program with one main loop may rely on: a signal that was collected is
\* in the word until it is returned, and is returned at most once.
SignalInv == SignalTypeOK /\ NoSignalLost /\ HandledOnce

\* How often a signal of a lower number than s has been collected.
RaisedBelow(s) == SumFunctionOnSet(raises, {t \in Signal : t < s})

(* In the main loop of a program that goes on asking, a collected signal is
   returned, unless one of a lower number is collected again first: the bits
   are searched from the lowest, so lower signals that keep coming put a
   higher one off for ever.                                                 *)
EveryRaiseHandled ==
  \A s \in Signal, n \in 0..MaxRaises * Cardinality(Signal) :
    s \in owed /\ RaisedBelow(s) = n ~> s \notin owed \/ RaisedBelow(s) > n

=============================================================================
