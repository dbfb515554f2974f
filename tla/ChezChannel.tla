---------------------------- MODULE ChezChannel ----------------------------
(***************************************************************************)
(* The channels of the Chez backend (support/chez/support.ss): read-box    *)
(* says whether the value in val-box has been taken; getters wait on       *)
(* val-cv and putters on read-cv, and each of them re-tests when it wakes, *)
(* so condition-wait may also return unasked.                              *)
(*                                                                         *)
(* A critical section is one step, as in ChezSemaphore.  Both signals are  *)
(* sent after the mutex has been released: that is a step of its own, and  *)
(* others may run before it.                                               *)
(*                                                                         *)
(* Pollers call channelGetNonBlocking and channelGetWithTimeout, which     *)
(* look at the value itself: an empty val-box holds '(), and Nil is the    *)
(* program's value with that representation (the empty list, Nothing).     *)
(***************************************************************************)
EXTENDS Naturals, Sequences

CONSTANTS
  Putter, Getter, Poller,  \* the threads
  Val,     \* the values put
  Nil,     \* the value represented as '()
  Timeout, \* the timeout, in sleeps of 10 microseconds
  MaxPuts  \* bound: values put

ASSUME ChannelAssumption ==
  /\ Timeout \in Nat /\ MaxPuts \in Nat
  /\ Putter \cap (Getter \cup Poller) = {} /\ Getter \cap Poller = {}

ChannelThread == Putter \cup Getter \cup Poller

VARIABLES
  full,    \* the negation of read-box
  val,     \* val-box
  channelPc,      \* where each thread stands
  elapsed, \* of a poller inside channelGetWithTimeout, up to Timeout
  sent,    \* history: the values put
  got      \* history: the values got

channelVars == <<full, val, channelPc, elapsed, sent, got>>

ChannelTypeOK ==
  /\ full \in BOOLEAN
  /\ val \in Val \cup {Nil}
  /\ channelPc \in [ChannelThread -> {"idle", "waiting", "woken", "polling", "signal"}]
  /\ elapsed \in [Poller -> 0..Timeout]
  /\ sent \in Seq(Val) /\ got \in Seq(Val \cup {Nil})

ChannelInit ==
  /\ full = FALSE /\ val = Nil
  /\ channelPc = [t \in ChannelThread |-> "idle"]
  /\ elapsed = [t \in Poller |-> 0]
  /\ sent = <<>> /\ got = <<>>

Ready(t) == channelPc[t] \in {"idle", "woken"}

(***************************************************************************)
(* channel-put                                                             *)
(***************************************************************************)
Block(t) ==
  /\ channelPc' = [channelPc EXCEPT ![t] = "waiting"]
  /\ UNCHANGED <<full, val, elapsed, sent, got>>

Store(p, v) ==
  /\ full' = TRUE /\ val' = v /\ sent' = Append(sent, v)
  /\ channelPc' = [channelPc EXCEPT ![p] = "signal"]
  /\ UNCHANGED <<elapsed, got>>

\* channel-put-while-helper, then the value.
Put(p) ==
  /\ Ready(p) /\ Len(sent) < MaxPuts
  /\ \/ full /\ Block(p)
     \/ ~full /\ \E v \in Val : Store(p, v)

(***************************************************************************)
(* channel-get and its non-blocking and timed variants                     *)
(***************************************************************************)
\* Slip: the value stays in the box.
TakeLeavesValue(t) ==
  /\ full' = FALSE /\ got' = Append(got, val)
  /\ channelPc' = [channelPc EXCEPT ![t] = "signal"]
  /\ UNCHANGED <<val, elapsed, sent>>

Take(t) ==
  /\ full' = FALSE /\ val' = Nil /\ got' = Append(got, val)
  /\ channelPc' = [channelPc EXCEPT ![t] = "signal"]
  /\ UNCHANGED <<elapsed, sent>>

\* channel-get-while-helper, then the value.
Get(g) ==
  /\ Ready(g)
  /\ \/ ~full /\ Block(g)
     \/ full /\ Take(g)

\* A call that finds '(), or the mutex taken, returns Nothing: no change.
GetNonBlocking(t) == channelPc[t] = "idle" /\ val # Nil /\ Take(t)

StartTimed(t) ==
  /\ channelPc[t] = "idle"
  /\ channelPc' = [channelPc EXCEPT ![t] = "polling"]
  /\ elapsed' = [elapsed EXCEPT ![t] = 0]
  /\ UNCHANGED <<full, val, sent, got>>

\* One turn of the loop.  The mutex may be taken, in which case the elapsed
\* time is not even compared.
GetWithTimeout(t) ==
  /\ channelPc[t] = "polling"
  /\ \/ val # Nil /\ Take(t)
     \/ /\ elapsed[t] < Timeout
        /\ elapsed' = [elapsed EXCEPT ![t] = @ + 1]
        /\ UNCHANGED <<full, val, channelPc, sent, got>>
     \/ /\ val = Nil /\ elapsed[t] = Timeout
        /\ channelPc' = [channelPc EXCEPT ![t] = "idle"]
        /\ UNCHANGED <<full, val, elapsed, sent, got>>

(***************************************************************************)
(* Condition variables                                                     *)
(***************************************************************************)
\* Slip: signalling does nothing but end the call.
SignalNobody(t, pool) == channelPc' = [channelPc EXCEPT ![t] = "idle"]

\* Thread t signals the condition that the threads in pool wait on.
Signal(t, pool) ==
  LET sleeping == {u \in pool : channelPc[u] = "waiting"} IN
  IF sleeping = {}
    THEN channelPc' = [channelPc EXCEPT ![t] = "idle"]
    ELSE \E u \in sleeping : channelPc' = [channelPc EXCEPT ![t] = "idle", ![u] = "woken"]

\* (condition-signal val-cv), by a putter.
SignalVal(p) ==
  /\ p \in Putter
  /\ channelPc[p] = "signal"
  /\ Signal(p, Getter)
  /\ UNCHANGED <<full, val, elapsed, sent, got>>

\* Slip: val-cv is signalled by whoever takes a value, too.
SignalReadWrongCv(t) ==
  /\ t \in Getter \cup Poller
  /\ channelPc[t] = "signal"
  /\ Signal(t, Getter)
  /\ UNCHANGED <<full, val, elapsed, sent, got>>

\* (condition-signal read-cv), by whoever took the value.
SignalRead(t) ==
  /\ t \in Getter \cup Poller
  /\ channelPc[t] = "signal"
  /\ Signal(t, Putter)
  /\ UNCHANGED <<full, val, elapsed, sent, got>>

\* condition-wait returns without having been signalled.
SpuriousWakeup(t) ==
  /\ channelPc[t] = "waiting"
  /\ channelPc' = [channelPc EXCEPT ![t] = "woken"]
  /\ UNCHANGED <<full, val, elapsed, sent, got>>

ChannelNext ==
  \/ \E p \in Putter : Put(p)
  \/ \E g \in Getter : Get(g)
  \/ \E t \in Poller : GetNonBlocking(t) \/ StartTimed(t) \/ GetWithTimeout(t)
  \/ \E t \in ChannelThread : SignalVal(t) \/ SignalRead(t) \/ SpuriousWakeup(t)

ChannelSpec == ChannelInit /\ [][ChannelNext]_channelVars

\* Getters go on asking; nothing is assumed of a poller between two calls; a
\* putter that has begun goes on.
ChannelFairSpec ==
  /\ ChannelSpec
  /\ \A g \in Getter : WF_channelVars(Get(g))
  /\ \A t \in Poller : WF_channelVars(GetWithTimeout(t))
  /\ \A t \in ChannelThread : WF_channelVars(SignalVal(t)) /\ WF_channelVars(SignalRead(t))
  /\ \A p \in Putter : WF_channelVars(channelPc[p] = "woken" /\ Put(p))

(***************************************************************************)
(* Properties                                                              *)
(***************************************************************************)
(* Every value put is got exactly once and in order, whichever of the three
   ways of getting takes it: the boxes are a channel of System.Concurrency. *)
PromisedChannel == INSTANCE Channel
ImplementsChannel == PromisedChannel!Spec

(* No lost wakeup: while a value is there for a sleeping getter, a getter is
   awake or a putter has its signal still to send; while there is room for a
   sleeping putter, a putter is awake or a taker has its signal to send.    *)
NoLostWakeup ==
  /\ full /\ (\E g \in Getter : channelPc[g] = "waiting") =>
       \/ \E g \in Getter : channelPc[g] = "woken"
       \/ \E p \in Putter : channelPc[p] = "signal"
  /\ ~full /\ (\E p \in Putter : channelPc[p] = "waiting") =>
       \/ \E p \in Putter : channelPc[p] = "woken"
       \/ \E t \in Getter \cup Poller : channelPc[t] = "signal"

\* Both, checked together.
ChannelInv == ChannelTypeOK /\ NoLostWakeup

(* Concurrency.idr:212 "The result is the sent value": what was put is got,
   as long as somebody goes on asking.                                      *)
SentIsReceived == \A n \in 1..MaxPuts : Len(sent) >= n ~> Len(got) >= n

(* Putters that sleep for want of room are not forgotten: while somebody goes
   on taking values, the channel accepts the next one, whose put returns.  It
   need not be a sleeper's: the woken putter tests read-box again, a quicker
   one may have filled the channel before it, and may do so for ever.       *)
PutsGoOn ==
  \A n \in 0..MaxPuts-1 :
    Len(sent) = n /\ (\E p \in Putter : channelPc[p] = "waiting") ~> Len(sent) > n

=============================================================================
