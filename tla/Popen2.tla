------------------------------- MODULE Popen2 -------------------------------
(***************************************************************************)
(* Sub-processes of the C support library on POSIX: popen2 and popen2Wait, *)
(* called by the threads of one program, each for a filter (cat) that it   *)
(* writes to, closes, reads to the end and waits for, in the order of      *)
(* tests/allbackends/popen2.                                               *)
(*                                                                         *)
(* popen2 is taken one system call at a time, because its threads share    *)
(* the descriptor table of the program, and because a child inherits all   *)
(* of it: end i of the array pipes of session s is the value <<s, i>>      *)
(* wherever it is open,                                                    *)
(*     0  the program reads the child's output    1  the child writes it   *)
(*     2  the child reads its input               3  the program writes it *)
(***************************************************************************)
EXTENDS Integers, FiniteSets

CONSTANTS
  Session,   \* the calls of popen2, each by a thread of its own
  Program,   \* the process that calls; the others are named by their session
  Std,       \* the standard descriptors that are open when it starts
  Files,     \* how many other files it may have open
  MaxFd,     \* how many descriptors a process may have
  Capacity,  \* how many lines a pipe holds
  Lines,     \* bound: how many lines a thread writes
  File, None \* what these descriptors, and a closed one, refer to

Process == Session \cup {Program}
Fd   == 0..(MaxFd - 1)
End  == Session \X (0..3)
Pipe == Session \X {"out", "in"}

ASSUME PopenAssumption ==
  /\ IsFiniteSet(Session) /\ Program \notin Session
  /\ MaxFd \in Nat /\ 3 <= MaxFd /\ Std \subseteq 0..2 /\ Files \subseteq 0..(MaxFd - 3)
  /\ Capacity \in Nat \ {0} /\ Lines \in Nat
  /\ File \notin End /\ None \notin End /\ File # None

VARIABLES
  pc,      \* where each thread is
  pipes,   \* its array pipes: descriptor numbers
  table,   \* each process's descriptors
  output,  \* the sessions whose output stream is open in the program
  early,   \* the sessions that closed it before they had read to the end
  sent, got, \* lines written to and read from each child
  child,   \* what has become of each child
  hand,    \* the children that have read a line and not written it yet
  line,    \* how many lines are in each pipe
  aborted  \* whether an assertion has stopped the program

thread == <<pipes, output, early, sent, got>>
vars == <<pc, thread, table, child, hand, line, aborted>>

(***************************************************************************)
(* Descriptors                                                             *)
(***************************************************************************)
Close(t, d)   == [t EXCEPT ![d] = None]
Dup2(t, a, b) == [t EXCEPT ![b] = t[a]]
Free(t)       == {d \in Fd : t[d] = None}
Closed        == [d \in Fd |-> None]

PipeOf(e) == <<e[1], IF e[2] \in {0, 1} THEN "out" ELSE "in">>
Open(e)   == \E p \in Process, d \in Fd : table[p][d] = e

\* pipe(&pipes[i]): the two lowest numbers that are free.
OpenPipe(s, i) ==
  \E a, b \in Free(table[Program]) :
    /\ a < b /\ \A d \in Free(table[Program]) : d < b => d = a
    /\ pipes' = [pipes EXCEPT ![s][i] = a, ![s][i + 1] = b]
    /\ table' = [table EXCEPT ![Program][a] = <<s, i>>, ![Program][b] = <<s, i + 1>>]
Room == Cardinality(Free(table[Program])) >= 2

Goto(s, from, to) == pc[s] = from /\ ~aborted /\ pc' = [pc EXCEPT ![s] = to]

(***************************************************************************)
(* popen2                                                                  *)
(***************************************************************************)
FirstPipe(s) ==
  /\ Goto(s, "idle", "onePipe") /\ Room /\ OpenPipe(s, 0)
  /\ UNCHANGED <<output, early, sent, got, child, hand, line, aborted>>
FirstPipeFails(s) ==
  /\ Goto(s, "idle", "failed") /\ ~Room
  /\ UNCHANGED <<thread, table, child, hand, line, aborted>>

SecondPipe(s) ==
  /\ Goto(s, "onePipe", "twoPipes") /\ Room /\ OpenPipe(s, 2)
  /\ UNCHANGED <<output, early, sent, got, child, hand, line, aborted>>
\* Slip: the write end of the first pipe stays open.
SecondPipeFailsKeeping(s) ==
  /\ Goto(s, "onePipe", "failed") /\ ~Room
  /\ table' = [table EXCEPT ![Program] = Close(@, pipes[s][0])]
  /\ UNCHANGED <<thread, child, hand, line, aborted>>
SecondPipeFails(s) ==
  /\ Goto(s, "onePipe", "failed") /\ ~Room
  /\ table' = [table EXCEPT ![Program] = Close(Close(@, pipes[s][0]), pipes[s][1])]
  /\ UNCHANGED <<thread, child, hand, line, aborted>>

\* The child is given a copy of the whole table.
Fork(s) ==
  /\ Goto(s, "twoPipes", "forked")
  /\ table' = [table EXCEPT ![s] = table[Program]]
  /\ child' = [child EXCEPT ![s] = "forked"]
  /\ UNCHANGED <<thread, hand, line, aborted>>
\* The four ends stay open.
ForkFails(s) ==
  /\ Goto(s, "twoPipes", "leaked")
  /\ UNCHANGED <<thread, table, child, hand, line, aborted>>

\* Slip: the program keeps the child's end of the output.
ParentReturnsKeeping(s) ==
  /\ Goto(s, "forked", "writing")
  /\ table' = [table EXCEPT ![Program] = Close(@, pipes[s][2])]
  /\ output' = output \cup {s}
  /\ UNCHANGED <<pipes, early, sent, got, child, hand, line, aborted>>
\* Slip: it closes its own end as well.
ParentReturnsClosing(s) ==
  /\ Goto(s, "forked", "writing")
  /\ table' = [table EXCEPT ![Program] =
       Close(Close(Close(@, pipes[s][0]), pipes[s][1]), pipes[s][2])]
  /\ output' = output \cup {s}
  /\ UNCHANGED <<pipes, early, sent, got, child, hand, line, aborted>>
ParentReturns(s) ==
  /\ Goto(s, "forked", "writing")
  /\ table' = [table EXCEPT ![Program] = Close(Close(@, pipes[s][1]), pipes[s][2])]
  /\ output' = output \cup {s}
  /\ UNCHANGED <<pipes, early, sent, got, child, hand, line, aborted>>

\* The child's side, up to execlp: it runs alone in its process.
\* Slip: without the last close.
ChildTableKeeping(t, p) ==
  LET out == Close(Close(Dup2(Close(t, 1), p[1], 1), p[0]), p[1])
  IN Close(Dup2(Close(out, 0), p[2], 0), p[2])
ChildTable(t, p) ==
  LET out == Close(Close(Dup2(Close(t, 1), p[1], 1), p[0]), p[1])
  IN Close(Close(Dup2(Close(out, 0), p[2], 0), p[2]), p[3])
Exec(s) ==
  /\ child[s] = "forked"
  /\ child' = [child EXCEPT ![s] = "running"]
  /\ table' = [table EXCEPT ![s] = ChildTable(@, pipes[s])]
  /\ UNCHANGED <<pc, thread, hand, line, aborted>>

(***************************************************************************)
(* What the thread does with the sub-process                               *)
(***************************************************************************)
Write(s) ==
  LET e == table[Program][pipes[s][3]] IN
  /\ Goto(s, "writing", "writing") /\ sent[s] < Lines
  /\ e \in Session \X {3} /\ line[PipeOf(e)] < Capacity
  /\ sent' = [sent EXCEPT ![s] = @ + 1]
  /\ line' = [line EXCEPT ![PipeOf(e)] = @ + 1]
  /\ UNCHANGED <<pipes, output, early, got, table, child, hand, aborted>>
CloseInput(s) ==
  /\ Goto(s, "writing", "reading")
  /\ table' = [table EXCEPT ![Program] = Close(@, pipes[s][3])]
  /\ UNCHANGED <<thread, child, hand, line, aborted>>
Read(s) ==
  LET e == table[Program][pipes[s][0]] IN
  /\ Goto(s, "reading", "reading")
  /\ e \in Session \X {0} /\ line[PipeOf(e)] > 0
  /\ got' = [got EXCEPT ![s] = @ + 1]
  /\ line' = [line EXCEPT ![PipeOf(e)] = @ - 1]
  /\ UNCHANGED <<pipes, output, early, sent, table, child, hand, aborted>>
\* Slip: an empty pipe is taken for one that has ended.
ReadEndEmpty(s) ==
  LET e == table[Program][pipes[s][0]] IN
  /\ Goto(s, "reading", "read")
  /\ e \in Session \X {0} => line[PipeOf(e)] = 0
  /\ UNCHANGED <<thread, table, child, hand, line, aborted>>
ReadEnd(s) ==
  LET e == table[Program][pipes[s][0]] IN
  /\ Goto(s, "reading", "read")
  /\ e \in Session \X {0} => line[PipeOf(e)] = 0 /\ ~Open(<<e[1], 1>>)
  /\ UNCHANGED <<thread, table, child, hand, line, aborted>>
\* At the end or after popen2Wait; CloseEarly, in the middle of reading.
CloseStream(s) ==
  /\ s \in output /\ output' = output \ {s}
  /\ table' = [table EXCEPT ![Program] = Close(@, pipes[s][0])]
  /\ UNCHANGED <<pipes, sent, got, child, hand, line, aborted>>
CloseOutput(s) ==
  /\ Goto(s, "read", "read") \/ Goto(s, "done", "done")
  /\ CloseStream(s) /\ UNCHANGED early
CloseEarly(s) ==
  Goto(s, "reading", "read") /\ CloseStream(s) /\ early' = early \cup {s}

\* popen2WaitByPid, which insists on a child that has exited by itself.
Wait(s) ==
  /\ Goto(s, "read", "done")
  /\ child[s] \in {"exited", "killed"}
  /\ child' = [child EXCEPT ![s] = "reaped"]
  /\ aborted' = (child[s] = "killed")
  /\ table' = IF aborted' THEN [table EXCEPT ![Program] = Closed] ELSE table
  /\ UNCHANGED <<thread, hand, line>>

(***************************************************************************)
(* The filter                                                              *)
(***************************************************************************)
Ends(s, how) ==
  /\ child[s] = "running"
  /\ child' = [child EXCEPT ![s] = how]
  /\ table' = [table EXCEPT ![s] = Closed]
  /\ hand' = hand \ {s}
  /\ UNCHANGED <<pc, thread, line, aborted>>

ChildReads(s) ==
  LET e == table[s][0] IN
  /\ child[s] = "running" /\ s \notin hand /\ e \in Session \X {2}
  /\ line[PipeOf(e)] > 0
  /\ line' = [line EXCEPT ![PipeOf(e)] = @ - 1]
  /\ hand' = hand \cup {s}
  /\ UNCHANGED <<pc, thread, table, child, aborted>>
\* Nothing is left, and nobody has the write end.
ChildEnds(s) ==
  LET e == table[s][0] IN
  /\ s \notin hand
  /\ e \in Session \X {2} => line[PipeOf(e)] = 0 /\ ~Open(<<e[1], 3>>)
  /\ Ends(s, "exited")
ChildWrites(s) ==
  LET e == table[s][1] IN
  /\ child[s] = "running" /\ s \in hand /\ e \in Session \X {1}
  /\ Open(<<e[1], 0>>) /\ line[PipeOf(e)] < Capacity
  /\ line' = [line EXCEPT ![PipeOf(e)] = @ + 1]
  /\ hand' = hand \ {s}
  /\ UNCHANGED <<pc, thread, table, child, aborted>>
\* SIGPIPE: nobody has the read end.
ChildDies(s) ==
  LET e == table[s][1] IN
  s \in hand /\ (e \in Session \X {1} => ~Open(<<e[1], 0>>)) /\ Ends(s, "killed")

(***************************************************************************)
Init ==
  /\ pc = [s \in Session |-> "idle"]
  /\ pipes = [s \in Session |-> [i \in 0..3 |-> 0]]
  /\ \E n \in Files :
       table = [p \in Process |->
         [d \in Fd |-> IF p = Program /\ d \in Std \cup 3..(2 + n) THEN File ELSE None]]
  /\ output = {} /\ early = {} /\ hand = {} /\ aborted = FALSE
  /\ sent = [s \in Session |-> 0] /\ got = [s \in Session |-> 0]
  /\ child = [s \in Session |-> "none"]
  /\ line = [p \in Pipe |-> 0]

Chooses(s) == FirstPipe(s) \/ FirstPipeFails(s) \/ CloseEarly(s)
Thread(s) ==
  \/ SecondPipe(s) \/ SecondPipeFails(s) \/ Fork(s) \/ ForkFails(s) \/ ParentReturns(s)
  \/ Write(s) \/ CloseInput(s) \/ Read(s) \/ ReadEnd(s) \/ CloseOutput(s) \/ Wait(s)
Child(s) == Exec(s) \/ ChildReads(s) \/ ChildEnds(s) \/ ChildWrites(s) \/ ChildDies(s)

Next == \E s \in Session : Chooses(s) \/ Thread(s) \/ Child(s)

Spec == Init /\ [][Next]_vars

\* The operating system runs every thread and every child; no thread is bound to
\* call popen2, or to stop reading.
FairSpec == Spec /\ \A s \in Session : WF_vars(Thread(s)) /\ WF_vars(Child(s))

(***************************************************************************)
(* Properties                                                              *)
(***************************************************************************)
TypeOK ==
  /\ pc \in [Session -> {"idle", "onePipe", "twoPipes", "forked", "failed", "leaked",
                         "writing", "reading", "read", "done"}]
  /\ pipes \in [Session -> [0..3 -> Fd]]
  /\ table \in [Process -> [Fd -> End \cup {File, None}]]
  /\ output \subseteq Session /\ early \subseteq Session /\ hand \subseteq Session
  /\ sent \in [Session -> 0..Lines] /\ got \in [Session -> Nat]
  /\ child \in [Session -> {"none", "forked", "running", "exited", "killed", "reaped"}]
  /\ line \in [Pipe -> 0..Capacity]
  /\ aborted \in BOOLEAN

\* The descriptors p has for an end.
At(p, e) == {d \in Fd : table[p][d] = e}

\* The ends of its pipes that a thread has open at this point.
Owned(s) ==
  CASE pc[s] = "onePipe" -> {0, 1}
    [] pc[s] \in {"twoPipes", "forked", "leaked"} -> 0..3
    [] pc[s] = "writing" -> {0, 3}
    [] pc[s] \in {"reading", "read", "done"} -> IF s \in output THEN {0} ELSE {}
    [] OTHER -> {}

\* However the calls of several threads interleave and whichever of them fail,
\* the program has open the ends that its threads own, each once and at the
\* number its thread remembers, and no others: a descriptor is lost only by a
\* fork that fails, and what popen2Wait leaves open is the output stream
\* (idris2_popen2, idris2_closeFile, idris2_popen2WaitByPid).
DescriptorsAccounted ==
  ~aborted => \A s \in Session, i \in 0..3 :
    At(Program, <<s, i>>) = IF i \in Owned(s) THEN {pipes[s][i]} ELSE {}

\* Every variable keeps its type, no descriptor number is out of range, and the
\* ends the program has open are those its threads own.
Inv == TypeOK /\ DescriptorsAccounted

\* A child reads and writes its own two pipes, and has no other end of them:
\* with a write end of its own input it would never see the end of it, whatever
\* the numbers that pipe() gave out and the order of close and dup2.
ChildWired ==
  \A s \in Session : child[s] = "running" =>
    /\ At(s, <<s, 2>>) = {0} /\ At(s, <<s, 1>>) = {1}
    /\ At(s, <<s, 0>>) = {} /\ At(s, <<s, 3>>) = {}

\* A thread that reads to the end has read the answer to all it has written:
\* the end of a child's output is not seen while a line is on its way.
AnswerComplete ==
  \A s \in Session : pc[s] \in {"read", "done"} /\ s \notin early => got[s] = sent[s]

\* A child is killed, and the assertion of popen2Wait stops the program, only
\* when a thread has closed the output of its child without reading to the end.
KilledOnlyIfEarly ==
  /\ \A s \in Session : child[s] = "killed" => s \in early \/ aborted
  /\ aborted => early # {}

\* Children of which each has what keeps another one from ending: the write end
\* of its input, or the last read end of an output that nobody reads any more.
Keeps(t, s) ==
  \/ At(t, <<s, 3>>) # {}
  \/ At(t, <<s, 0>>) # {} /\ At(Program, <<s, 0>>) = {}
Crossed ==
  \E S \in SUBSET Session :
    S # {} /\ \A s \in S : \E t \in S \ {s} : Keeps(t, s)

\* Each call that begins fails or is waited for successfully, unless the program
\* is stopped or calls of popen2 have crossed: two that open their pipes before
\* either forks give each child the other's input, and both wait for ever.
FinishesUnlessCrossed ==
  \A s \in Session :
    pc[s] = "onePipe" ~> pc[s] \in {"failed", "leaked", "done"} \/ aborted \/ Crossed
=============================================================================
