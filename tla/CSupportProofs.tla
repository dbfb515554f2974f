---------------------------- MODULE CSupportProofs ----------------------------
(***************************************************************************)
(* Proofs about the C support library, each part on its own: sub-processes *)
(* and collected signals.                                                  *)
(***************************************************************************)
EXTENDS Popen2, IdrisSignal, WellFoundedInduction, TLAPS

(***************************************************************************)
(* Proofs about popen2 for any number of sessions, any size of the table   *)
(* of descriptors and any capacity of the pipes.  Types are inductive; the *)
(* accounting of descriptors is inductive together with OutputOpen; the    *)
(* wiring of the children follows from both and from what WiredInv adds.   *)
(***************************************************************************)

\* What a descriptor refers to.
Value == End \cup {File, None}

\* Every end belongs to a pipe.
LEMMA PipeOfType ==
  ASSUME NEW e \in End
  PROVE PipeOf(e) \in Pipe
BY DEF End, Pipe, PipeOf

\* The closes and dup2s of the child keep a table a table.
LEMMA ChildTableType ==
  ASSUME NEW t \in [Fd -> Value], NEW p \in [0..3 -> Fd]
  PROVE ChildTable(t, p) \in [Fd -> Value]
<1>1. 0 \in Fd /\ 1 \in Fd BY PopenAssumption DEF Fd
<1>2. ASSUME NEW u \in [Fd -> Value], NEW d \in Fd PROVE Close(u, d) \in [Fd -> Value]
  BY DEF Close, Value
<1>3. ASSUME NEW u \in [Fd -> Value], NEW a \in Fd, NEW b \in Fd
      PROVE Dup2(u, a, b) \in [Fd -> Value]
  BY DEF Dup2
<1>4. p[0] \in Fd /\ p[1] \in Fd /\ p[2] \in Fd /\ p[3] \in Fd OBVIOUS
<1> DEFINE t1 == Close(t, 1)
           t2 == Dup2(t1, p[1], 1)
           t3 == Close(t2, p[0])
           t4 == Close(t3, p[1])
           t5 == Close(t4, 0)
           t6 == Dup2(t5, p[2], 0)
           t7 == Close(t6, p[2])
<1>5. ChildTable(t, p) = Close(t7, p[3]) BY DEF ChildTable
<1>6. t1 \in [Fd -> Value] BY <1>1, <1>2
<1>7. t2 \in [Fd -> Value] BY <1>1, <1>3, <1>4, <1>6
<1>8. t3 \in [Fd -> Value] BY <1>2, <1>4, <1>7
<1>9. t4 \in [Fd -> Value] BY <1>2, <1>4, <1>8
<1>10. t5 \in [Fd -> Value] BY <1>1, <1>2, <1>9
<1>11. t6 \in [Fd -> Value] BY <1>1, <1>3, <1>4, <1>10
<1>12. t7 \in [Fd -> Value] BY <1>2, <1>4, <1>11
<1> QED BY <1>2, <1>4, <1>5, <1>12

\* Each system call, step of a thread and step of a child keeps the types: in
\* particular a line is written only where there is room, so that no pipe and no
\* counter leaves its range.
LEMMA TypeStep == TypeOK /\ [Next]_vars => TypeOK'
<1> SUFFICES ASSUME TypeOK, [Next]_vars PROVE TypeOK'
  OBVIOUS
<1> USE DEF TypeOK, thread, Goto
<1>0. /\ Fd \subseteq Int /\ Program \in Process /\ Session \subseteq Process
      /\ table[Program] \in [Fd -> Value]
  BY DEF Fd, Process, Value
<1>a. ASSUME NEW d \in Fd PROVE Close(table[Program], d) \in [Fd -> Value]
  BY <1>0 DEF Close, Value
<1>b. ASSUME NEW u \in [Fd -> Value], NEW p \in Process
      PROVE [table EXCEPT ![p] = u] \in [Process -> [Fd -> Value]]
  BY <1>0 DEF Value
<1>c. ASSUME NEW s \in Session, NEW i \in {0, 2}, OpenPipe(s, i)
      PROVE pipes' \in [Session -> [0..3 -> Fd]] /\ table' \in [Process -> [Fd -> Value]]
  <2>1. PICK a, b \in Free(table[Program]) :
          /\ pipes' = [pipes EXCEPT ![s][i] = a, ![s][i + 1] = b]
          /\ table' = [table EXCEPT ![Program][a] = <<s, i>>, ![Program][b] = <<s, i + 1>>]
    BY <1>c DEF OpenPipe
  <2>2. a \in Fd /\ b \in Fd BY DEF Free
  <2>3. <<s, i>> \in Value /\ <<s, i + 1>> \in Value BY DEF End, Value
  <2> QED BY <2>1, <2>2, <2>3, <1>0 DEF Value
<1>d. \A s \in Session, i \in 0..3 : pipes[s][i] \in Fd OBVIOUS
<1>e. ASSUME NEW u \in [Fd -> Value], NEW d \in Fd PROVE Close(u, d) \in [Fd -> Value]
  BY DEF Close, Value
<1>f. Closed \in [Fd -> Value] BY DEF Closed, Value
<1>g. \A e : e \in Session \X {0, 1, 2, 3} => PipeOf(e) \in Pipe
  BY PipeOfType DEF End
<1>h. ASSUME NEW e, e \in Session \X {2} \/ e \in Session \X {1} \/ e \in Session \X {0}
                     \/ e \in Session \X {3}
      PROVE PipeOf(e) \in Pipe
  BY <1>h, <1>g
<1>i. Capacity \in Nat /\ Lines \in Nat BY PopenAssumption
<1>1. ASSUME NEW s \in Session, FirstPipe(s) PROVE TypeOK'
  <2>1. pipes' \in [Session -> [0..3 -> Fd]] /\ table' \in [Process -> [Fd -> Value]]
    BY <1>1, <1>c DEF FirstPipe
  <2> QED BY <1>1, <2>1 DEF FirstPipe, Value
<1>2. ASSUME NEW s \in Session, FirstPipeFails(s) PROVE TypeOK'
  BY <1>2 DEF FirstPipeFails
<1>3. ASSUME NEW s \in Session, SecondPipe(s) PROVE TypeOK'
  <2>1. pipes' \in [Session -> [0..3 -> Fd]] /\ table' \in [Process -> [Fd -> Value]]
    BY <1>3, <1>c DEF SecondPipe
  <2> QED BY <1>3, <2>1 DEF SecondPipe, Value
<1>4. ASSUME NEW s \in Session, SecondPipeFails(s) PROVE TypeOK'
  <2>1. table' \in [Process -> [Fd -> Value]]
    <3>1. Close(Close(table[Program], pipes[s][0]), pipes[s][1]) \in [Fd -> Value]
      <4>1. pipes[s][0] \in Fd /\ pipes[s][1] \in Fd BY <1>d
      <4>2. Close(table[Program], pipes[s][0]) \in [Fd -> Value] BY <4>1, <1>a
      <4> QED BY <4>1, <4>2, <1>e
    <3> QED BY <3>1, <1>b, <1>0, <1>4 DEF SecondPipeFails
  <2> QED BY <1>4, <2>1 DEF SecondPipeFails, Value
<1>5. ASSUME NEW s \in Session, Fork(s) PROVE TypeOK'
  <2>1. table' \in [Process -> [Fd -> Value]]
    BY <1>b, <1>0, <1>5 DEF Fork
  <2> QED BY <1>5, <2>1 DEF Fork, Value
<1>6. ASSUME NEW s \in Session, ForkFails(s) PROVE TypeOK'
  BY <1>6 DEF ForkFails
<1>7. ASSUME NEW s \in Session, ParentReturns(s) PROVE TypeOK'
  <2>1. table' \in [Process -> [Fd -> Value]]
    <3>1. Close(Close(table[Program], pipes[s][1]), pipes[s][2]) \in [Fd -> Value]
      <4>1. pipes[s][1] \in Fd /\ pipes[s][2] \in Fd BY <1>d
      <4>2. Close(table[Program], pipes[s][1]) \in [Fd -> Value] BY <4>1, <1>a
      <4> QED BY <4>1, <4>2, <1>e
    <3> QED BY <3>1, <1>b, <1>0, <1>7 DEF ParentReturns
  <2> QED BY <1>7, <2>1 DEF ParentReturns, Value
<1>8. ASSUME NEW s \in Session, Exec(s) PROVE TypeOK'
  <2>1. table' \in [Process -> [Fd -> Value]]
    <3>1. ChildTable(table[s], pipes[s]) \in [Fd -> Value]
      BY <1>0, ChildTableType DEF Value
    <3> QED BY <3>1, <1>b, <1>0, <1>8 DEF Exec
  <2> QED BY <1>8, <2>1 DEF Exec, Value
<1>9. ASSUME NEW s \in Session, Write(s) PROVE TypeOK'
  <2> DEFINE e == table[Program][pipes[s][3]]
             q == PipeOf(e)
  <2>1. q \in Pipe /\ line[q] < Capacity /\ sent[s] < Lines
    BY <1>9, <1>h DEF Write
  <2>2. line' = [line EXCEPT ![q] = @ + 1] BY <1>9 DEF Write
  <2> HIDE DEF q
  <2>3. line' \in [Pipe -> 0..Capacity] BY <2>1, <2>2, <1>i
  <2>4. sent' \in [Session -> 0..Lines] BY <1>9, <2>1, <1>i DEF Write
  <2> QED BY <1>9, <2>3, <2>4 DEF Write
<1>10. ASSUME NEW s \in Session, CloseInput(s) PROVE TypeOK'
  <2>1. table' \in [Process -> [Fd -> Value]]
    <3>1. pipes[s][3] \in Fd BY <1>d
    <3>2. Close(table[Program], pipes[s][3]) \in [Fd -> Value] BY <3>1, <1>a
    <3> QED BY <3>2, <1>b, <1>0, <1>10 DEF CloseInput
  <2> QED BY <1>10, <2>1 DEF CloseInput, Value
<1>11. ASSUME NEW s \in Session, Read(s) PROVE TypeOK'
  <2> DEFINE e == table[Program][pipes[s][0]]
             q == PipeOf(e)
  <2>1. q \in Pipe /\ line[q] > 0
    BY <1>11, <1>h DEF Read
  <2>2. line' = [line EXCEPT ![q] = @ - 1] BY <1>11 DEF Read
  <2> HIDE DEF q
  <2>3. line' \in [Pipe -> 0..Capacity] BY <2>1, <2>2, <1>i
  <2>4. got' \in [Session -> Nat] BY <1>11 DEF Read
  <2> QED BY <1>11, <2>3, <2>4 DEF Read
<1>12. ASSUME NEW s \in Session, ReadEnd(s) PROVE TypeOK'
  BY <1>12 DEF ReadEnd
<1>13. ASSUME NEW s \in Session, CloseOutput(s) \/ CloseEarly(s) PROVE TypeOK'
  <2>1. table' \in [Process -> [Fd -> Value]]
    <3>1. pipes[s][0] \in Fd BY <1>d
    <3>2. Close(table[Program], pipes[s][0]) \in [Fd -> Value] BY <3>1, <1>a
    <3>3. table' = [table EXCEPT ![Program] = Close(table[Program], pipes[s][0])]
      BY <1>0, <1>13 DEF CloseOutput, CloseEarly, CloseStream
    <3> QED BY <3>2, <3>3, <1>b, <1>0
  <2>2. early' \subseteq Session /\ output' \subseteq Session BY <1>13 DEF CloseOutput, CloseEarly, CloseStream
  <2>3. pc' = [pc EXCEPT ![s] = "read"] \/ pc' = [pc EXCEPT ![s] = "done"]
    BY <1>13 DEF CloseOutput, CloseEarly, CloseStream
  <2> QED BY <1>13, <2>1, <2>2, <2>3 DEF CloseOutput, CloseEarly, CloseStream, Value
<1>14. ASSUME NEW s \in Session, Wait(s) PROVE TypeOK'
  <2>1. table' \in [Process -> [Fd -> Value]]
    <3>1. [table EXCEPT ![Program] = Closed] \in [Process -> [Fd -> Value]]
      BY <1>b, <1>f, <1>0
    <3> QED BY <3>1, <1>14 DEF Wait, Value
  <2>2. aborted' \in BOOLEAN BY <1>14 DEF Wait
  <2>3. child' \in [Session -> {"none", "forked", "running", "exited", "killed", "reaped"}]
    BY <1>14 DEF Wait
  <2> QED BY <1>14, <2>1, <2>2, <2>3 DEF Wait, Value
<1>15. ASSUME NEW s \in Session, NEW how \in {"exited", "killed"}, Ends(s, how) PROVE TypeOK'
  <2>1. table' \in [Process -> [Fd -> Value]]
    BY <1>b, <1>f, <1>0, <1>15 DEF Ends
  <2> QED BY <1>15, <2>1 DEF Ends, Value
<1>16. ASSUME NEW s \in Session, ChildReads(s) PROVE TypeOK'
  <2> DEFINE e == table[s][0]
             q == PipeOf(e)
  <2>1. q \in Pipe /\ line[q] > 0
    BY <1>16, <1>h DEF ChildReads
  <2>2. line' = [line EXCEPT ![q] = @ - 1] BY <1>16 DEF ChildReads
  <2> HIDE DEF q
  <2>3. line' \in [Pipe -> 0..Capacity] BY <2>1, <2>2, <1>i
  <2> QED BY <1>16, <2>3 DEF ChildReads
<1>17. ASSUME NEW s \in Session, ChildWrites(s) PROVE TypeOK'
  <2> DEFINE e == table[s][1]
             q == PipeOf(e)
  <2>1. q \in Pipe /\ line[q] < Capacity
    BY <1>17, <1>h DEF ChildWrites
  <2>2. line' = [line EXCEPT ![q] = @ + 1] BY <1>17 DEF ChildWrites
  <2> HIDE DEF q
  <2>3. line' \in [Pipe -> 0..Capacity] BY <2>1, <2>2, <1>i
  <2> QED BY <1>17, <2>3 DEF ChildWrites
<1>18. CASE UNCHANGED vars BY <1>18 DEF vars
<1> QED
  BY <1>1, <1>2, <1>3, <1>4, <1>5, <1>6, <1>7, <1>8, <1>9, <1>10, <1>11, <1>12, <1>13,
     <1>14, <1>15, <1>16, <1>17, <1>18
  DEF Next, Chooses, Thread, Child, ChildEnds, ChildDies

\* The types hold of the program before its first call of popen2.
LEMMA TypeStart == Init => TypeOK
<1> SUFFICES ASSUME Init PROVE TypeOK
  OBVIOUS
<1>1. 0 \in Fd BY PopenAssumption DEF Fd
<1>2. Capacity \in Nat /\ Lines \in Nat BY PopenAssumption
<1>3. table \in [Process -> [Fd -> End \cup {File, None}]] BY DEF Init
<1>4. pipes \in [Session -> [0..3 -> Fd]]
  <2>1. [i \in 0..3 |-> 0] \in [0..3 -> Fd] BY <1>1
  <2> QED BY <2>1 DEF Init
<1>5. line \in [Pipe -> 0..Capacity] BY <1>2 DEF Init
<1>6. /\ sent \in [Session -> 0..Lines] /\ got \in [Session -> Nat]
      /\ output \subseteq Session /\ early \subseteq Session /\ hand \subseteq Session
  BY <1>2 DEF Init
<1> QED BY <1>3, <1>4, <1>5, <1>6 DEF Init, TypeOK

\* However many calls of popen2 run concurrently and whatever fails in them
\* (idris2_popen2, idris2_popen2WaitByPid), the variables keep their types.
THEOREM TypesRight == Spec => []TypeOK
BY TypeStart, TypeStep, PTL DEF Spec

\* Of all ends, those in O are open in table t, each once and at its number in q.
AccountedBy(t, q, O) ==
  \A s \in Session, i \in 0..3 :
    {d \in Fd : t[d] = <<s, i>>} = IF <<s, i>> \in O THEN {q[s][i]} ELSE {}

OwnedEnds == {e \in End : e[2] \in Owned(e[1])}

\* DescriptorsAccounted, said of the program's table.
LEMMA Accounting ==
  DescriptorsAccounted <=> (~aborted => AccountedBy(table[Program], pipes, OwnedEnds))
<1>1. ASSUME NEW s \in Session, NEW i \in 0..3
      PROVE <<s, i>> \in OwnedEnds <=> i \in Owned(s)
  BY DEF OwnedEnds, End
<1> QED BY <1>1 DEF DescriptorsAccounted, AccountedBy, At

\* Closing the number that a thread remembers for an end closes this end and
\* disturbs no other.
LEMMA CloseOne ==
  ASSUME NEW t \in [Fd -> Value], NEW q \in [Session -> [0..3 -> Fd]], NEW O,
         AccountedBy(t, q, O),
         NEW s \in Session, NEW i \in 0..3, <<s, i>> \in O
  PROVE /\ AccountedBy(Close(t, q[s][i]), q, O \ {<<s, i>>})
        /\ Close(t, q[s][i]) \in [Fd -> Value]
        /\ t[q[s][i]] = <<s, i>>
<1> DEFINE c == q[s][i]
           u == Close(t, c)
<1>0. c \in Fd OBVIOUS
<1>1. t[c] = <<s, i>>
  <2>1. {d \in Fd : t[d] = <<s, i>>} = {c} BY DEF AccountedBy
  <2> QED BY <2>1
<1>2. u \in [Fd -> Value] /\ u = [t EXCEPT ![c] = None] BY <1>0 DEF Close, Value
<1> HIDE DEF c, u
<1>3. ASSUME NEW r \in Session, NEW j \in 0..3
      PROVE {d \in Fd : u[d] = <<r, j>>} =
              IF <<r, j>> \in O \ {<<s, i>>} THEN {q[r][j]} ELSE {}
  <2>0. <<r, j>> # None /\ <<r, j>> \in End BY PopenAssumption DEF End
  <2>1. {d \in Fd : t[d] = <<r, j>>} = IF <<r, j>> \in O THEN {q[r][j]} ELSE {}
    BY DEF AccountedBy
  <2>2. CASE <<r, j>> = <<s, i>>
    <3>1. {d \in Fd : t[d] = <<r, j>>} = {c} BY <2>1, <2>2 DEF c
    <3>2. {d \in Fd : u[d] = <<r, j>>} = {} BY <3>1, <1>0, <1>2, <2>0
    <3> QED BY <3>2, <2>2
  <2>3. CASE <<r, j>> # <<s, i>>
    <3>1. \A d \in Fd : u[d] = <<r, j>> <=> t[d] = <<r, j>>
      BY <1>0, <1>1, <1>2, <2>0, <2>3
    <3>2. {d \in Fd : u[d] = <<r, j>>} = {d \in Fd : t[d] = <<r, j>>} BY <3>1
    <3>3. <<r, j>> \in O \ {<<s, i>>} <=> <<r, j>> \in O BY <2>3
    <3> QED BY <2>1, <3>2, <3>3
  <2> QED BY <2>2, <2>3
<1>4. AccountedBy(u, q, O \ {<<s, i>>}) BY <1>3 DEF AccountedBy
<1> QED BY <1>1, <1>2, <1>4 DEF c, u

\* A pipe opened on two free numbers disturbs no end that is open.
LEMMA OpenTwo ==
  ASSUME NEW t \in [Fd -> Value], NEW q \in [Session -> [0..3 -> Fd]], NEW O,
         AccountedBy(t, q, O),
         NEW s \in Session, NEW i \in {0, 2}, <<s, i>> \notin O, <<s, i + 1>> \notin O,
         NEW a \in Free(t), NEW b \in Free(t), a # b,
         NEW r, r = [q EXCEPT ![s][i] = a, ![s][i + 1] = b],
         NEW u, u = [t EXCEPT ![a] = <<s, i>>, ![b] = <<s, i + 1>>]
  PROVE AccountedBy(u, r, O \cup {<<s, i>>, <<s, i + 1>>})
<1>0. /\ a \in Fd /\ b \in Fd /\ t[a] = None /\ t[b] = None
      /\ i \in 0..3 /\ i + 1 \in 0..3 /\ i # i + 1
  BY DEF Free
<1>1. /\ u[a] = <<s, i>> /\ u[b] = <<s, i + 1>>
      /\ \A d \in Fd : d # a /\ d # b => u[d] = t[d]
  BY <1>0
<1>2. /\ r[s][i] = a /\ r[s][i + 1] = b
      /\ \A x \in Session, j \in 0..3 : <<x, j>> # <<s, i>> /\ <<x, j>> # <<s, i + 1>> => r[x][j] = q[x][j]
  BY <1>0
<1>3. ASSUME NEW x \in Session, NEW j \in 0..3
      PROVE {d \in Fd : u[d] = <<x, j>>} =
              IF <<x, j>> \in O \cup {<<s, i>>, <<s, i + 1>>} THEN {r[x][j]} ELSE {}
  <2>0. <<x, j>> # None BY PopenAssumption DEF End
  <2>1. {d \in Fd : t[d] = <<x, j>>} = IF <<x, j>> \in O THEN {q[x][j]} ELSE {}
    BY DEF AccountedBy
  <2>2. CASE <<x, j>> = <<s, i>>
    <3>1. {d \in Fd : t[d] = <<x, j>>} = {} BY <2>1, <2>2
    <3>2. <<s, i>> # <<s, i + 1>> BY <1>0
    <3>3. {d \in Fd : u[d] = <<x, j>>} = {a} BY <3>1, <3>2, <1>0, <1>1, <2>2
    <3> QED BY <3>3, <1>2, <2>2
  <2>3. CASE <<x, j>> = <<s, i + 1>>
    <3>1. {d \in Fd : t[d] = <<x, j>>} = {} BY <2>1, <2>3
    <3>2. <<s, i>> # <<s, i + 1>> BY <1>0
    <3>3. {d \in Fd : u[d] = <<x, j>>} = {b} BY <3>1, <3>2, <1>0, <1>1, <2>3
    <3> QED BY <3>3, <1>2, <2>3
  <2>4. CASE <<x, j>> # <<s, i>> /\ <<x, j>> # <<s, i + 1>>
    <3>1. \A d \in Fd : u[d] = <<x, j>> <=> t[d] = <<x, j>>
      BY <1>0, <1>1, <2>0, <2>4
    <3>2. {d \in Fd : u[d] = <<x, j>>} = {d \in Fd : t[d] = <<x, j>>} BY <3>1
    <3>3. r[x][j] = q[x][j] BY <1>2, <2>4
    <3>4. <<x, j>> \in O \cup {<<s, i>>, <<s, i + 1>>} <=> <<x, j>> \in O BY <2>4
    <3> QED BY <2>1, <3>2, <3>3, <3>4
  <2> QED BY <2>2, <2>3, <2>4
<1> QED BY <1>3 DEF AccountedBy

\* The same for the table after a step.
LEMMA AccountingAfter ==
  DescriptorsAccounted' <=> (~aborted' => AccountedBy(table'[Program], pipes', OwnedEnds'))
<1>1. ASSUME NEW s \in Session, NEW i \in 0..3
      PROVE <<s, i>> \in OwnedEnds' <=> i \in Owned(s)'
  BY DEF OwnedEnds, End
<1> QED BY <1>1 DEF DescriptorsAccounted, AccountedBy, At

\* A step that leaves the program's table and what the threads own alone.
LEMMA Quiet ==
  ASSUME DescriptorsAccounted, table'[Program] = table[Program], pipes' = pipes,
         ~aborted' => ~aborted, \A s \in Session : Owned(s)' = Owned(s)
  PROVE DescriptorsAccounted'
BY DEF DescriptorsAccounted, At

\* What is owned after a step of thread s that opens two of its ends.
LEMMA OwnedMore ==
  ASSUME NEW s \in Session, \A r \in Session \ {s} : Owned(r)' = Owned(r),
         NEW i \in 0..3, NEW j \in 0..3, Owned(s)' = Owned(s) \cup {i, j}
  PROVE OwnedEnds' = OwnedEnds \cup {<<s, i>>, <<s, j>>}
<1>1. ASSUME NEW r \in Session, NEW k \in 0..3
      PROVE /\ <<r, k>> \in OwnedEnds <=> k \in Owned(r)
            /\ <<r, k>> \in OwnedEnds' <=> k \in Owned(r)'
  BY DEF OwnedEnds, End
<1>2. ASSUME NEW r \in Session, NEW k \in 0..3
      PROVE <<r, k>> \in OwnedEnds' <=> <<r, k>> \in OwnedEnds \cup {<<s, i>>, <<s, j>>}
  <2>1. CASE r # s BY <1>1, <2>1
  <2>2. CASE r = s BY <1>1, <2>2
  <2> QED BY <2>1, <2>2
<1>3. OwnedEnds \subseteq End /\ OwnedEnds' \subseteq End /\ <<s, i>> \in End /\ <<s, j>> \in End
  BY DEF OwnedEnds, End
<1>4. \A e \in End : \E r \in Session, k \in 0..3 : e = <<r, k>> BY DEF End
<1>5. ASSUME NEW e \in End PROVE e \in OwnedEnds' <=> e \in OwnedEnds \cup {<<s, i>>, <<s, j>>}
  <2>1. PICK r \in Session, k \in 0..3 : e = <<r, k>> BY <1>4
  <2> QED BY <1>2, <2>1
<1> QED BY <1>3, <1>5

\* What is owned after a step of thread s that closes one or two of its ends.
LEMMA OwnedLess ==
  ASSUME NEW s \in Session, \A r \in Session \ {s} : Owned(r)' = Owned(r),
         NEW i \in 0..3, NEW j \in 0..3, Owned(s)' = (Owned(s) \ {i}) \ {j}
  PROVE OwnedEnds' = (OwnedEnds \ {<<s, i>>}) \ {<<s, j>>}
<1>1. ASSUME NEW r \in Session, NEW k \in 0..3
      PROVE /\ <<r, k>> \in OwnedEnds <=> k \in Owned(r)
            /\ <<r, k>> \in OwnedEnds' <=> k \in Owned(r)'
  BY DEF OwnedEnds, End
<1>2. ASSUME NEW r \in Session, NEW k \in 0..3
      PROVE <<r, k>> \in OwnedEnds' <=> <<r, k>> \in (OwnedEnds \ {<<s, i>>}) \ {<<s, j>>}
  <2>1. CASE r # s BY <1>1, <2>1
  <2>2. CASE r = s BY <1>1, <2>2
  <2> QED BY <2>1, <2>2
<1>3. OwnedEnds \subseteq End /\ OwnedEnds' \subseteq End
  BY DEF OwnedEnds
<1>4. \A e \in End : \E r \in Session, k \in 0..3 : e = <<r, k>> BY DEF End
<1>5. ASSUME NEW e \in End PROVE e \in OwnedEnds' <=> e \in (OwnedEnds \ {<<s, i>>}) \ {<<s, j>>}
  <2>1. PICK r \in Session, k \in 0..3 : e = <<r, k>> BY <1>4
  <2> QED BY <1>2, <2>1
<1> QED BY <1>3, <1>5

\* Two ends of s are closed, one after the other.
LEMMA CloseTwo ==
  ASSUME TypeOK, DescriptorsAccounted, ~aborted,
         NEW s \in Session, \A r \in Session \ {s} : Owned(r)' = Owned(r),
         NEW i \in 0..3, NEW j \in 0..3, i # j, i \in Owned(s), j \in Owned(s),
         Owned(s)' = (Owned(s) \ {i}) \ {j}, pipes' = pipes,
         table'[Program] = Close(Close(table[Program], pipes[s][i]), pipes[s][j])
  PROVE DescriptorsAccounted'
<1> DEFINE t == table[Program]
           u == Close(t, pipes[s][i])
<1>1. t \in [Fd -> Value] /\ pipes \in [Session -> [0..3 -> Fd]]
  BY DEF TypeOK, Process, Value
<1>2. <<s, i>> \in OwnedEnds /\ <<s, j>> \in OwnedEnds \ {<<s, i>>} BY DEF OwnedEnds, End
<1>3. AccountedBy(t, pipes, OwnedEnds) BY Accounting
<1>4. AccountedBy(u, pipes, OwnedEnds \ {<<s, i>>}) /\ u \in [Fd -> Value]
  BY <1>1, <1>2, <1>3, CloseOne
<1> HIDE DEF u
<1>5. AccountedBy(Close(u, pipes[s][j]), pipes, (OwnedEnds \ {<<s, i>>}) \ {<<s, j>>})
  BY <1>1, <1>2, <1>4, CloseOne
<1>6. OwnedEnds' = (OwnedEnds \ {<<s, i>>}) \ {<<s, j>>} BY OwnedLess
<1> QED BY <1>5, <1>6, AccountingAfter DEF u

\* One end of s is closed.
LEMMA CloseEnd ==
  ASSUME TypeOK, DescriptorsAccounted, ~aborted,
         NEW s \in Session, \A r \in Session \ {s} : Owned(r)' = Owned(r),
         NEW i \in 0..3, i \in Owned(s), Owned(s)' = Owned(s) \ {i}, pipes' = pipes,
         table'[Program] = Close(table[Program], pipes[s][i])
  PROVE DescriptorsAccounted'
<1>1. table[Program] \in [Fd -> Value] /\ pipes \in [Session -> [0..3 -> Fd]]
  BY DEF TypeOK, Process, Value
<1>2. <<s, i>> \in OwnedEnds BY DEF OwnedEnds, End
<1>3. AccountedBy(table[Program], pipes, OwnedEnds) BY Accounting
<1>4. AccountedBy(Close(table[Program], pipes[s][i]), pipes, OwnedEnds \ {<<s, i>>})
  BY <1>1, <1>2, <1>3, CloseOne
<1>5. OwnedEnds' = OwnedEnds \ {<<s, i>>}
  <2>1. Owned(s)' = (Owned(s) \ {i}) \ {i} OBVIOUS
  <2> QED BY <2>1, OwnedLess
<1> QED BY <1>4, <1>5, AccountingAfter

\* A pipe is opened.
LEMMA OpenEnds ==
  ASSUME TypeOK, DescriptorsAccounted, ~aborted,
         NEW s \in Session, \A r \in Session \ {s} : Owned(r)' = Owned(r),
         NEW i \in {0, 2}, i \notin Owned(s), i + 1 \notin Owned(s),
         Owned(s)' = Owned(s) \cup {i, i + 1}, OpenPipe(s, i)
  PROVE DescriptorsAccounted'
<1> DEFINE t == table[Program]
<1>1. /\ t \in [Fd -> Value] /\ pipes \in [Session -> [0..3 -> Fd]]
      /\ table \in [Process -> [Fd -> Value]] /\ Program \in Process
  BY DEF TypeOK, Process, Value
<1>2. i \in 0..3 /\ i + 1 \in 0..3 OBVIOUS
<1>3. <<s, i>> \notin OwnedEnds /\ <<s, i + 1>> \notin OwnedEnds
  BY <1>2 DEF OwnedEnds, End
<1>4. AccountedBy(t, pipes, OwnedEnds) BY Accounting
<1>5. PICK a, b \in Free(t) :
        /\ a < b
        /\ pipes' = [pipes EXCEPT ![s][i] = a, ![s][i + 1] = b]
        /\ table' = [table EXCEPT ![Program][a] = <<s, i>>, ![Program][b] = <<s, i + 1>>]
  BY DEF OpenPipe
<1>6. a # b BY <1>5 DEF Free, Fd
<1>7. table'[Program] = [t EXCEPT ![a] = <<s, i>>, ![b] = <<s, i + 1>>]
  BY <1>1, <1>5
<1>8. AccountedBy(table'[Program], pipes', OwnedEnds \cup {<<s, i>>, <<s, i + 1>>})
  BY <1>1, <1>3, <1>4, <1>5, <1>6, <1>7, OpenTwo
<1>9. OwnedEnds' = OwnedEnds \cup {<<s, i>>, <<s, i + 1>>} BY <1>2, OwnedMore
<1> QED BY <1>8, <1>9, AccountingAfter

\* The output stream is open until the thread has returned from popen2.
OutputOpen == \A s \in Session : pc[s] = "writing" => s \in output

\* No step closes the output stream of a thread that is still writing.
LEMMA OutputStep == TypeOK /\ OutputOpen /\ [Next]_vars => OutputOpen'
<1> SUFFICES ASSUME TypeOK, OutputOpen, [Next]_vars PROVE OutputOpen'
  OBVIOUS
<1> USE DEF TypeOK, OutputOpen, Goto, thread
<1>1. ASSUME NEW s \in Session, FirstPipe(s) \/ FirstPipeFails(s) PROVE OutputOpen'
  BY <1>1 DEF FirstPipe, FirstPipeFails
<1>2. ASSUME NEW s \in Session,
             SecondPipe(s) \/ SecondPipeFails(s) \/ Fork(s) \/ ForkFails(s) \/ Wait(s)
      PROVE OutputOpen'
  BY <1>2 DEF SecondPipe, SecondPipeFails, Fork, ForkFails, Wait
<1>3. ASSUME NEW s \in Session, ParentReturns(s) PROVE OutputOpen'
  BY <1>3 DEF ParentReturns
<1>4. ASSUME NEW s \in Session, Write(s) \/ CloseInput(s) \/ Read(s) \/ ReadEnd(s)
      PROVE OutputOpen'
  BY <1>4 DEF Write, CloseInput, Read, ReadEnd
<1>5. ASSUME NEW s \in Session, CloseOutput(s) \/ CloseEarly(s) PROVE OutputOpen'
  BY <1>5 DEF CloseOutput, CloseEarly, CloseStream
<1>6. ASSUME NEW s \in Session, Child(s) PROVE OutputOpen'
  BY <1>6 DEF Child, Exec, ChildReads, ChildEnds, ChildWrites, ChildDies, Ends
<1>7. CASE UNCHANGED vars BY <1>7 DEF vars
<1> QED BY <1>1, <1>2, <1>3, <1>4, <1>5, <1>6, <1>7 DEF Next, Chooses, Thread

\* Each step leaves exactly the ends open that the threads own after it.
LEMMA AccountStep ==
  TypeOK /\ OutputOpen /\ DescriptorsAccounted /\ [Next]_vars => DescriptorsAccounted'
<1> SUFFICES ASSUME TypeOK, OutputOpen, DescriptorsAccounted, [Next]_vars
             PROVE DescriptorsAccounted'
  OBVIOUS
<1>0. /\ pc \in [Session -> {"idle", "onePipe", "twoPipes", "forked", "failed", "leaked",
                         "writing", "reading", "read", "done"}]
      /\ table \in [Process -> [Fd -> Value]]
      /\ Program \in Process /\ Session \subseteq Process /\ Program \notin Session
  BY PopenAssumption DEF TypeOK, Process, Value
<1>b. ASSUME NEW s \in Session, NEW to, pc' = [pc EXCEPT ![s] = to],
             output' \ {s} = output \ {s}
      PROVE \A r \in Session \ {s} : Owned(r)' = Owned(r)
  BY <1>b, <1>0 DEF Owned
<1> USE DEF Goto, thread
<1>1. ASSUME NEW s \in Session, FirstPipe(s) PROVE DescriptorsAccounted'
  <2>1. Owned(s) = {} /\ Owned(s)' = {0, 0 + 1} BY <1>1, <1>0 DEF FirstPipe, Owned
  <2> QED BY <2>1, <1>1, <1>b, OpenEnds DEF FirstPipe
<1>2. ASSUME NEW s \in Session, FirstPipeFails(s) PROVE DescriptorsAccounted'
  <2>1. Owned(s)' = Owned(s) BY <1>2, <1>0 DEF FirstPipeFails, Owned
  <2> QED BY <2>1, <1>2, <1>b, Quiet DEF FirstPipeFails
<1>3. ASSUME NEW s \in Session, SecondPipe(s) PROVE DescriptorsAccounted'
  <2>1. Owned(s) = {0, 1} /\ Owned(s)' = 0..3 BY <1>3, <1>0 DEF SecondPipe, Owned
  <2>2. Owned(s)' = Owned(s) \cup {2, 2 + 1} BY <2>1
  <2>3. 2 \notin Owned(s) /\ 2 + 1 \notin Owned(s) BY <2>1
  <2> QED BY <2>2, <2>3, <1>3, <1>b, OpenEnds DEF SecondPipe
<1>4. ASSUME NEW s \in Session, SecondPipeFails(s) PROVE DescriptorsAccounted'
  <2>1. Owned(s) = {0, 1} /\ Owned(s)' = {} BY <1>4, <1>0 DEF SecondPipeFails, Owned
  <2>2. table'[Program] = Close(Close(table[Program], pipes[s][0]), pipes[s][1])
    BY <1>4, <1>0 DEF SecondPipeFails
  <2>3. 0 \in Owned(s) /\ 1 \in Owned(s) /\ Owned(s)' = (Owned(s) \ {0}) \ {1} BY <2>1
  <2>4. pipes' = pipes /\ ~aborted /\ \A r \in Session \ {s} : Owned(r)' = Owned(r)
    BY <1>4, <1>b DEF SecondPipeFails
  <2> QED BY <2>2, <2>3, <2>4, CloseTwo
<1>5. ASSUME NEW s \in Session, Fork(s) PROVE DescriptorsAccounted'
  <2>1. Owned(s)' = Owned(s) BY <1>5, <1>0 DEF Fork, Owned
  <2>2. table'[Program] = table[Program] BY <1>5, <1>0 DEF Fork
  <2> QED BY <2>1, <2>2, <1>5, <1>b, Quiet DEF Fork
<1>6. ASSUME NEW s \in Session, ForkFails(s) PROVE DescriptorsAccounted'
  <2>1. Owned(s)' = Owned(s) BY <1>6, <1>0 DEF ForkFails, Owned
  <2> QED BY <2>1, <1>6, <1>b, Quiet DEF ForkFails
<1>7. ASSUME NEW s \in Session, ParentReturns(s) PROVE DescriptorsAccounted'
  <2>1. Owned(s) = 0..3 /\ Owned(s)' = {0, 3} BY <1>7, <1>0 DEF ParentReturns, Owned
  <2>2. table'[Program] = Close(Close(table[Program], pipes[s][1]), pipes[s][2])
    BY <1>7, <1>0 DEF ParentReturns
  <2>3. 1 \in Owned(s) /\ 2 \in Owned(s) /\ Owned(s)' = (Owned(s) \ {1}) \ {2} BY <2>1
  <2>4. pipes' = pipes /\ ~aborted /\ \A r \in Session \ {s} : Owned(r)' = Owned(r)
    <3>1. pc' = [pc EXCEPT ![s] = "writing"] /\ output' \ {s} = output \ {s}
      BY <1>7 DEF ParentReturns
    <3> QED BY <3>1, <1>7, <1>b DEF ParentReturns
  <2> QED BY <2>2, <2>3, <2>4, CloseTwo
<1>8. ASSUME NEW s \in Session, CloseInput(s) PROVE DescriptorsAccounted'
  <2>1. Owned(s) = {0, 3} /\ Owned(s)' = {0}
    BY <1>8, <1>0 DEF CloseInput, Owned, OutputOpen
  <2>2. table'[Program] = Close(table[Program], pipes[s][3]) BY <1>8, <1>0 DEF CloseInput
  <2>3. 3 \in Owned(s) /\ Owned(s)' = Owned(s) \ {3} BY <2>1
  <2>4. pipes' = pipes /\ ~aborted /\ \A r \in Session \ {s} : Owned(r)' = Owned(r)
    BY <1>8, <1>b DEF CloseInput
  <2> QED BY <2>2, <2>3, <2>4, CloseEnd
<1>9. ASSUME NEW s \in Session, Write(s) \/ Read(s) \/ ReadEnd(s) PROVE DescriptorsAccounted'
  <2>1. Owned(s)' = Owned(s) BY <1>9, <1>0 DEF Write, Read, ReadEnd, Owned
  <2>2. pc' = [pc EXCEPT ![s] = pc'[s]] /\ output' = output
    BY <1>9, <1>0 DEF Write, Read, ReadEnd
  <2> QED BY <2>1, <2>2, <1>9, <1>b, Quiet DEF Write, Read, ReadEnd
<1>10. ASSUME NEW s \in Session, CloseOutput(s) \/ CloseEarly(s) PROVE DescriptorsAccounted'
  <2>1. Owned(s) = {0} /\ Owned(s)' = {} /\ ~aborted
    BY <1>10, <1>0 DEF CloseOutput, CloseEarly, CloseStream, Owned
  <2>2. table'[Program] = Close(table[Program], pipes[s][0]) BY <1>10, <1>0 DEF CloseOutput, CloseEarly, CloseStream
  <2>3. pc' = [pc EXCEPT ![s] = pc'[s]] /\ output' \ {s} = output \ {s} /\ pipes' = pipes
    BY <1>10, <1>0 DEF CloseOutput, CloseEarly, CloseStream
  <2> QED BY <2>1, <2>2, <2>3, <1>b, CloseEnd
<1>11. ASSUME NEW s \in Session, Wait(s) PROVE DescriptorsAccounted'
  <2>1. Owned(s)' = Owned(s) BY <1>11, <1>0 DEF Wait, Owned
  <2>2. CASE aborted' BY <2>2 DEF DescriptorsAccounted
  <2>3. CASE ~aborted' BY <2>1, <2>3, <1>11, <1>b, Quiet DEF Wait
  <2> QED BY <2>2, <2>3
<1>12. ASSUME NEW s \in Session, Child(s) PROVE DescriptorsAccounted'
  <2>1. /\ table'[Program] = table[Program] /\ pipes' = pipes /\ aborted' = aborted
        /\ pc' = pc /\ output' = output
    BY <1>12, <1>0 DEF Child, Exec, ChildReads, ChildEnds, ChildWrites, ChildDies, Ends
  <2>2. \A r \in Session : Owned(r)' = Owned(r) BY <2>1 DEF Owned
  <2> QED BY <2>1, <2>2, Quiet
<1>13. CASE UNCHANGED vars
  <2>1. \A r \in Session : Owned(r)' = Owned(r) BY <1>13 DEF Owned, vars
  <2> QED BY <2>1, <1>13, Quiet DEF vars
<1> QED
  BY <1>1, <1>2, <1>3, <1>4, <1>5, <1>6, <1>7, <1>8, <1>9, <1>10, <1>11, <1>12, <1>13
  DEF Next, Chooses, Thread

\* Before the first call no thread owns an end and none is open.
LEMMA AccountStart == Init => DescriptorsAccounted /\ OutputOpen
<1> SUFFICES ASSUME Init PROVE DescriptorsAccounted /\ OutputOpen
  OBVIOUS
<1>1. ASSUME NEW s \in Session, NEW i \in 0..3 PROVE At(Program, <<s, i>>) = {}
  <2>1. <<s, i>> \in End /\ <<s, i>> # File /\ <<s, i>> # None BY PopenAssumption DEF End
  <2>2. \A d \in Fd : table[Program][d] \in {File, None} BY DEF Init, Process
  <2> QED BY <2>1, <2>2 DEF At
<1>2. \A s \in Session : Owned(s) = {} /\ pc[s] # "writing" BY DEF Init, Owned
<1> QED BY <1>1, <1>2 DEF DescriptorsAccounted, OutputOpen

\* However the calls of any number of threads interleave and whichever of them
\* fail, the program has open the ends its threads own, each once and at the
\* number its thread remembers, and no others (idris2_popen2,
\* idris2_closeFile, idris2_popen2WaitByPid).
THEOREM Accounted == Spec => []Inv
<1>1. Init => TypeOK /\ OutputOpen /\ DescriptorsAccounted BY TypeStart, AccountStart
<1>2. TypeOK /\ OutputOpen /\ DescriptorsAccounted /\ [Next]_vars
      => TypeOK' /\ OutputOpen' /\ DescriptorsAccounted'
  BY TypeStep, OutputStep, AccountStep
<1>3. TypeOK /\ DescriptorsAccounted => Inv BY DEF Inv
<1> QED BY <1>1, <1>2, <1>3, PTL DEF Spec

\* A child before and after it runs its program.
HasFour(s, c, t, p) ==
  c = "forked" => /\ t[0] = File /\ t[1] = File
                  /\ \A i \in 0..3 : {d \in Fd : t[d] = <<s, i>>} = {p[i]}
HasTwo(s, c, t) ==
  c = "running" =>
    /\ {d \in Fd : t[d] = <<s, 2>>} = {0} /\ {d \in Fd : t[d] = <<s, 1>>} = {1}
    /\ {d \in Fd : t[d] = <<s, 0>>} = {} /\ {d \in Fd : t[d] = <<s, 3>>} = {}

\* The child's side of popen2: a table with all four ends of the session, and with
\* files at 0 and 1, becomes one with the right end at 0 and at 1 and no others.
LEMMA ExecWires ==
  ASSUME NEW s \in Session, NEW t \in [Fd -> Value], NEW p \in [0..3 -> Fd],
         HasFour(s, "forked", t, p)
  PROVE HasTwo(s, "running", ChildTable(t, p))
<1> DEFINE u == ChildTable(t, p)
<1>0. /\ t[0] = File /\ t[1] = File
      /\ \A i \in 0..3 : {d \in Fd : t[d] = <<s, i>>} = {p[i]}
  BY DEF HasFour
<1>1. 0 \in Fd /\ 1 \in Fd BY PopenAssumption DEF Fd
<1>2. \A i \in 0..3 : p[i] \in Fd /\ t[p[i]] = <<s, i>>
  <2>1. ASSUME NEW i \in 0..3 PROVE p[i] \in Fd /\ t[p[i]] = <<s, i>>
    <3>1. p[i] \in {d \in Fd : t[d] = <<s, i>>} BY <1>0
    <3> QED BY <3>1
  <2> QED BY <2>1
<1>3. \A i \in 0..3 : <<s, i>> # File /\ <<s, i>> # None BY PopenAssumption DEF End
<1> DEFINE p0 == p[0]
           p1 == p[1]
           p2 == p[2]
           p3 == p[3]
<1>z. \A i \in 0..3 : p[i] # 0 /\ p[i] # 1 BY <1>0, <1>2, <1>3
<1>y. 0 \in 0..3 /\ 1 \in 0..3 /\ 2 \in 0..3 /\ 3 \in 0..3 OBVIOUS
<1>4. /\ p0 \in Fd \ {0, 1} /\ p1 \in Fd \ {0, 1} /\ p2 \in Fd \ {0, 1} /\ p3 \in Fd \ {0, 1}
      /\ t[p0] = <<s, 0>> /\ t[p1] = <<s, 1>> /\ t[p2] = <<s, 2>> /\ t[p3] = <<s, 3>>
  BY <1>2, <1>z, <1>y
<1>5. p0 # p1 /\ p0 # p2 /\ p0 # p3 /\ p1 # p2 /\ p1 # p3 /\ p2 # p3 BY <1>4
<1>6. \A d \in Fd : /\ t[d] = <<s, 0>> => d = p0
                    /\ t[d] = <<s, 1>> => d = p1
                    /\ t[d] = <<s, 2>> => d = p2
                    /\ t[d] = <<s, 3>> => d = p3
  <2>1. ASSUME NEW i \in 0..3, NEW d \in Fd, t[d] = <<s, i>> PROVE d = p[i]
    <3>1. d \in {x \in Fd : t[x] = <<s, i>>} BY <2>1
    <3> QED BY <3>1, <1>0
  <2> QED BY <2>1
<1> DEFINE t1 == [t EXCEPT ![1] = None]
           t2 == [t1 EXCEPT ![1] = t1[p1]]
           t3 == [t2 EXCEPT ![p0] = None]
           t4 == [t3 EXCEPT ![p1] = None]
           t5 == [t4 EXCEPT ![0] = None]
           t6 == [t5 EXCEPT ![0] = t5[p2]]
           t7 == [t6 EXCEPT ![p2] = None]
           t8 == [t7 EXCEPT ![p3] = None]
<1>7. u = t8 BY DEF ChildTable, Close, Dup2
<1> HIDE DEF p0, p1, p2, p3
<1>8. t4 = [d \in Fd |-> IF d = 1 THEN <<s, 1>> ELSE IF d \in {p0, p1} THEN None ELSE t[d]]
  BY <1>1, <1>4, <1>5
<1> HIDE DEF t4
<1>9. t8 = [d \in Fd |-> IF d = 0 THEN <<s, 2>> ELSE IF d \in {p2, p3} THEN None ELSE t4[d]]
  BY <1>1, <1>4, <1>5, <1>8
<1> HIDE DEF t8, u
<1>10. \A d \in Fd : u[d] = IF d = 0 THEN <<s, 2>> ELSE IF d = 1 THEN <<s, 1>>
                            ELSE IF d \in {p0, p1, p2, p3} THEN None ELSE t[d]
  BY <1>1, <1>4, <1>7, <1>8, <1>9
<1>11. \A d \in Fd : /\ u[d] = <<s, 2>> <=> d = 0
                     /\ u[d] = <<s, 1>> <=> d = 1
                     /\ u[d] # <<s, 0>> /\ u[d] # <<s, 3>>
  BY <1>3, <1>6, <1>10
<1> QED BY <1>1, <1>11 DEF HasTwo, u

\* What ChildWired needs: that the program keeps its standard input and output
\* open, that a child which has yet to run its program has inherited all four of
\* its ends, and that pipes are opened only before there is a child.
StdKept == ~aborted => table[Program][0] = File /\ table[Program][1] = File
Inherited == \A s \in Session : HasFour(s, child[s], table[s], pipes[s])
NotForked == \A s \in Session : pc[s] \in {"idle", "onePipe", "twoPipes"} => child[s] = "none"

WiredInv == StdKept /\ Inherited /\ NotForked /\ ChildWired

\* What a thread owns is neither standard input nor standard output.
LEMMA OwnedIsPipe ==
  ASSUME TypeOK, DescriptorsAccounted, StdKept, ~aborted,
         NEW s \in Session, NEW i \in Owned(s)
  PROVE pipes[s][i] \notin {0, 1} /\ pipes[s][i] \in Fd /\ i \in 0..3
<1>1. i \in 0..3 BY DEF Owned
<1>2. At(Program, <<s, i>>) = {pipes[s][i]} BY <1>1 DEF DescriptorsAccounted
<1>3. pipes[s][i] \in Fd /\ table[Program][pipes[s][i]] = <<s, i>> BY <1>2 DEF At
<1>4. <<s, i>> # File BY <1>1, PopenAssumption DEF End
<1> QED BY <1>1, <1>3, <1>4 DEF StdKept

\* No step of a thread closes the standard input or output of the program.
LEMMA StdStep ==
  TypeOK /\ OutputOpen /\ DescriptorsAccounted /\ StdKept /\ [Next]_vars => StdKept'
<1> SUFFICES ASSUME TypeOK, OutputOpen, DescriptorsAccounted, StdKept, [Next]_vars
             PROVE StdKept'
  OBVIOUS
<1>0. /\ 0 \in Fd /\ 1 \in Fd /\ table \in [Process -> [Fd -> Value]]
      /\ Program \in Process /\ Session \subseteq Process /\ Program \notin Session
      /\ pipes \in [Session -> [0..3 -> Fd]]
      /\ pc \in [Session -> {"idle", "onePipe", "twoPipes", "forked", "failed", "leaked",
                         "writing", "reading", "read", "done"}]
      /\ File # None
  BY PopenAssumption DEF TypeOK, Process, Value, Fd
<1> USE DEF Goto, thread
<1>1. ASSUME NEW s \in Session, NEW i \in {0, 2}, OpenPipe(s, i), aborted' = aborted
      PROVE StdKept'
  BY <1>1, <1>0 DEF OpenPipe, Free, StdKept
<1>2. ASSUME NEW s \in Session, SecondPipeFails(s) PROVE StdKept'
  <2>1. 0 \in Owned(s) /\ 1 \in Owned(s) /\ ~aborted BY <1>2 DEF SecondPipeFails, Owned
  <2>2. pipes[s][0] \notin {0, 1} /\ pipes[s][1] \notin {0, 1} BY <2>1, OwnedIsPipe
  <2> QED BY <1>2, <2>1, <2>2, <1>0 DEF SecondPipeFails, Close, StdKept
<1>3. ASSUME NEW s \in Session, ParentReturns(s) PROVE StdKept'
  <2>1. 1 \in Owned(s) /\ 2 \in Owned(s) /\ ~aborted BY <1>3 DEF ParentReturns, Owned
  <2>2. pipes[s][1] \notin {0, 1} /\ pipes[s][2] \notin {0, 1} BY <2>1, OwnedIsPipe
  <2> QED BY <1>3, <2>1, <2>2, <1>0 DEF ParentReturns, Close, StdKept
<1>4. ASSUME NEW s \in Session, CloseInput(s) PROVE StdKept'
  <2>1. 3 \in Owned(s) /\ ~aborted BY <1>4 DEF CloseInput, Owned
  <2>2. pipes[s][3] \notin {0, 1} BY <2>1, OwnedIsPipe
  <2> QED BY <1>4, <2>1, <2>2, <1>0 DEF CloseInput, Close, StdKept
<1>5. ASSUME NEW s \in Session, CloseOutput(s) \/ CloseEarly(s) PROVE StdKept'
  <2>1. 0 \in Owned(s) /\ ~aborted BY <1>5 DEF CloseOutput, CloseEarly, CloseStream, Owned
  <2>2. pipes[s][0] \notin {0, 1} BY <2>1, OwnedIsPipe
  <2> QED BY <1>5, <2>1, <2>2, <1>0 DEF CloseOutput, CloseEarly, CloseStream, Close, StdKept
<1>6. ASSUME NEW s \in Session, Wait(s) PROVE StdKept'
  BY <1>6 DEF Wait, StdKept
<1>7. ASSUME NEW s \in Session,
             FirstPipeFails(s) \/ Fork(s) \/ ForkFails(s) \/ Write(s) \/ Read(s) \/ ReadEnd(s)
      PROVE StdKept'
  BY <1>7, <1>0 DEF FirstPipeFails, Fork, ForkFails, Write, Read, ReadEnd, StdKept
<1>8. ASSUME NEW s \in Session, Child(s) PROVE StdKept'
  BY <1>8, <1>0 DEF Child, Exec, ChildReads, ChildEnds, ChildWrites, ChildDies, Ends, StdKept
<1>9. CASE UNCHANGED vars BY <1>9 DEF vars, StdKept
<1>10. ASSUME NEW s \in Session, FirstPipe(s) \/ SecondPipe(s) PROVE StdKept'
  BY <1>1, <1>10 DEF FirstPipe, SecondPipe
<1> QED
  BY <1>2, <1>3, <1>4, <1>5, <1>6, <1>7, <1>8, <1>9, <1>10 DEF Next, Chooses, Thread

\* A thread that is still opening pipes has no child.
LEMMA NotForkedStep == TypeOK /\ NotForked /\ [Next]_vars => NotForked'
<1> SUFFICES ASSUME TypeOK, NotForked, [Next]_vars PROVE NotForked'
  OBVIOUS
<1> USE DEF TypeOK, NotForked, Goto, thread
<1>1. ASSUME NEW s \in Session,
             FirstPipe(s) \/ FirstPipeFails(s) \/ SecondPipe(s) \/ SecondPipeFails(s)
             \/ Fork(s) \/ ForkFails(s) \/ ParentReturns(s)
      PROVE NotForked'
  BY <1>1 DEF FirstPipe, FirstPipeFails, SecondPipe, SecondPipeFails, Fork, ForkFails,
              ParentReturns
<1>2. ASSUME NEW s \in Session,
             Write(s) \/ CloseInput(s) \/ Read(s) \/ ReadEnd(s) \/ CloseOutput(s) \/ CloseEarly(s) \/ Wait(s)
      PROVE NotForked'
  BY <1>2 DEF Write, CloseInput, Read, ReadEnd, CloseOutput, CloseEarly, CloseStream, Wait
<1>3. ASSUME NEW s \in Session, Child(s) PROVE NotForked'
  BY <1>3 DEF Child, Exec, ChildReads, ChildEnds, ChildWrites, ChildDies, Ends
<1>4. CASE UNCHANGED vars BY <1>4 DEF vars
<1> QED BY <1>1, <1>2, <1>3, <1>4 DEF Next, Chooses, Thread

\* ChildWired, said of each child's own table.
LEMMA WiredOneByOne ==
  /\ ChildWired <=> \A s \in Session : HasTwo(s, child[s], table[s])
  /\ ChildWired' <=> \A s \in Session : HasTwo(s, child'[s], table'[s])
BY DEF ChildWired, HasTwo, At

\* A step that leaves the children and their tables alone.
LEMMA ChildrenQuiet ==
  ASSUME TypeOK, Inherited, ChildWired, child' = child,
         \A s \in Session : table'[s] = table[s],
         \A s \in Session : child[s] = "forked" => pipes'[s] = pipes[s]
  PROVE Inherited' /\ ChildWired'
<1>1. ASSUME NEW s \in Session PROVE HasFour(s, child'[s], table'[s], pipes'[s])
  <2>1. CASE child[s] = "forked" BY <2>1 DEF Inherited
  <2>2. CASE child[s] # "forked" BY <2>2 DEF HasFour
  <2> QED BY <2>1, <2>2
<1> QED BY <1>1, WiredOneByOne DEF Inherited

\* Each step keeps what the children have inherited and how they are wired: fork
\* hands on the program's table, and the closes and dup2s of Exec do the rest.
LEMMA WiredStep ==
  TypeOK /\ DescriptorsAccounted /\ WiredInv /\ [Next]_vars => Inherited' /\ ChildWired'
<1> SUFFICES ASSUME TypeOK, DescriptorsAccounted, WiredInv, [Next]_vars
             PROVE Inherited' /\ ChildWired'
  OBVIOUS
<1>0. /\ Inherited /\ ChildWired /\ StdKept /\ NotForked
      /\ table \in [Process -> [Fd -> Value]]
      /\ Program \in Process /\ Session \subseteq Process /\ Program \notin Session
      /\ pipes \in [Session -> [0..3 -> Fd]]
      /\ child \in [Session -> {"none", "forked", "running", "exited", "killed", "reaped"}]
  BY PopenAssumption DEF TypeOK, Process, Value, WiredInv
<1>a. ASSUME NEW s \in Session, NEW i \in {0, 2}, OpenPipe(s, i), child' = child,
             child[s] = "none"
      PROVE Inherited' /\ ChildWired'
  <2>1. \A r \in Session : table'[r] = table[r] BY <1>a, <1>0 DEF OpenPipe
  <2>2. \A r \in Session : child[r] = "forked" => pipes'[r] = pipes[r]
    BY <1>a, <1>0 DEF OpenPipe
  <2> QED BY <1>a, <2>1, <2>2, <1>0, ChildrenQuiet
<1> USE DEF Goto, thread
<1>1. ASSUME NEW s \in Session, FirstPipe(s) \/ SecondPipe(s) PROVE Inherited' /\ ChildWired'
  BY <1>1, <1>a, <1>0 DEF FirstPipe, SecondPipe, NotForked
<1>2. ASSUME NEW s \in Session,
             FirstPipeFails(s) \/ SecondPipeFails(s) \/ ForkFails(s) \/ ParentReturns(s)
             \/ Write(s) \/ CloseInput(s) \/ Read(s) \/ ReadEnd(s) \/ CloseOutput(s) \/ CloseEarly(s)
      PROVE Inherited' /\ ChildWired'
  <2>1. child' = child /\ pipes' = pipes /\ \A r \in Session : table'[r] = table[r]
    BY <1>2, <1>0 DEF FirstPipeFails, SecondPipeFails, ForkFails, ParentReturns,
                      Write, CloseInput, Read, ReadEnd, CloseOutput, CloseEarly, CloseStream
  <2> QED BY <2>1, <1>0, ChildrenQuiet
<1>b. ASSUME NEW s \in Session, pipes' = pipes,
             child'[s] \notin {"forked", "running"},
             \A r \in Session \ {s} : child'[r] = child[r] /\ table'[r] = table[r]
      PROVE Inherited' /\ ChildWired'
  <2>1. \A r \in Session :
          HasFour(r, child'[r], table'[r], pipes'[r]) /\ HasTwo(r, child'[r], table'[r])
    <3>1. HasFour(s, child'[s], table'[s], pipes'[s]) /\ HasTwo(s, child'[s], table'[s])
      BY <1>b DEF HasFour, HasTwo
    <3> QED BY <3>1, <1>b, <1>0, WiredOneByOne DEF Inherited
  <2> QED BY <2>1, WiredOneByOne DEF Inherited
<1>3. ASSUME NEW s \in Session, Wait(s) PROVE Inherited' /\ ChildWired'
  <2>1. /\ pipes' = pipes /\ child'[s] \notin {"forked", "running"}
        /\ \A r \in Session \ {s} : child'[r] = child[r] /\ table'[r] = table[r]
    BY <1>3, <1>0 DEF Wait
  <2> QED BY <2>1, <1>b
<1>4. ASSUME NEW s \in Session, ChildEnds(s) \/ ChildDies(s) PROVE Inherited' /\ ChildWired'
  <2>1. /\ pipes' = pipes /\ child'[s] \notin {"forked", "running"}
        /\ \A r \in Session \ {s} : child'[r] = child[r] /\ table'[r] = table[r]
    BY <1>4, <1>0 DEF ChildEnds, ChildDies, Ends
  <2> QED BY <2>1, <1>b
<1>5. ASSUME NEW s \in Session, ChildReads(s) \/ ChildWrites(s) PROVE Inherited' /\ ChildWired'
  <2>1. child' = child /\ pipes' = pipes /\ table' = table
    BY <1>5 DEF ChildReads, ChildWrites
  <2> QED BY <2>1, <1>0, ChildrenQuiet
<1>6. ASSUME NEW s \in Session, Fork(s) PROVE Inherited' /\ ChildWired'
  <2>1. /\ pipes' = pipes /\ table'[s] = table[Program] /\ child'[s] = "forked"
        /\ \A r \in Session \ {s} : child'[r] = child[r] /\ table'[r] = table[r]
        /\ ~aborted /\ Owned(s) = 0..3
    BY <1>6, <1>0 DEF Fork, Owned
  <2>2. table[Program][0] = File /\ table[Program][1] = File BY <2>1, <1>0 DEF StdKept
  <2>3. \A i \in 0..3 : {d \in Fd : table[Program][d] = <<s, i>>} = {pipes[s][i]}
    BY <2>1 DEF DescriptorsAccounted, At
  <2>4. HasFour(s, "forked", table[Program], pipes[s]) BY <2>2, <2>3 DEF HasFour
  <2>5. HasTwo(s, "forked", table[Program]) BY DEF HasTwo
  <2> QED BY <2>1, <2>4, <2>5, <1>0, WiredOneByOne DEF Inherited
<1>7. ASSUME NEW s \in Session, Exec(s) PROVE Inherited' /\ ChildWired'
  <2>1. /\ pipes' = pipes /\ table'[s] = ChildTable(table[s], pipes[s])
        /\ child'[s] = "running" /\ child[s] = "forked"
        /\ \A r \in Session \ {s} : child'[r] = child[r] /\ table'[r] = table[r]
    BY <1>7, <1>0 DEF Exec
  <2>2. HasFour(s, "forked", table[s], pipes[s]) BY <2>1, <1>0 DEF Inherited
  <2>3. table[s] \in [Fd -> Value] /\ pipes[s] \in [0..3 -> Fd] BY <1>0
  <2>4. HasTwo(s, "running", ChildTable(table[s], pipes[s])) BY <2>2, <2>3, ExecWires
  <2>5. HasFour(s, "running", table'[s], pipes[s]) BY DEF HasFour
  <2>6. HasTwo(s, "running", table'[s]) BY <2>1, <2>4
  <2> QED BY <2>1, <2>5, <2>6, <1>0, WiredOneByOne DEF Inherited
<1>8. CASE UNCHANGED vars BY <1>8, <1>0, ChildrenQuiet DEF vars
<1> QED BY <1>1, <1>2, <1>3, <1>4, <1>5, <1>6, <1>7, <1>8 DEF Next, Chooses, Thread, Child

\* Before the first call there are no children, and the standard files are open.
LEMMA WiredStart == Init /\ {0, 1} \subseteq Std => WiredInv
<1> SUFFICES ASSUME Init, {0, 1} \subseteq Std PROVE WiredInv
  OBVIOUS
<1>1. 0 \in Fd /\ 1 \in Fd /\ Program \in Process BY PopenAssumption DEF Fd, Process
<1>2. StdKept BY <1>1 DEF Init, StdKept
<1>3. \A s \in Session : child[s] = "none" BY DEF Init
<1> QED BY <1>2, <1>3 DEF WiredInv, Inherited, HasFour, NotForked, ChildWired

\* If the program keeps its standard input and output open, the child of every
\* call of popen2 reads and writes its own two pipes and has no other end of
\* them, so that it can see the end of its input (the child's side of
\* idris2_popen2).
THEOREM Wired == {0, 1} \subseteq Std => (Spec => []ChildWired)
<1> SUFFICES ASSUME {0, 1} \subseteq Std PROVE Spec => []ChildWired
  OBVIOUS
<1> DEFINE All == TypeOK /\ OutputOpen /\ DescriptorsAccounted /\ WiredInv
<1>1. Init => All BY TypeStart, AccountStart, WiredStart
<1>2. All /\ [Next]_vars => All'
  BY TypeStep, OutputStep, AccountStep, StdStep, NotForkedStep, WiredStep DEF WiredInv
<1>3. All => ChildWired BY DEF WiredInv
<1> QED BY <1>1, <1>2, <1>3, PTL DEF Spec

(***************************************************************************)
(* Lines                                                                   *)
(***************************************************************************)
\* The lines on their way to a child, in it and back.
InFlight(s) == line[<<s, "in">>] + line[<<s, "out">>] + (IF s \in hand THEN 1 ELSE 0)
Ended(s) == child[s] \in {"exited", "reaped"}
Started(s) == pc[s] \in {"forked", "writing", "reading", "read", "done"}

\* What the stage of a thread says of its child and of its output stream.
Stages ==
  \A s \in Session :
    /\ Started(s) <=> child[s] # "none"
    /\ pc[s] \in {"writing", "reading"} => s \in output
    /\ s \in hand => child[s] = "running"
    /\ s \in early => pc[s] \in {"read", "done"}

\* Who has read to the end has a child that has ended.
Drained == \A s \in Session \ early : pc[s] \in {"read", "done"} => Ended(s)

\* Until the program is stopped no line is lost, and a child that has ended has
\* left none unread.
Conserved ==
  ~aborted => \A s \in Session \ early :
    /\ sent[s] = got[s] + InFlight(s)
    /\ Ended(s) => line[<<s, "in">>] = 0 /\ pc[s] \in {"reading", "read", "done"}

FlowInv == Stages /\ Drained /\ Conserved /\ KilledOnlyIfEarly /\ AnswerComplete

\* Each step takes a thread and its child to the next stage.
LEMMA StagesStep == TypeOK /\ Stages /\ [Next]_vars => Stages'
<1> SUFFICES ASSUME TypeOK, Stages, [Next]_vars PROVE Stages'
  OBVIOUS
<1> USE DEF TypeOK, Stages, Started, Goto, thread
<1>1. ASSUME NEW s \in Session,
             FirstPipe(s) \/ FirstPipeFails(s) \/ SecondPipe(s) \/ SecondPipeFails(s)
             \/ Fork(s) \/ ForkFails(s) \/ ParentReturns(s)
      PROVE Stages'
  BY <1>1 DEF FirstPipe, FirstPipeFails, SecondPipe, SecondPipeFails, Fork, ForkFails,
              ParentReturns
<1>2. ASSUME NEW s \in Session,
             Write(s) \/ CloseInput(s) \/ Read(s) \/ ReadEnd(s)
      PROVE Stages'
  BY <1>2 DEF Write, CloseInput, Read, ReadEnd
<1>3. ASSUME NEW s \in Session, CloseOutput(s) \/ CloseEarly(s) \/ Wait(s) PROVE Stages'
  BY <1>3 DEF CloseOutput, CloseEarly, CloseStream, Wait
<1>4. ASSUME NEW s \in Session, Child(s) PROVE Stages'
  BY <1>4 DEF Child, Exec, ChildReads, ChildEnds, ChildWrites, ChildDies, Ends
<1>5. CASE UNCHANGED vars BY <1>5 DEF vars
<1> QED BY <1>1, <1>2, <1>3, <1>4, <1>5 DEF Next, Chooses, Thread

\* What a thread owns is open in the program, at the number it remembers.
LEMMA OwnedIsOpen ==
  ASSUME DescriptorsAccounted, ~aborted, NEW s \in Session, NEW i \in Owned(s)
  PROVE table[Program][pipes[s][i]] = <<s, i>> /\ Open(<<s, i>>)
<1>1. i \in 0..3 BY DEF Owned
<1>2. pipes[s][i] \in At(Program, <<s, i>>) BY <1>1 DEF DescriptorsAccounted
<1> QED BY <1>2 DEF At, Open, Process

\* A child that runs has its own two pipes at 0 and 1.
LEMMA RunningIsWired ==
  ASSUME ChildWired, NEW s \in Session, child[s] = "running"
  PROVE table[s][0] = <<s, 2>> /\ table[s][1] = <<s, 1>>
<1>1. 0 \in At(s, <<s, 2>>) /\ 1 \in At(s, <<s, 1>>) BY DEF ChildWired
<1> QED BY <1>1 DEF At

\* The end of the output of a child is seen only when the child has ended.
LEMMA DrainedStep ==
  TypeOK /\ DescriptorsAccounted /\ WiredInv /\ FlowInv /\ [Next]_vars => Drained'
<1> SUFFICES ASSUME TypeOK, DescriptorsAccounted, WiredInv, FlowInv, [Next]_vars
             PROVE Drained'
  OBVIOUS
<1>0. /\ Stages /\ Drained /\ KilledOnlyIfEarly /\ Inherited /\ ChildWired
      /\ pc \in [Session -> {"idle", "onePipe", "twoPipes", "forked", "failed", "leaked",
                         "writing", "reading", "read", "done"}]
      /\ child \in [Session -> {"none", "forked", "running", "exited", "killed", "reaped"}]
  BY DEF FlowInv, WiredInv, TypeOK
<1> USE DEF Drained, Ended, Goto, thread
<1>1. ASSUME NEW s \in Session, ReadEnd(s) PROVE Drained'
  <2>1. CASE s \in early BY <1>0, <1>1, <2>1 DEF ReadEnd
  <2>2. CASE s \notin early
    <3>1. pc[s] = "reading" /\ ~aborted /\ s \in output /\ child[s] # "none"
      BY <1>1, <1>0 DEF ReadEnd, Stages, Started
    <3>2. 0 \in Owned(s) BY <3>1 DEF Owned
    <3>3. table[Program][pipes[s][0]] = <<s, 0>> BY <3>1, <3>2, OwnedIsOpen
    <3>4. ~Open(<<s, 1>>) BY <1>1, <3>3 DEF ReadEnd
    <3>5. child[s] # "forked"
      <4> SUFFICES ASSUME child[s] = "forked" PROVE FALSE
        OBVIOUS
      <4>1. pipes[s][1] \in {d \in Fd : table[s][d] = <<s, 1>>} BY <1>0 DEF Inherited, HasFour
      <4> QED BY <4>1, <3>4 DEF Open, Process
    <3>6. child[s] # "running"
      <4> SUFFICES ASSUME child[s] = "running" PROVE FALSE
        OBVIOUS
      <4>1. 1 \in At(s, <<s, 1>>) BY <1>0 DEF ChildWired
      <4> QED BY <4>1, <3>4 DEF At, Open, Process
    <3>7. child[s] # "killed" BY <1>0, <2>2, <3>1 DEF KilledOnlyIfEarly
    <3>8. Ended(s) BY <1>0, <3>1, <3>5, <3>6, <3>7
    <3> QED BY <1>0, <1>1, <3>8 DEF ReadEnd
  <2> QED BY <2>1, <2>2
<1>2. ASSUME NEW s \in Session,
             FirstPipe(s) \/ FirstPipeFails(s) \/ SecondPipe(s) \/ SecondPipeFails(s)
             \/ Fork(s) \/ ForkFails(s) \/ ParentReturns(s)
      PROVE Drained'
  BY <1>0, <1>2 DEF FirstPipe, FirstPipeFails, SecondPipe, SecondPipeFails, Fork, ForkFails,
              ParentReturns
<1>3. ASSUME NEW s \in Session, Write(s) \/ CloseInput(s) \/ Read(s) \/ CloseOutput(s) \/ CloseEarly(s)
      PROVE Drained'
  BY <1>0, <1>3 DEF Write, CloseInput, Read, CloseOutput, CloseEarly, CloseStream
<1>4. ASSUME NEW s \in Session, Wait(s) PROVE Drained'
  BY <1>0, <1>4 DEF Wait
<1>5. ASSUME NEW s \in Session, Child(s) PROVE Drained'
  BY <1>0, <1>5 DEF Child, Exec, ChildReads, ChildEnds, ChildWrites, ChildDies, Ends
<1>6. CASE UNCHANGED vars BY <1>0, <1>6 DEF vars
<1> QED BY <1>1, <1>2, <1>3, <1>4, <1>5, <1>6 DEF Next, Chooses, Thread

\* A child is killed only if nobody can read its output any more.
LEMMA KilledStep ==
  TypeOK /\ DescriptorsAccounted /\ WiredInv /\ FlowInv /\ [Next]_vars => KilledOnlyIfEarly'
<1> SUFFICES ASSUME TypeOK, DescriptorsAccounted, WiredInv, FlowInv, [Next]_vars
             PROVE KilledOnlyIfEarly'
  OBVIOUS
<1>0. /\ Stages /\ Drained /\ KilledOnlyIfEarly /\ ChildWired
      /\ child \in [Session -> {"none", "forked", "running", "exited", "killed", "reaped"}]
      /\ early \subseteq Session
  BY DEF FlowInv, WiredInv, TypeOK
<1> USE DEF KilledOnlyIfEarly, Goto, thread
<1>1. ASSUME NEW s \in Session, ChildDies(s) PROVE KilledOnlyIfEarly'
  <2>1. s \in early \/ aborted
    <3> SUFFICES ASSUME s \notin early, ~aborted PROVE FALSE
      OBVIOUS
    <3>1. child[s] = "running" BY <1>1 DEF ChildDies, Ends
    <3>2. ~Open(<<s, 0>>) BY <1>0, <1>1, <3>1, RunningIsWired DEF ChildDies
    <3>3. pc[s] \in {"forked", "writing", "reading"}
      BY <1>0, <3>1 DEF Stages, Started, Drained, Ended
    <3>4. 0 \in Owned(s) BY <1>0, <3>3 DEF Owned, Stages
    <3> QED BY <3>2, <3>4, OwnedIsOpen
  <2> QED BY <1>0, <1>1, <2>1 DEF ChildDies, Ends
<1>2. ASSUME NEW s \in Session,
             FirstPipe(s) \/ FirstPipeFails(s) \/ SecondPipe(s) \/ SecondPipeFails(s)
             \/ Fork(s) \/ ForkFails(s) \/ ParentReturns(s)
      PROVE KilledOnlyIfEarly'
  BY <1>0, <1>2 DEF FirstPipe, FirstPipeFails, SecondPipe, SecondPipeFails, Fork, ForkFails,
              ParentReturns
<1>3. ASSUME NEW s \in Session,
             Write(s) \/ CloseInput(s) \/ Read(s) \/ ReadEnd(s) \/ CloseOutput(s) \/ CloseEarly(s)
      PROVE KilledOnlyIfEarly'
  BY <1>0, <1>3 DEF Write, CloseInput, Read, ReadEnd, CloseOutput, CloseEarly, CloseStream
<1>4. ASSUME NEW s \in Session, Wait(s) PROVE KilledOnlyIfEarly'
  BY <1>0, <1>4 DEF Wait
<1>5. ASSUME NEW s \in Session, Exec(s) \/ ChildReads(s) \/ ChildEnds(s) \/ ChildWrites(s)
      PROVE KilledOnlyIfEarly'
  BY <1>0, <1>5 DEF Exec, ChildReads, ChildEnds, ChildWrites, Ends
<1>6. CASE UNCHANGED vars BY <1>0, <1>6 DEF vars
<1> QED BY <1>1, <1>2, <1>3, <1>4, <1>5, <1>6 DEF Next, Chooses, Thread, Child

\* The pipes that the four ends of a session belong to.
LEMMA PipesOf ==
  ASSUME NEW s \in Session
  PROVE /\ PipeOf(<<s, 0>>) = <<s, "out">> /\ PipeOf(<<s, 1>>) = <<s, "out">>
        /\ PipeOf(<<s, 2>>) = <<s, "in">> /\ PipeOf(<<s, 3>>) = <<s, "in">>
BY DEF PipeOf

\* Counts of lines are numbers.
LEMMA Counts ==
  ASSUME TypeOK, NEW s \in Session
  PROVE /\ line[<<s, "in">>] \in Nat /\ line[<<s, "out">>] \in Nat
        /\ sent[s] \in Nat /\ got[s] \in Nat
<1>1. <<s, "in">> \in Pipe /\ <<s, "out">> \in Pipe BY DEF Pipe
<1>2. line \in [Pipe -> Nat] BY PopenAssumption DEF TypeOK
<1>3. sent[s] \in Nat /\ got[s] \in Nat BY PopenAssumption DEF TypeOK
<1> QED BY <1>1, <1>2, <1>3

\* A step of s that adds a line to one of its pipes or takes one leaves the other
\* pipes alone.
LEMMA OneLine ==
  ASSUME TypeOK, NEW s \in Session, NEW w \in {"in", "out"}, NEW k \in Nat,
         line' = [line EXCEPT ![<<s, w>>] = k]
  PROVE /\ line'[<<s, w>>] = k
        /\ \A r \in Session, v \in {"in", "out"} :
             <<r, v>> # <<s, w>> => line'[<<r, v>>] = line[<<r, v>>]
<1>1. line \in [Pipe -> 0..Capacity] BY DEF TypeOK
<1>2. <<s, w>> \in Pipe BY DEF Pipe
<1>3. \A r \in Session, v \in {"in", "out"} : <<r, v>> \in Pipe BY DEF Pipe
<1> QED BY <1>1, <1>2, <1>3

\* What Conserved says of one session.
Kept(s) ==
  /\ sent[s] = got[s] + InFlight(s)
  /\ Ended(s) => line[<<s, "in">>] = 0 /\ pc[s] \in {"reading", "read", "done"}

\* A step that moves no line and ends no child keeps them all.
LEMMA FlowQuiet ==
  ASSUME Conserved, UNCHANGED <<sent, got, hand, line>>,
         aborted => aborted', early \subseteq early',
         \A s \in Session : Ended(s)' => Ended(s),
         \A s \in Session : pc[s] \in {"reading", "read", "done"} =>
                            pc'[s] \in {"reading", "read", "done"}
  PROVE Conserved'
BY DEF Conserved, InFlight

\* A step of s alone keeps the lines of the others.
LEMMA FlowOne ==
  ASSUME Conserved, NEW s \in Session, aborted' = aborted, early' = early,
         \A r \in Session \ {s} :
           /\ pc'[r] = pc[r] /\ child'[r] = child[r] /\ sent'[r] = sent[r] /\ got'[r] = got[r]
           /\ r \in hand' <=> r \in hand
           /\ line'[<<r, "in">>] = line[<<r, "in">>] /\ line'[<<r, "out">>] = line[<<r, "out">>],
         ~aborted /\ s \notin early /\ Kept(s) => Kept(s)'
  PROVE Conserved'
<1> SUFFICES ASSUME ~aborted, NEW r \in Session, r \notin early PROVE Kept(r)'
  BY DEF Conserved, Kept, Ended, InFlight
<1>1. Kept(r) BY DEF Conserved, Kept, Ended
<1>2. CASE r = s BY <1>1, <1>2
<1>3. CASE r # s
  <2>1. InFlight(r)' = InFlight(r) BY <1>3 DEF InFlight
  <2> QED BY <1>1, <1>3, <2>1 DEF Kept, Ended
<1> QED BY <1>2, <1>3

\* No line is lost or made up between the program, the pipes and the filter.
LEMMA ConservedStep ==
  TypeOK /\ DescriptorsAccounted /\ WiredInv /\ FlowInv /\ [Next]_vars => Conserved'
<1> SUFFICES ASSUME TypeOK, DescriptorsAccounted, WiredInv, FlowInv, [Next]_vars
             PROVE Conserved'
  OBVIOUS
<1>0. /\ Stages /\ Drained /\ Conserved /\ KilledOnlyIfEarly /\ ChildWired
      /\ pc \in [Session -> {"idle", "onePipe", "twoPipes", "forked", "failed", "leaked",
                         "writing", "reading", "read", "done"}]
      /\ child \in [Session -> {"none", "forked", "running", "exited", "killed", "reaped"}]
      /\ sent \in [Session -> 0..Lines] /\ got \in [Session -> Nat]
  BY DEF FlowInv, WiredInv, TypeOK
<1>a. \A s \in Session : /\ line[<<s, "in">>] \in Nat /\ line[<<s, "out">>] \in Nat
                          /\ sent[s] \in Nat /\ got[s] \in Nat
  BY Counts
<1>b. \A s \in Session : "in" # "out" /\ <<s, "in">> # <<s, "out">> OBVIOUS
<1>1. ASSUME NEW s \in Session,
             FirstPipe(s) \/ FirstPipeFails(s) \/ SecondPipe(s) \/ SecondPipeFails(s)
             \/ ForkFails(s) \/ ParentReturns(s) \/ CloseInput(s) \/ ReadEnd(s)
             \/ CloseOutput(s) \/ CloseEarly(s)
      PROVE Conserved'
  <2>1. /\ UNCHANGED <<sent, got, hand, line, child, aborted>> /\ early \subseteq early'
    BY <1>1 DEF FirstPipe, FirstPipeFails, SecondPipe, SecondPipeFails, ForkFails,
                ParentReturns, CloseInput, ReadEnd, CloseOutput, CloseEarly, CloseStream, thread
  <2>2. \A r \in Session : pc[r] \in {"reading", "read", "done"} =>
                           pc'[r] \in {"reading", "read", "done"}
    BY <1>0, <1>1
    DEF FirstPipe, FirstPipeFails, SecondPipe, SecondPipeFails, ForkFails,
        ParentReturns, CloseInput, ReadEnd, CloseOutput, CloseEarly, Goto
  <2> QED BY <1>0, <2>1, <2>2, FlowQuiet DEF Ended
<1>2. ASSUME NEW s \in Session, Fork(s) \/ Exec(s) PROVE Conserved'
  <2>1. UNCHANGED <<sent, got, hand, line, early, aborted>>
    BY <1>2 DEF Fork, Exec, thread
  <2>2. \A r \in Session : Ended(r)' => Ended(r)
    BY <1>0, <1>2 DEF Fork, Exec, Ended
  <2>3. \A r \in Session : pc[r] \in {"reading", "read", "done"} =>
                           pc'[r] \in {"reading", "read", "done"}
    BY <1>0, <1>2 DEF Fork, Exec, Goto
  <2> QED BY <1>0, <2>1, <2>2, <2>3, FlowQuiet
<1>3. ASSUME NEW s \in Session, Wait(s) PROVE Conserved'
  <2>1. CASE child[s] = "killed" BY <1>3, <2>1 DEF Wait, Conserved
  <2>2. CASE child[s] # "killed"
    <3>1. UNCHANGED <<sent, got, hand, line, early>> /\ ~aborted
      BY <1>3 DEF Wait, thread, Goto
    <3>2. \A r \in Session : Ended(r)' => Ended(r)
      BY <1>0, <1>3, <2>2 DEF Wait, Ended
    <3>3. \A r \in Session : pc[r] \in {"reading", "read", "done"} =>
                             pc'[r] \in {"reading", "read", "done"}
      BY <1>0, <1>3 DEF Wait, Goto
    <3> QED BY <1>0, <3>1, <3>2, <3>3, FlowQuiet
  <2> QED BY <2>1, <2>2
<1>4. ASSUME NEW s \in Session, Write(s) PROVE Conserved'
  <2>1. pc[s] = "writing" /\ ~aborted /\ aborted' = aborted /\ early' = early /\ pc' = pc
        /\ child' = child /\ got' = got /\ hand' = hand /\ sent' = [sent EXCEPT ![s] = @ + 1]
    BY <1>4, <1>0 DEF Write, Goto
  <2>2. table[Program][pipes[s][3]] = <<s, 3>> BY <2>1, OwnedIsOpen DEF Owned
  <2>3. line' = [line EXCEPT ![<<s, "in">>] = line[<<s, "in">>] + 1]
    BY <1>4, <2>2, PipesOf DEF Write
  <2>4. line[<<s, "in">>] + 1 \in Nat
    <3>1. line[<<s, "in">>] \in Nat BY <1>a
    <3> QED BY <3>1
  <2>5. /\ line'[<<s, "in">>] = line[<<s, "in">>] + 1
        /\ \A r \in Session, v \in {"in", "out"} :
             <<r, v>> # <<s, "in">> => line'[<<r, v>>] = line[<<r, v>>]
    BY <2>3, <2>4, OneLine
  <2>6. Kept(s) => Kept(s)'
    BY <1>0, <2>1, <2>5, <1>a, <1>b DEF Kept, InFlight, Ended
  <2> QED BY <1>0, <2>1, <2>5, <2>6, FlowOne
<1>5. ASSUME NEW s \in Session, Read(s) PROVE Conserved'
  <2>1. pc[s] = "reading" /\ ~aborted /\ aborted' = aborted /\ early' = early /\ pc' = pc
        /\ child' = child /\ sent' = sent /\ hand' = hand /\ got' = [got EXCEPT ![s] = @ + 1]
    BY <1>5, <1>0 DEF Read, Goto
  <2>2. table[Program][pipes[s][0]] = <<s, 0>>
    BY <1>0, <2>1, OwnedIsOpen DEF Owned, Stages
  <2>3. line[<<s, "out">>] > 0 /\ line' = [line EXCEPT ![<<s, "out">>] = line[<<s, "out">>] - 1]
    BY <1>5, <2>2, PipesOf DEF Read
  <2>4. line[<<s, "out">>] - 1 \in Nat
    <3>1. line[<<s, "out">>] \in Nat BY <1>a
    <3> QED BY <3>1, <2>3
  <2>5. /\ line'[<<s, "out">>] = line[<<s, "out">>] - 1
        /\ \A r \in Session, v \in {"in", "out"} :
             <<r, v>> # <<s, "out">> => line'[<<r, v>>] = line[<<r, v>>]
    BY <2>3, <2>4, OneLine
  <2>6. Kept(s) => Kept(s)'
    BY <1>0, <2>1, <2>5, <1>a, <1>b DEF Kept, InFlight, Ended
  <2> QED BY <1>0, <2>1, <2>5, <2>6, FlowOne
<1>6. ASSUME NEW s \in Session, ChildReads(s) PROVE Conserved'
  <2>1. child[s] = "running" /\ s \notin hand /\ hand' = hand \cup {s}
        /\ UNCHANGED <<pc, sent, got, early, child, aborted>>
    BY <1>6 DEF ChildReads, thread
  <2>2. line[<<s, "in">>] > 0 /\ line' = [line EXCEPT ![<<s, "in">>] = line[<<s, "in">>] - 1]
    BY <1>0, <1>6, <2>1, RunningIsWired, PipesOf DEF ChildReads
  <2>3. line[<<s, "in">>] - 1 \in Nat
    <3>1. line[<<s, "in">>] \in Nat BY <1>a
    <3> QED BY <3>1, <2>2
  <2>4. /\ line'[<<s, "in">>] = line[<<s, "in">>] - 1
        /\ \A r \in Session, v \in {"in", "out"} :
             <<r, v>> # <<s, "in">> => line'[<<r, v>>] = line[<<r, v>>]
    BY <2>2, <2>3, OneLine
  <2>5. Kept(s) => Kept(s)'
    BY <2>1, <2>4, <1>a, <1>b DEF Kept, InFlight, Ended
  <2> QED BY <1>0, <2>1, <2>4, <2>5, FlowOne
<1>7. ASSUME NEW s \in Session, ChildWrites(s) PROVE Conserved'
  <2>1. child[s] = "running" /\ s \in hand /\ hand' = hand \ {s}
        /\ UNCHANGED <<pc, sent, got, early, child, aborted>>
    BY <1>7 DEF ChildWrites, thread
  <2>2. line' = [line EXCEPT ![<<s, "out">>] = line[<<s, "out">>] + 1]
    BY <1>0, <1>7, <2>1, RunningIsWired, PipesOf DEF ChildWrites
  <2>3. line[<<s, "out">>] + 1 \in Nat
    <3>1. line[<<s, "out">>] \in Nat BY <1>a
    <3> QED BY <3>1
  <2>4. /\ line'[<<s, "out">>] = line[<<s, "out">>] + 1
        /\ \A r \in Session, v \in {"in", "out"} :
             <<r, v>> # <<s, "out">> => line'[<<r, v>>] = line[<<r, v>>]
    BY <2>2, <2>3, OneLine
  <2>5. Kept(s) => Kept(s)'
    BY <2>1, <2>4, <1>a, <1>b DEF Kept, InFlight, Ended
  <2> QED BY <1>0, <2>1, <2>4, <2>5, FlowOne
<1>8. ASSUME NEW s \in Session, ChildEnds(s) PROVE Conserved'
  <2>1. child[s] = "running" /\ s \notin hand /\ hand' = hand \ {s}
        /\ child' = [child EXCEPT ![s] = "exited"]
        /\ UNCHANGED <<pc, sent, got, early, line, aborted>>
    BY <1>8 DEF ChildEnds, Ends, thread
  <2>2. line[<<s, "in">>] = 0 /\ ~Open(<<s, 3>>)
    <3>1. table[s][0] = <<s, 2>> BY <1>0, <2>1, RunningIsWired
    <3>2. <<s, 2>> \in Session \X {2} /\ <<s, 2>>[1] = s OBVIOUS
    <3>3. PipeOf(<<s, 2>>) = <<s, "in">> BY PipesOf
    <3> QED BY <1>8, <3>1, <3>2, <3>3 DEF ChildEnds
  <2>3. ~aborted => pc[s] \in {"reading", "read", "done"}
    <3> SUFFICES ASSUME ~aborted, pc[s] \in {"forked", "writing"} PROVE FALSE
      BY <1>0, <2>1 DEF Stages, Started
    <3>1. 3 \in Owned(s) BY DEF Owned
    <3> QED BY <3>1, <2>2, OwnedIsOpen
  <2>4. ~aborted /\ Kept(s) => Kept(s)'
    BY <2>1, <2>2, <2>3 DEF Kept, InFlight, Ended
  <2> QED BY <1>0, <2>1, <2>4, FlowOne
<1>9. ASSUME NEW s \in Session, ChildDies(s) PROVE Conserved'
  <2>1. child[s] = "running" /\ hand' = hand \ {s}
        /\ child' = [child EXCEPT ![s] = "killed"]
        /\ UNCHANGED <<pc, sent, got, early, line, aborted>>
    BY <1>9 DEF ChildDies, Ends, thread
  <2>2. s \in early \/ aborted
    <3>1. KilledOnlyIfEarly' BY KilledStep
    <3> QED BY <2>1, <3>1, <1>0 DEF KilledOnlyIfEarly
  <2> QED BY <1>0, <2>1, <2>2, FlowOne
<1>10. CASE UNCHANGED vars BY <1>0, <1>10, FlowQuiet DEF vars, thread, Ended
<1> QED BY <1>1, <1>2, <1>3, <1>4, <1>5, <1>6, <1>7, <1>8, <1>9, <1>10 DEF Next, Chooses, Thread, Child

\* Who has just seen the end of the output has read every answer.
LEMMA AnswerStep ==
  TypeOK /\ DescriptorsAccounted /\ WiredInv /\ FlowInv /\ [Next]_vars => AnswerComplete'
<1> SUFFICES ASSUME TypeOK, DescriptorsAccounted, WiredInv, FlowInv, [Next]_vars
             PROVE AnswerComplete'
  OBVIOUS
<1>0. /\ Stages /\ Conserved /\ AnswerComplete
      /\ pc \in [Session -> {"idle", "onePipe", "twoPipes", "forked", "failed", "leaked",
                         "writing", "reading", "read", "done"}]
      /\ sent \in [Session -> 0..Lines] /\ got \in [Session -> Nat]
  BY DEF FlowInv, TypeOK
<1> USE DEF AnswerComplete, Goto, thread
<1>1. ASSUME NEW s \in Session, ReadEnd(s) PROVE AnswerComplete'
  <2>1. /\ pc[s] = "reading" /\ ~aborted /\ pc' = [pc EXCEPT ![s] = "read"]
        /\ UNCHANGED <<pipes, output, early, sent, got, child, hand, line, aborted>>
    BY <1>0, <1>1 DEF ReadEnd
  <2>2. s \notin early => got[s] = sent[s]
    <3> SUFFICES ASSUME s \notin early PROVE got[s] = sent[s]
      OBVIOUS
    <3>1. table[Program][pipes[s][0]] = <<s, 0>>
      BY <1>0, <2>1, OwnedIsOpen DEF Owned, Stages
    <3>2. line[<<s, "out">>] = 0
      <4>1. <<s, 0>> \in Session \X {0} OBVIOUS
      <4>2. PipeOf(<<s, 0>>) = <<s, "out">> BY PipesOf
      <4> QED BY <1>1, <3>1, <4>1, <4>2 DEF ReadEnd
    <3>3. Ended(s)
      <4>1. Drained' BY DrainedStep
      <4> QED BY <1>0, <2>1, <4>1 DEF Drained, Ended
    <3>4. s \notin hand BY <1>0, <3>3 DEF Stages, Ended
    <3>5. line[<<s, "in">>] = 0 /\ sent[s] = got[s] + InFlight(s)
      BY <1>0, <2>1, <3>3 DEF Conserved
    <3> QED BY <3>2, <3>4, <3>5, Counts DEF InFlight
  <2> QED BY <1>0, <2>1, <2>2
<1>2. ASSUME NEW s \in Session,
             FirstPipe(s) \/ FirstPipeFails(s) \/ SecondPipe(s) \/ SecondPipeFails(s)
             \/ Fork(s) \/ ForkFails(s) \/ ParentReturns(s)
      PROVE AnswerComplete'
  BY <1>0, <1>2 DEF FirstPipe, FirstPipeFails, SecondPipe, SecondPipeFails, Fork, ForkFails,
              ParentReturns
<1>3. ASSUME NEW s \in Session,
             Write(s) \/ CloseInput(s) \/ Read(s) \/ CloseOutput(s) \/ CloseEarly(s) \/ Wait(s)
      PROVE AnswerComplete'
  BY <1>0, <1>3 DEF Write, CloseInput, Read, CloseOutput, CloseEarly, CloseStream, Wait
<1>4. ASSUME NEW s \in Session, Child(s) PROVE AnswerComplete'
  BY <1>0, <1>4 DEF Child, Exec, ChildReads, ChildEnds, ChildWrites, ChildDies, Ends
<1>5. CASE UNCHANGED vars BY <1>0, <1>5 DEF vars
<1> QED BY <1>1, <1>2, <1>3, <1>4, <1>5 DEF Next, Chooses, Thread

LEMMA FlowStart == Init => FlowInv
<1> SUFFICES ASSUME Init PROVE FlowInv
  OBVIOUS
<1>1. \A s \in Session : /\ pc[s] = "idle" /\ child[s] = "none" /\ sent[s] = 0 /\ got[s] = 0
                         /\ line[<<s, "in">>] = 0 /\ line[<<s, "out">>] = 0
  BY DEF Init, Pipe
<1>2. output = {} /\ early = {} /\ hand = {} /\ aborted = FALSE BY DEF Init
<1>3. Stages BY <1>1, <1>2 DEF Stages, Started
<1>4. Drained /\ AnswerComplete BY <1>1 DEF Drained, AnswerComplete
<1>5. Conserved
  <2> SUFFICES ASSUME NEW s \in Session PROVE Kept(s)
    BY DEF Conserved, Kept
  <2>1. line[<<s, "in">>] = 0 /\ line[<<s, "out">>] = 0 /\ s \notin hand BY <1>1, <1>2
  <2>2. InFlight(s) = 0 BY <2>1 DEF InFlight
  <2>3. sent[s] = 0 /\ got[s] = 0 /\ ~Ended(s) BY <1>1 DEF Ended
  <2> QED BY <2>2, <2>3 DEF Kept
<1>6. KilledOnlyIfEarly BY <1>1, <1>2 DEF KilledOnlyIfEarly
<1> QED BY <1>3, <1>4, <1>5, <1>6 DEF FlowInv

LEMMA FlowHolds == {0, 1} \subseteq Std => (Spec => []FlowInv)
<1> SUFFICES ASSUME {0, 1} \subseteq Std PROVE Spec => []FlowInv
  OBVIOUS
<1> DEFINE All == TypeOK /\ OutputOpen /\ DescriptorsAccounted /\ WiredInv /\ FlowInv
<1>1. Init => All BY TypeStart, AccountStart, WiredStart, FlowStart
<1>2. All /\ [Next]_vars => All'
  BY TypeStep, OutputStep, AccountStep, StdStep, NotForkedStep, WiredStep,
     StagesStep, DrainedStep, ConservedStep, KilledStep, AnswerStep DEF WiredInv, FlowInv
<1> QED BY <1>1, <1>2, PTL DEF Spec

\* However many threads run filters at once, one that reads to the end has read
\* the answer to every line it wrote (popen2, getLine, the test popen2).
THEOREM AnswersComplete == {0, 1} \subseteq Std => (Spec => []AnswerComplete)
<1>1. FlowInv => AnswerComplete BY DEF FlowInv
<1> QED BY <1>1, FlowHolds, PTL

\* A child is killed, and the assertion of popen2WaitByPid fails, only after some
\* thread has closed an output that it had not read to the end.
THEOREM KillsOnlyEarly == {0, 1} \subseteq Std => (Spec => []KilledOnlyIfEarly)
<1>1. FlowInv => KilledOnlyIfEarly BY DEF FlowInv
<1> QED BY <1>1, FlowHolds, PTL

(***************************************************************************)
(* Proofs about the collected signals: nothing is lost, however many       *)
(* threads ask for them, and with one thread that asks, the main loop of   *)
(* the documentation, no signal is returned more often than it came.       *)
(***************************************************************************)

\* The lowest bit of a word that is not empty is one of its bits.
LEMMA LowestIn ==
  ASSUME NEW S \in SUBSET Signal, S # {}
  PROVE Lowest(S) \in S
<1> DEFINE Below == {ss \in Nat \X Nat : ss[1] < ss[2]}
<1>1. IsWellFoundedOn(Below, Nat)
  BY NatLessThanWellFounded DEF OpToRel
<1>2. S \subseteq Nat BY SignalAssumption
<1>3. \E s \in S : \A t \in S : <<t, s>> \notin Below
  BY <1>1, <1>2, WFMin
<1>4. PICK s \in S : \A t \in S : <<t, s>> \notin Below BY <1>3
<1>5. \A t \in S : s <= t
  <2> SUFFICES ASSUME NEW t \in S PROVE s <= t OBVIOUS
  <2>1. t \in Nat /\ s \in Nat /\ ~(t < s) BY <1>2, <1>4
  <2> QED BY <2>1
<1> QED BY <1>5 DEF Lowest

\* The types of the variables.
LEMMA SignalTyped == SignalTypeOK /\ [SignalNext]_signalVars => SignalTypeOK'
<1> SUFFICES ASSUME SignalTypeOK, [SignalNext]_signalVars PROVE SignalTypeOK'
  OBVIOUS
<1> USE DEF SignalTypeOK
<1>1. ASSUME NEW s \in Signal, Collect(s) PROVE SignalTypeOK'
  BY <1>1, SignalAssumption DEF Collect
<1>2. ASSUME NEW s \in Signal, NEW d \in {"default", "ignore", "collect"}, Dispose(s, d)
      PROVE SignalTypeOK'
  BY <1>2 DEF Dispose
<1>3. ASSUME NEW c \in Caller, Load(c) PROVE SignalTypeOK'
  BY <1>3 DEF Load
<1>4. ASSUME NEW c \in Caller, FetchAnd(c) PROVE SignalTypeOK'
  <2> DEFINE s == Lowest(snapshot[c])
  <2>1. /\ signals' = signals \ {s} /\ owed' = owed \ {s}
        /\ handled' = [handled EXCEPT ![s] = @ + 1]
        /\ snapshot' = [snapshot EXCEPT ![c] = {}]
        /\ UNCHANGED <<disposition, raises>>
    BY <1>4 DEF FetchAnd
  <2>2. s \in Signal BY <1>4, LowestIn DEF FetchAnd
  <2> HIDE DEF s
  <2> QED BY <2>1, <2>2
<1>5. CASE UNCHANGED signalVars
  BY <1>5 DEF signalVars
<1> QED BY <1>1, <1>2, <1>3, <1>4, <1>5 DEF SignalNext

\* However many threads take signals out at once, a signal that was collected is
\* in the word until it is returned.
LEMMA NothingLostStep == NoSignalLost /\ [SignalNext]_signalVars => NoSignalLost'
BY DEF NoSignalLost, SignalNext, signalVars, Collect, Dispose, Load, FetchAnd

LEMMA Start == SignalInit => SignalTypeOK /\ NoSignalLost
BY SignalAssumption DEF SignalInit, SignalTypeOK, NoSignalLost

\* The handler and any number of threads that take signals out of the word in two
\* steps never lose one (_collect_signal, handle_next_collected_signal).
THEOREM NothingIsLost == SignalSpec => [](SignalTypeOK /\ NoSignalLost)
BY Start, SignalTyped, NothingLostStep, PTL DEF SignalSpec

\* With one caller, what it has loaded is still in the word, and a signal in the
\* word has been collected more often than returned.
Pending ==
  /\ \A c \in Caller : snapshot[c] \subseteq signals
  /\ \A s \in Signal : handled[s] <= raises[s] /\ (s \in signals => handled[s] < raises[s])

OneCaller == \A c, d \in Caller : c = d

LEMMA PendingStep ==
  ASSUME OneCaller, SignalTypeOK, Pending, [SignalNext]_signalVars
  PROVE Pending'
<1> USE DEF SignalTypeOK, Pending
<1>1. ASSUME NEW s \in Signal, Collect(s) PROVE Pending'
  <2>1. ASSUME NEW t \in Signal
        PROVE handled'[t] <= raises'[t] /\ (t \in signals' => handled'[t] < raises'[t])
    BY <1>1, SignalAssumption DEF Collect
  <2> QED BY <1>1, <2>1 DEF Collect
<1>2. ASSUME NEW s \in Signal, NEW d \in {"default", "ignore", "collect"}, Dispose(s, d)
      PROVE Pending'
  BY <1>2 DEF Dispose
<1>3. ASSUME NEW c \in Caller, Load(c) PROVE Pending'
  BY <1>3 DEF Load
<1>4. ASSUME NEW c \in Caller, FetchAnd(c) PROVE Pending'
  <2> DEFINE s == Lowest(snapshot[c])
  <2>1. s \in snapshot[c] /\ s \in Signal /\ s \in signals
    BY <1>4, LowestIn DEF FetchAnd
  <2>2. /\ signals' = signals \ {s} /\ handled' = [handled EXCEPT ![s] = @ + 1]
        /\ raises' = raises /\ snapshot' = [snapshot EXCEPT ![c] = {}]
    BY <1>4 DEF FetchAnd
  <2> HIDE DEF s
  <2>3. \A d \in Caller : snapshot'[d] = {} BY <2>2 DEF OneCaller
  <2>4. ASSUME NEW t \in Signal
        PROVE handled'[t] <= raises'[t] /\ (t \in signals' => handled'[t] < raises'[t])
    <3>1. CASE t = s BY <2>1, <2>2, <3>1, SignalAssumption
    <3>2. CASE t # s BY <2>2, <3>2
    <3> QED BY <3>1, <3>2
  <2> QED BY <2>3, <2>4
<1>5. CASE UNCHANGED signalVars
  BY <1>5 DEF signalVars
<1> QED BY <1>1, <1>2, <1>3, <1>4, <1>5 DEF SignalNext

\* A program with one main loop gets every signal it has collected at most once
\* for each time it came, and loses none.
THEOREM LoopIsRight == OneCaller => (SignalSpec => []SignalInv)
<1> SUFFICES ASSUME OneCaller PROVE SignalSpec => []SignalInv
  OBVIOUS
<1> DEFINE All == SignalTypeOK /\ NoSignalLost /\ Pending
<1>1. SignalInit => All
  <2>1. SignalInit => Pending BY DEF SignalInit, Pending
  <2> QED BY <2>1, Start
<1>2. All /\ [SignalNext]_signalVars => All'
  BY SignalTyped, NothingLostStep, PendingStep
<1>3. All => SignalInv
  BY DEF SignalInv, HandledOnce, Pending
<1> QED BY <1>1, <1>2, <1>3, PTL DEF SignalSpec

=============================================================================
