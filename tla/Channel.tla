------------------------------ MODULE Channel ------------------------------
(***************************************************************************)
(* What System.Concurrency promises of a channel: channelGet returns "the  *)
(* sent value".  Every value put is got once, in the order of the puts;    *)
(* the channels of the Scheme backends hold one value at a time.           *)
(***************************************************************************)
EXTENDS Sequences, Naturals

CONSTANT Val
VARIABLES sent, got

Init == sent = <<>> /\ got = <<>>

Put(v) ==
  /\ Len(sent) = Len(got)
  /\ sent' = Append(sent, v)
  /\ UNCHANGED got

Get ==
  /\ Len(got) < Len(sent)
  /\ got' = Append(got, sent[Len(got) + 1])
  /\ UNCHANGED sent

Next == Get \/ \E v \in Val : Put(v)
Spec == Init /\ [][Next]_<<sent, got>>
=============================================================================
