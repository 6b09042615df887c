----------------------------- MODULE IacChannel -----------------------------
(***************************************************************************)
(* What one direction of a Telnet connection promises, whatever the bytes  *)
(* it is made of: the messages one end writes, data and commands, are         *)
(* received by the other end each once, in their order, several at a time. *)
(***************************************************************************)
EXTENDS Naturals, Sequences

CONSTANT Messages

VARIABLES sent,  \* every message written
          got    \* every message received

Init == sent = <<>> /\ got = <<>>

Write ==
  /\ \E m \in Messages : sent' = Append(sent, m)
  /\ UNCHANGED got

Receive ==
  /\ \E n \in Len(got)..Len(sent) : got' = SubSeq(sent, 1, n)
  /\ UNCHANGED sent

Spec == Init /\ [][Write \/ Receive]_<<sent, got>>
=============================================================================
