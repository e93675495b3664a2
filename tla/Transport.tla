------------------------------ MODULE Transport ------------------------------
(***************************************************************************)
(* What the reliable data transfer layer of lab1 promises to its upper     *)
(* layers: a FIFO channel.  Packets are numbered in the order in which the *)
(* sender accepts them; the receiver hands them up in that order, none     *)
(* twice and none left out.                                                *)
(***************************************************************************)
EXTENDS Naturals, Sequences

VARIABLES
    sent,       \* number of packets accepted from the upper layer
    delivered   \* the packets handed to the upper layer of the receiver

vars == <<sent, delivered>>

Init == sent = 0 /\ delivered = <<>>

Accept ==
    /\ sent' \in Nat
    /\ sent' > sent
    /\ UNCHANGED delivered

Deliver ==
    /\ Len(delivered) < sent
    /\ \E last \in Len(delivered) + 1 .. sent :
          delivered' = [i \in 1 .. last |-> i]
    /\ UNCHANGED sent

Next == Accept \/ Deliver

Spec == Init /\ [][Next]_vars
=============================================================================
