-------------------------------- MODULE Fifo --------------------------------
(***************************************************************************)
(* A bounded queue, first in first out: what a message queue is to the     *)
(* gateway and to FCS, whose messages all have one priority.               *)
(***************************************************************************)
EXTENDS Naturals, Sequences

CONSTANTS Elems,  \* what may be in the queue
          Cap     \* how many it holds

VARIABLE q

Init == q = <<>>

Put(m) == Len(q) < Cap /\ q' = Append(q, m)

Take == q # <<>> /\ q' = Tail(q)

\* A message is taken, and that of a sender that waits for room goes in.
Pass(m) == q # <<>> /\ q' = Append(Tail(q), m)

Use == Take \/ \E m \in Elems : Put(m) \/ Pass(m)

\* No message is lost, repeated or overtaken.
KeptSpec == Init /\ [][Use]_q

\* The queue loses its name with all that is in it.
Lose == q' = <<>>

Next == Use \/ Lose

Spec == Init /\ [][Next]_q
=============================================================================
