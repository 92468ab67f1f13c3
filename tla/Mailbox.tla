------------------------------ MODULE Mailbox -------------------------------
(***************************************************************************)
(* What a message queue of a given name is to those who use it, with the   *)
(* descriptors, the two ways of opening and the calls under way left out.  *)
(* Whoever creates the queue fixes how many messages it holds; they come   *)
(* out by priority and, among equals, in the order they went in; none is   *)
(* lost but with the whole queue, and what is done to a queue that has     *)
(* lost its name does not show.                                            *)
(***************************************************************************)
EXTENDS Naturals, Sequences, FiniteSets

CONSTANTS Names,   \* names of queues
          Msgs,    \* messages: records with a priority (and a length)
          Sizes    \* what a queue may hold: the sizes its users ask for

VARIABLES size,    \* size of each queue; 0: there is no queue of the name
          box      \* the messages in it, next one first

boxVars == <<size, box>>

\* The place of a message behind all those of its priority or a higher one.
Place(q, m) == Cardinality({i \in DOMAIN q : q[i].prio >= m.prio})

Insert(q, m) == [i \in 1..(Len(q) + 1) |->
                    IF i <= Place(q, m) THEN q[i]
                    ELSE IF i = Place(q, m) + 1 THEN m ELSE q[i - 1]]

Init ==
    /\ size = [n \in Names |-> 0]
    /\ box = [n \in Names |-> <<>>]

Create(n, s) ==
    /\ size[n] = 0
    /\ size' = [size EXCEPT ![n] = s]
    /\ UNCHANGED box

Put(n, m) ==
    /\ Len(box[n]) < size[n]
    /\ box' = [box EXCEPT ![n] = Insert(box[n], m)]
    /\ UNCHANGED size

Take(n) ==
    /\ box[n] # <<>>
    /\ box' = [box EXCEPT ![n] = Tail(box[n])]
    /\ UNCHANGED size

Remove(n) ==
    /\ size' = [size EXCEPT ![n] = 0]
    /\ box' = [box EXCEPT ![n] = <<>>]

Next ==
    \E n \in Names :
        \/ \E s \in Sizes : Create(n, s)
        \/ \E m \in Msgs : Put(n, m)
        \/ Take(n)
        \/ Remove(n)

Spec == Init /\ [][Next]_boxVars
=============================================================================
