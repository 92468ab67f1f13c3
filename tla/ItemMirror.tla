----------------------------- MODULE ItemMirror -----------------------------
(***************************************************************************)
(* What the gateway promises about pushed item values, with the maps, the  *)
(* texts and the loops left out.  A pushed value makes a write to the node *)
(* linked to its item due; each due write is done once, with a value the   *)
(* push stands for; and nothing else the gateway does touches a node, so   *)
(* what OPC UA clients write to it stays until the item is pushed again,   *)
(* or the gateway is restarted and creates its nodes anew.                 *)
(***************************************************************************)
CONSTANTS Nodes,    \* nodes linked to an item
          Numbers   \* values of a node

VARIABLES node,     \* value of each node
          due,      \* values one of which is to be written; {}: no write due
          loaded    \* nodes that exist in the address space

mirrorVars == <<node, due, loaded>>

NothingDue == [n \in Nodes |-> {}]

Init ==
    /\ node \in [Nodes -> Numbers]
    /\ due = NothingDue
    /\ loaded \in SUBSET Nodes

Learn(n, vals) ==
    /\ due' = [due EXCEPT ![n] = vals]
    /\ UNCHANGED <<node, loaded>>

Write(n) ==
    /\ \/ n \in loaded /\ \E v \in due[n] : node' = [node EXCEPT ![n] = v]
       \/ n \notin loaded /\ UNCHANGED node
    /\ due' = [due EXCEPT ![n] = {}]
    /\ UNCHANGED loaded

ClientWrite(n, v) ==
    /\ n \in loaded
    /\ node' = [node EXCEPT ![n] = v]
    /\ UNCHANGED <<due, loaded>>

\* Nodes are created only when nothing is due; they go when the server does.
Load(S) ==
    /\ loaded' = S
    /\ UNCHANGED <<node, due>>
    /\ S \subseteq loaded \/ due = NothingDue

\* A new process knows of no push and has no nodes yet.
Restart ==
    /\ node' \in [Nodes -> Numbers]
    /\ due' = NothingDue
    /\ loaded' = {}

Next ==
    \/ \E S \in SUBSET Nodes : Load(S)
    \/ \E n \in Nodes :
        \/ \E vals \in (SUBSET Numbers) \ {{}} : Learn(n, vals)
        \/ Write(n)
        \/ \E v \in Numbers : ClientWrite(n, v)
    \/ Restart

Spec == Init /\ [][Next]_mirrorVars
=============================================================================
