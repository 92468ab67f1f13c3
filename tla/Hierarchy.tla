----------------------------- MODULE Hierarchy ------------------------------
(***************************************************************************)
(* What an import of a node set promises, in whatever order its calls are  *)
(* generated: the tree grows from its root down and is completed from its  *)
(* leaves up; success means all of it, and an import that gives up leaves  *)
(* no node complete above one that is not.  Methods can be called after an *)
(* import that succeeded, and only then.                                   *)
(***************************************************************************)
CONSTANTS Nodes,     \* the nodes of the node set
          Root,      \* where it is attached
          ParentOf   \* the parent of each node, one of them or Root

VARIABLES
    there,     \* nodes that have been added
    complete,  \* those that nothing is added to any more
    result,    \* "open", then "good" or "bad"
    callable   \* methods can be called

treeVars == <<there, complete, result, callable>>

Children(n) == {m \in Nodes : ParentOf[m] = n}

Init ==
    /\ there = {} /\ complete = {}
    /\ result = "open" /\ callable = FALSE

Add(n) ==
    /\ result = "open" /\ n \notin there
    /\ ParentOf[n] \in there \union {Root}
    /\ there' = there \union {n}
    /\ UNCHANGED <<complete, result, callable>>

Complete(n) ==
    /\ result = "open" /\ n \in there \ complete
    /\ Children(n) \subseteq complete
    /\ complete' = complete \union {n}
    /\ UNCHANGED <<there, result, callable>>

Succeed ==
    /\ result = "open" /\ complete = Nodes
    /\ result' = "good"
    /\ UNCHANGED <<there, complete, callable>>

\* One more node may be there, or any number less.
GiveUp ==
    /\ result = "open" /\ result' = "bad"
    /\ \E n \in Nodes : there' \subseteq there \union {n}
    /\ complete' \subseteq complete \intersect there' /\ complete' # Nodes
    /\ \A n \in complete' : Children(n) \subseteq complete'
    /\ UNCHANGED callable

Offer ==
    /\ result # "open"
    /\ callable' = (result = "good")
    /\ UNCHANGED <<there, complete, result>>

Next ==
    \/ \E n \in Nodes : Add(n) \/ Complete(n)
    \/ Succeed \/ GiveUp \/ Offer

Spec == Init /\ [][Next]_treeVars
=============================================================================
