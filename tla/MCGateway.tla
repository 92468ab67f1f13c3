----------------------------- MODULE MCGateway ------------------------------
(* Gateway with two linked items, of which the import may leave one without *)
(* a node, and one item that nobody linked.                                *)
EXTENDS Gateway

CONSTANTS i1, i2, i3, n1, n2

MCItems    == {i1, i2, i3}
MCNodes    == {n1, n2}
MCNodeOf   == [i \in {i1, i2} |-> IF i = i1 THEN n1 ELSE n2]
MCPosition == [n \in {n1, n2} |-> IF n = n1 THEN 21 ELSE 22]
MCValues   == {[type |-> "number", val |-> "1"]}
=============================================================================
