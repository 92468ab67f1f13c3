----------------------------- MODULE MCItemPush -----------------------------
(* ItemPush with two linked items, whose nodes could be loaded or not, and *)
(* one item that nobody linked to a node.                                  *)
EXTENDS ItemPush

CONSTANTS i1, i2, unknown, n1, n2

MCItems   == {i1, i2, unknown}
MCNodes   == {n1, n2}
MCNodeOf  == [i \in {i1, i2} |-> IF i = i1 THEN n1 ELSE n2]
MCNumbers == {"0", "1", "7"}
=============================================================================
