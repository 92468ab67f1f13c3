---------------------------- MODULE MCMqAdapter -----------------------------
(* MqAdapter with a queue name and an adapter at each end of it, that were *)
(* constructed with different sizes; the longer message has priority.      *)
EXTENDS MqAdapter

CONSTANTS gateway, fcs, name, o1, o2, o3

MCNameOf  == [a \in Adapters |-> name]
MCMsgNum  == [a \in Adapters |-> IF a = gateway THEN 2 ELSE 1]
MCMsgSize == [a \in Adapters |-> IF a = gateway THEN 1 ELSE 3]
MCMsgs    == {[prio |-> 1, len |-> 1], [prio |-> 5, len |-> 3]}
=============================================================================
