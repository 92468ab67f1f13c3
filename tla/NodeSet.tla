------------------------------- MODULE NodeSet -------------------------------
(***************************************************************************)
(* The import of the node set and what depends on its result: testNS       *)
(* begins each of its nodes in turn and then finishes them in the opposite *)
(* order, giving up at the first call that fails; OpcUaServer::Start sets  *)
(* the callback of the method node only if all went well, and runs the     *)
(* server in any case.                                                     *)
(*                                                                         *)
(* A node is the k of its function_testNS_k_begin: 2 is the method         *)
(* (ns=2;i=7002), 4 and 3 its input and output arguments, 1, 5 and 21..23  *)
(* the nodes whose values are pushed.                                      *)
(***************************************************************************)
EXTENDS Integers

CONSTANT Half  \* 2^31: an Int32 is in -Half..Half-1

ASSUME NodeSetAssumption == Half \in Nat \ {0}

Count     == 24
TreeNodes == 0..(Count - 1)
Standard  == -1   \* any node the server has from the start
Method    == 2
Input     == 4
Output    == 3

\* The parent that function_testNS_n_begin names.
Parent(n) == CASE n \in {1, 2, 5}  -> 0
               [] n \in {3, 4}     -> Method
               [] n \in {7, 8, 11} -> 6
               [] n \in {9, 10}    -> 8
               [] n \in 13..19     -> 12
               [] n \in 21..23     -> 20
               [] n \in {0, 6, 12, 20} -> Standard

\* These add a modelling rule to the node after they have begun it.
WithRule == 7..11

UInt32 == 0..(2 * Half - 1)
Int32  == (-Half)..(Half - 1)

VARIABLES
    pc,        \* "import", then "check" the result, then "serve"
    pos,       \* calls of the chain in testNS that have succeeded
    retVal,    \* "good" or "bad"
    present,   \* nodes in the address space
    finished,  \* those whose instantiation is complete
    callback,  \* MyNodeCallBack is set on the method node
    reply      \* what the last call of the method returned

vars == <<pc, pos, retVal, present, finished, callback, reply>>

NoReply == [status |-> "none", value |-> 0]
Refusal == [status |-> "bad", value |-> 0]
Reply(v) == [status |-> "good", value |-> v]

(* Slips a change to this code could make, next to what they would replace.*)
FinishedInOrder(k) == IF k < Count THEN k ELSE k - Count
BegunInReverse(k)  == IF k < Count THEN Count - 1 - k ELSE 2 * Count - 1 - k
NotAssigned        == "good"
AnyResult          == TRUE
NotReinterpreted(x) == x

\* The node of the call in position k of the chain.
NodeAt(k) == IF k < Count THEN k ELSE 2 * Count - 1 - k

\* What retVal is after a call that failed.
FailureStatus == "bad"

Accepted == retVal = "good"

Subtree(n) == {m \in TreeNodes : n \in {m, Parent(m)} \/
                             (Parent(m) # Standard /\ Parent(Parent(m)) = n)}

Init ==
    /\ pc = "import" /\ pos = 0 /\ retVal = "good"
    /\ present = {} /\ finished = {}
    /\ callback = FALSE /\ reply = NoReply

Importing(n) == pc = "import" /\ pos < 2 * Count /\ n = NodeAt(pos)

Succeed == /\ pos' = pos + 1 /\ retVal' = "good"
           /\ UNCHANGED <<pc, callback, reply>>
\* The chain is one && expression: the first failure ends it.
Fail    == /\ pos' = pos + 1 /\ retVal' = FailureStatus /\ pc' = "check"
           /\ UNCHANGED <<callback, reply>>

\* The server takes a node it does not have yet, under a parent it has.
Begin(n) ==
    /\ Importing(n) /\ pos < Count
    /\ n \notin present /\ Parent(n) \in present \union {Standard}
    /\ present' = present \union {n}
    /\ UNCHANGED finished
    /\ Succeed

\* No memory, or refused; or the node is there but not its modelling rule.
BeginFails(n) ==
    /\ Importing(n) /\ pos < Count
    /\ \/ present' = present
       \/ /\ n \in WithRule /\ Parent(n) \in present \union {Standard}
          /\ present' = present \union {n}
    /\ UNCHANGED finished
    /\ Fail

Finish(n) ==
    /\ Importing(n) /\ pos >= Count
    /\ n \in present
    /\ finished' = finished \union {n}
    /\ UNCHANGED present
    /\ Succeed

\* A failing finish may remove the node, with its children or without.
FinishFails(n) ==
    /\ Importing(n) /\ pos >= Count
    /\ \E gone \in {{}, {n}, Subtree(n)} :
         /\ present' = present \ gone
         /\ finished' = finished \ gone
    /\ Fail

ImportDone ==
    /\ pc = "import" /\ pos = 2 * Count
    /\ pc' = "check"
    /\ UNCHANGED <<pos, retVal, present, finished, callback, reply>>

\* OpcUaServer::Start after testNS has returned.
CheckResult ==
    /\ pc = "check" /\ pc' = "serve"
    /\ callback' = (Accepted /\ Method \in present)
    /\ UNCHANGED <<pos, retVal, present, finished, reply>>

\* A client calls the method.  The server lets the one argument that
\* InputArguments declares through, a UInt32, and MyNodeCallBack takes it for
\* an Int32.
AsInt32(x) == IF x < Half THEN x ELSE x - 2 * Half

Call(x) ==
    /\ pc = "serve"
    /\ \/ /\ callback /\ Input \in present
          /\ reply' = Reply(AsInt32((x + 100) % (2 * Half)))
       \/ /\ ~(callback /\ Input \in present)
          /\ reply' = Refusal
    /\ UNCHANGED <<pc, pos, retVal, present, finished, callback>>

Next ==
    \/ \E n \in TreeNodes : Begin(n) \/ BeginFails(n) \/ Finish(n) \/ FinishFails(n)
    \/ ImportDone \/ CheckResult
    \/ \E x \in UInt32 : Call(x)

Spec == Init /\ [][Next]_vars

-----------------------------------------------------------------------------
(* Properties.                                                             *)

TypeOK ==
    /\ pc \in {"import", "check", "serve"} /\ pos \in 0..(2 * Count)
    /\ retVal \in {"good", "bad"}
    /\ present \in SUBSET TreeNodes /\ finished \in SUBSET present
    /\ callback \in BOOLEAN
    /\ reply \in [status : {"none", "bad", "good"}, value : Int32]

\* The order of the generated calls suits the hierarchy: no node is begun
\* before its parent, and as long as no call has failed no node is without it.
ParentsFirst ==
    retVal = "good" =>
        /\ \A n \in present : Parent(n) \in present \union {Standard}
        /\ pc = "import" /\ pos < Count =>
               Parent(NodeAt(pos)) \in present \union {Standard}

\* A node is finished after all its children, so that finishing it finds them
\* and adds no copies of its own; also when the import breaks off.
ChildrenFinishedFirst ==
    \A n \in finished, m \in TreeNodes : Parent(m) = n => m \in finished

\* The result the server acts on tells a whole import from a partial one.
AllOrError == pc = "serve" => (retVal = "good" <=> finished = TreeNodes)

\* MyNodeCallBack, which takes its arguments as they come, is reachable only
\* when the declarations the server checks the arguments by are complete.
CallbackIsDeclared ==
    callback => /\ {Method, Input, Output} \subseteq finished
                /\ retVal = "good"

\* The generated sequence of calls, cut short anywhere, grows the tree from its
\* root and completes it from its leaves, reports success for the whole of it
\* only, and the server offers the method exactly then (module Hierarchy).
T == INSTANCE Hierarchy WITH
        Nodes <- TreeNodes, Root <- Standard,
        ParentOf <- [n \in TreeNodes |-> Parent(n)],
        there <- present, complete <- finished, callable <- callback,
        result <- IF pc = "import" THEN "open" ELSE retVal
RefinesHierarchy == T!Spec
=============================================================================
