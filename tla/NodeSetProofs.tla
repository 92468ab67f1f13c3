---------------------------- MODULE NodeSetProofs ----------------------------
(***************************************************************************)
(* Proofs about the import of the node set, for integers of any width.     *)
(* The argument is the position in the chain of calls: while no call has   *)
(* failed, it determines which nodes have been begun and finished.         *)
(***************************************************************************)
EXTENDS NodeSet, TLAPS

\* While the chain runs, the first pos nodes have been begun, and those from
\* 2 * Count - pos on have been finished.
Progress ==
    pc = "import" =>
        /\ retVal = "good" /\ callback = FALSE
        /\ present = {n \in TreeNodes : n < pos}
        /\ finished = {n \in TreeNodes : n >= 2 * Count - pos}

\* When it has ended, a good result means every node and a bad one that the
\* node of the failing call, and what is above it, is not finished.
Outcome ==
    pc # "import" =>
        /\ retVal = "good" => present = TreeNodes /\ finished = TreeNodes
        /\ retVal = "bad" => 0 \notin finished
        /\ pc = "check" => callback = FALSE
        /\ callback => retVal = "good"

\* Only a tail of the nodes, closed under children, is ever finished.
IInv == TypeOK /\ Progress /\ Outcome /\ ChildrenFinishedFirst

\* The parent of a node comes before it, in the table of the generated code.
LEMMA ParentBefore ==
    \A n \in TreeNodes : /\ Parent(n) \in Int /\ Parent(n) < n
                     /\ Parent(n) \in TreeNodes \union {Standard}
  BY SMTT(60) DEF TreeNodes, Count, Parent, Method, Standard

\* An Int32 taken from the bits of a UInt32 is in range.
LEMMA AsInt32Type == \A x \in UInt32 : AsInt32((x + 100) % (2 * Half)) \in Int32
  <1> SUFFICES ASSUME NEW x \in UInt32
               PROVE  AsInt32((x + 100) % (2 * Half)) \in Int32
    OBVIOUS
  <1>1. Half \in Nat /\ Half > 0
    BY NodeSetAssumption
  <1> DEFINE y == (x + 100) % (2 * Half)
  <1>2. y \in 0..(2 * Half - 1)
    BY <1>1, SMTT(30) DEF UInt32
  <1> HIDE DEF y
  <1>3. AsInt32(y) \in Int32
    BY <1>1, <1>2 DEF AsInt32, Int32
  <1> QED BY <1>3 DEF y

\* The initial states satisfy the invariant.
LEMMA InitInv == Init => IInv
  <1> SUFFICES ASSUME Init PROVE IInv
    OBVIOUS
  <1>1. NoReply \in [status : {"none", "bad", "good"}, value : Int32]
    BY NodeSetAssumption DEF NoReply, Int32
  <1>2. callback \in BOOLEAN
    BY DEF Init
  <1>3. TypeOK
    BY <1>1, <1>2 DEF Init, TypeOK, Count
  <1>4. Progress
    BY DEF Init, Progress, TreeNodes, Count
  <1>5. Outcome /\ ChildrenFinishedFirst
    BY DEF Init, Outcome, ChildrenFinishedFirst
  <1> QED BY <1>3, <1>4, <1>5 DEF IInv

\* A call that begins a node extends what has been begun by that node.
LEMMA BeginInv == ASSUME IInv, NEW n \in TreeNodes, Begin(n) PROVE IInv'
  <1>1. /\ pc = "import" /\ pos < Count /\ n = pos
        /\ present' = present \union {n} /\ finished' = finished
        /\ pos' = pos + 1 /\ retVal' = "good"
        /\ pc' = pc /\ callback' = callback /\ reply' = reply
    BY DEF Begin, Importing, Succeed, NodeAt
  <1>2. pos \in 0..(2 * Count) /\ TypeOK /\ Progress
    BY DEF IInv, TypeOK
  <1>3. TypeOK'
    BY <1>1, <1>2 DEF TypeOK, Count
  <1>4. present' = {m \in TreeNodes : m < pos'}
    BY <1>1, <1>2 DEF Progress, TreeNodes, Count
  <1>5. finished' = {m \in TreeNodes : m >= 2 * Count - pos'}
    BY <1>1, <1>2 DEF Progress, TreeNodes, Count
  <1>6. Progress'
    BY <1>1, <1>2, <1>4, <1>5 DEF Progress
  <1>7. Outcome' /\ ChildrenFinishedFirst'
    BY <1>1 DEF IInv, Outcome, ChildrenFinishedFirst
  <1> QED BY <1>3, <1>6, <1>7 DEF IInv

\* A failing begin ends the chain before anything is finished.
LEMMA BeginFailsInv == ASSUME IInv, NEW n \in TreeNodes, BeginFails(n) PROVE IInv'
  <1>1. /\ pc = "import" /\ pos < Count
        /\ present' \in {present, present \union {n}} /\ finished' = finished
        /\ pos' = pos + 1 /\ retVal' = "bad" /\ pc' = "check"
        /\ callback' = callback /\ reply' = reply
    BY DEF BeginFails, Importing, Fail, FailureStatus
  <1>2. pos \in 0..(2 * Count) /\ TypeOK /\ Progress
    BY DEF IInv, TypeOK
  <1>3. TypeOK'
    BY <1>1, <1>2 DEF TypeOK, Count
  <1>4. finished' = {} /\ callback' = FALSE
    BY <1>1, <1>2 DEF Progress, TreeNodes, Count
  <1>5. Progress' /\ Outcome' /\ ChildrenFinishedFirst'
    BY <1>1, <1>4 DEF Progress, Outcome, ChildrenFinishedFirst
  <1> QED BY <1>3, <1>5 DEF IInv

\* A call that finishes a node finds all its children finished: they come
\* after it.
LEMMA FinishInv == ASSUME IInv, NEW n \in TreeNodes, Finish(n) PROVE IInv'
  <1>1. /\ pc = "import" /\ pos >= Count /\ pos < 2 * Count
        /\ n = 2 * Count - 1 - pos /\ n \in present
        /\ present' = present /\ finished' = finished \union {n}
        /\ pos' = pos + 1 /\ retVal' = "good"
        /\ pc' = pc /\ callback' = callback /\ reply' = reply
    <2>1. pos \in 0..(2 * Count)
      BY DEF IInv, TypeOK
    <2> QED BY <2>1 DEF Finish, Importing, Succeed, NodeAt, Count
  <1>2. pos \in 0..(2 * Count) /\ TypeOK /\ Progress
    BY DEF IInv, TypeOK
  <1>3. TypeOK'
    BY <1>1, <1>2 DEF TypeOK, Count
  <1>4. present' = {m \in TreeNodes : m < pos'}
    BY <1>1, <1>2 DEF Progress, TreeNodes, Count
  <1>5. finished' = {m \in TreeNodes : m >= 2 * Count - pos'}
    BY <1>1, <1>2 DEF Progress, TreeNodes, Count
  <1>6. Progress'
    BY <1>1, <1>2, <1>4, <1>5 DEF Progress
  <1>7. ChildrenFinishedFirst'
    <2> SUFFICES ASSUME NEW k \in finished', NEW m \in TreeNodes, Parent(m) = k
                 PROVE  m \in finished'
      BY DEF ChildrenFinishedFirst
    <2>1. k < m
      BY ParentBefore
    <2> QED BY <1>5, <1>1, <1>2, <2>1 DEF TreeNodes, Count
  <1>8. Outcome'
    BY <1>1 DEF Outcome
  <1> QED BY <1>3, <1>6, <1>7, <1>8 DEF IInv

\* A failing finish leaves its node unfinished, and with it the root of what
\* it removes; what it removes is a node or a whole subtree.
LEMMA FinishFailsInv == ASSUME IInv, NEW n \in TreeNodes, FinishFails(n) PROVE IInv'
  <1>1. PICK gone \in {{}, {n}, Subtree(n)} :
             present' = present \ gone /\ finished' = finished \ gone
    BY DEF FinishFails
  <1>2. /\ pc = "import" /\ pos >= Count /\ pos < 2 * Count
        /\ n = 2 * Count - 1 - pos
        /\ pos' = pos + 1 /\ retVal' = "bad" /\ pc' = "check"
        /\ callback' = callback /\ reply' = reply
    <2>1. pos \in 0..(2 * Count)
      BY DEF IInv, TypeOK
    <2> QED BY <2>1 DEF FinishFails, Importing, Fail, FailureStatus, NodeAt, Count
  <1>3. pos \in 0..(2 * Count) /\ TypeOK /\ Progress
    BY DEF IInv, TypeOK
  <1>4. TypeOK'
    <2>1. present' \in SUBSET TreeNodes /\ finished' \in SUBSET present'
      BY <1>1, <1>3 DEF TypeOK
    <2>2. pos' \in 0..(2 * Count)
      BY <1>2, <1>3 DEF Count
    <2> QED BY <1>2, <1>3, <2>1, <2>2 DEF TypeOK
  <1>5. finished = {m \in TreeNodes : m > n} /\ callback = FALSE
    BY <1>2, <1>3 DEF Progress, TreeNodes, Count
  <1>6. Progress' /\ Outcome'
    BY <1>1, <1>2, <1>5 DEF Progress, Outcome, TreeNodes
  <1>7. ChildrenFinishedFirst'
    <2> SUFFICES ASSUME NEW k \in finished', NEW m \in TreeNodes, Parent(m) = k
                 PROVE  m \in finished'
      BY DEF ChildrenFinishedFirst
    <2>1. k \in TreeNodes /\ k > n /\ k \notin gone
      BY <1>1, <1>5
    <2>2. m > k /\ m \in finished
      BY <2>1, <1>5, ParentBefore DEF TreeNodes
    <2>3. CASE gone = {}
      BY <1>1, <2>2, <2>3
    <2>4. CASE gone = {n}
      BY <1>1, <2>1, <2>2, <2>4 DEF TreeNodes
    <2>5. CASE gone = Subtree(n)
      <3>1. m \in Subtree(n) => k \in Subtree(n)
        BY <2>1, <2>2 DEF Subtree, TreeNodes, Standard
      <3> QED BY <1>1, <2>1, <2>2, <2>5, <3>1
    <2> QED BY <2>3, <2>4, <2>5
  <1> QED BY <1>4, <1>6, <1>7 DEF IInv

\* The rest of the server's steps change no node.
LEMMA ServerInv == ASSUME IInv, ImportDone \/ CheckResult PROVE IInv'
  <1>1. UNCHANGED <<pos, retVal, present, finished, reply>>
    BY DEF ImportDone, CheckResult
  <1>2. TypeOK /\ Progress /\ Outcome /\ ChildrenFinishedFirst
    BY DEF IInv
  <1>3. ChildrenFinishedFirst'
    BY <1>1, <1>2 DEF ChildrenFinishedFirst
  <1>4. CASE ImportDone
    <2>1. pc = "import" /\ pos = 2 * Count /\ pc' = "check" /\ callback' = callback
      BY <1>4 DEF ImportDone
    <2>2. TypeOK' /\ Progress'
      BY <1>1, <1>2, <2>1 DEF TypeOK, Progress
    <2>3. present = TreeNodes /\ finished = TreeNodes /\ retVal = "good" /\ callback = FALSE
      BY <1>2, <2>1 DEF Progress, TreeNodes, Count
    <2>4. Outcome'
      BY <1>1, <2>1, <2>3 DEF Outcome
    <2> QED BY <1>3, <2>2, <2>4 DEF IInv
  <1>5. CASE CheckResult
    <2>1. pc = "check" /\ pc' = "serve" /\ callback' = (Accepted /\ Method \in present)
      BY <1>5 DEF CheckResult
    <2>2. callback' \in BOOLEAN
      BY <2>1
    <2>3. TypeOK' /\ Progress'
      BY <1>1, <1>2, <2>1, <2>2 DEF TypeOK, Progress
    <2>4. callback' => retVal' = "good"
      BY <1>1, <2>1 DEF Accepted
    <2>5. Outcome'
      BY <1>1, <1>2, <2>1, <2>4 DEF Outcome
    <2> QED BY <1>3, <2>3, <2>5 DEF IInv
  <1> QED BY <1>4, <1>5

LEMMA CallInv == ASSUME IInv, NEW x \in UInt32, Call(x) PROVE IInv'
  <1>1. UNCHANGED <<pc, pos, retVal, present, finished, callback>>
    BY DEF Call
  <1>2. TypeOK /\ Progress /\ Outcome /\ ChildrenFinishedFirst
    BY DEF IInv
  <1>3. reply' \in [status : {"none", "bad", "good"}, value : Int32]
    <2>1. Refusal \in [status : {"none", "bad", "good"}, value : Int32]
      BY NodeSetAssumption DEF Refusal, Int32
    <2>2. Reply(AsInt32((x + 100) % (2 * Half)))
              \in [status : {"none", "bad", "good"}, value : Int32]
      BY AsInt32Type DEF Reply
    <2> QED BY <2>1, <2>2 DEF Call
  <1>4. TypeOK'
    BY <1>1, <1>2, <1>3 DEF TypeOK
  <1>5. Progress' /\ Outcome' /\ ChildrenFinishedFirst'
    BY <1>1, <1>2 DEF Progress, Outcome, ChildrenFinishedFirst
  <1> QED BY <1>4, <1>5 DEF IInv

-----------------------------------------------------------------------------

\* The invariant holds in every state of the import and after it.
THEOREM Invariance == Spec => []IInv
  <1>1. IInv /\ [Next]_vars => IInv'
    <2> SUFFICES ASSUME IInv, [Next]_vars PROVE IInv'
      OBVIOUS
    <2>1. CASE \E n \in TreeNodes : Begin(n) \/ BeginFails(n) \/ Finish(n) \/ FinishFails(n)
      BY <2>1, BeginInv, BeginFailsInv, FinishInv, FinishFailsInv
    <2>2. CASE ImportDone \/ CheckResult
      BY <2>2, ServerInv
    <2>3. CASE \E x \in UInt32 : Call(x)
      BY <2>3, CallInv
    <2>4. CASE UNCHANGED vars
      BY <2>4 DEF vars, IInv, TypeOK, Progress, Outcome, ChildrenFinishedFirst
    <2> QED BY <2>1, <2>2, <2>3, <2>4 DEF Next
  <1> QED BY InitInv, <1>1, PTL DEF Spec

\* The calls stay within the chain, nodes are finished only when present, and
\* the reply of the method is an Int32 whatever its argument.
THEOREM TypeCorrect == Spec => []TypeOK
<1>1. IInv => TypeOK
  BY DEF IInv
<1>. QED
  BY <1>1, Invariance, PTL

\* What the invariant says of the chain and of its result.
LEMMA InvFinishOrder == IInv => ChildrenFinishedFirst
BY DEF IInv

LEMMA InvBeginOrder == IInv => ParentsFirst
<1>. SUFFICES ASSUME IInv, retVal = "good" PROVE ParentsFirst
  BY DEF ParentsFirst
<1>1. TypeOK /\ Progress /\ Outcome
  BY DEF IInv
<1>2. CASE pc = "import"
  <2>1. \A n \in present : Parent(n) \in present \union {Standard}
    <3>. SUFFICES ASSUME NEW n \in present
                  PROVE  Parent(n) \in present \union {Standard}
      OBVIOUS
    <3>1. n \in TreeNodes /\ n < pos /\ n \in Int /\ pos \in Int
      BY <1>1, <1>2 DEF Progress, TypeOK, TreeNodes, Count
    <3>2. Parent(n) < pos
      BY <3>1, ParentBefore
    <3>. QED
      BY <1>1, <1>2, <3>1, <3>2, ParentBefore DEF Progress
  <2>2. pos < Count => Parent(NodeAt(pos)) \in present \union {Standard}
    BY <1>1, <1>2, ParentBefore DEF Progress, TypeOK, NodeAt, TreeNodes, Count
  <2>. QED
    BY <1>2, <2>1, <2>2 DEF ParentsFirst
<1>3. CASE pc # "import"
  <2>1. present = TreeNodes
    BY <1>1, <1>3 DEF Outcome
  <2>. QED
    BY <1>3, <2>1, ParentBefore DEF ParentsFirst
<1>. QED
  BY <1>2, <1>3

LEMMA InvResultIsTrue == IInv => AllOrError
<1>. SUFFICES ASSUME IInv, pc = "serve"
              PROVE  retVal = "good" <=> finished = TreeNodes
  BY DEF AllOrError
<1>1. retVal \in {"good", "bad"} /\ Outcome
  BY DEF IInv, TypeOK
<1>2. 0 \in TreeNodes
  BY DEF TreeNodes, Count
<1>. QED
  BY <1>1, <1>2 DEF Outcome

LEMMA InvCallbackSafe == IInv => CallbackIsDeclared
<1>. SUFFICES ASSUME IInv, callback PROVE CallbackIsDeclared
  BY DEF CallbackIsDeclared
<1>1. Progress /\ Outcome
  BY DEF IInv
<1>2. pc # "import"
  BY <1>1 DEF Progress
<1>3. retVal = "good" /\ finished = TreeNodes
  BY <1>1, <1>2 DEF Outcome
<1>4. {Method, Input, Output} \subseteq TreeNodes
  BY DEF Method, Input, Output, TreeNodes, Count
<1>. QED
  BY <1>3, <1>4 DEF CallbackIsDeclared

\* Nodes are finished after their children, whatever fails on the way (the
\* reverse order of the finish calls in testNS).
THEOREM FinishOrder == Spec => []ChildrenFinishedFirst
BY Invariance, InvFinishOrder, PTL

\* No begin is refused for want of a parent (the order of the begin calls).
THEOREM BeginOrder == Spec => []ParentsFirst
BY Invariance, InvBeginOrder, PTL

\* The result of testNS tells a whole import from a partial one.
THEOREM ResultIsTrue == Spec => []AllOrError
BY Invariance, InvResultIsTrue, PTL

\* MyNodeCallBack is reachable only with its argument declarations complete.
THEOREM CallbackSafe == Spec => []CallbackIsDeclared
BY Invariance, InvCallbackSafe, PTL

-----------------------------------------------------------------------------
(* Refinement: the import is one of those that module Hierarchy describes. *)

\* What is known of a node when its turn comes.
LEMMA NextNode ==
    ASSUME IInv, NEW n \in TreeNodes, Importing(n)
    PROVE  /\ retVal = "good" /\ pos \in 0..(2 * Count)
           /\ pos < Count => /\ n = pos /\ n \notin present /\ finished = {}
           /\ pos >= Count => /\ n = 2 * Count - 1 - pos
                              /\ present = TreeNodes
                              /\ finished = {m \in TreeNodes : m > n}
<1>1. TypeOK /\ Progress /\ pc = "import" /\ pos < 2 * Count /\ n = NodeAt(pos)
  BY DEF IInv, Importing
<1>2. pos \in 0..(2 * Count)
  BY <1>1 DEF TypeOK
<1>. QED
  BY <1>1, <1>2 DEF Progress, NodeAt, TreeNodes, Count

LEMMA ChildrenAre ==
    \A n \in TreeNodes : T!Children(n) = {m \in TreeNodes : Parent(m) = n}
BY DEF T!Children

LEMMA BeginRefines == ASSUME IInv, NEW n \in TreeNodes, Begin(n) PROVE T!Next
<1>1. T!Add(n)
  BY DEF Begin, Importing, Succeed, T!Add
<1>. QED
  BY <1>1 DEF T!Next

LEMMA FinishRefines == ASSUME IInv, NEW n \in TreeNodes, Finish(n) PROVE T!Next
<1>1. n \notin finished /\ T!Children(n) \subseteq finished
  <2>1. finished = {m \in TreeNodes : m > n}
    <3>1. Importing(n) /\ pos >= Count
      BY DEF Finish
    <3>. QED
      BY <3>1, NextNode
  <2>2. n \notin finished
    BY <2>1 DEF TreeNodes
  <2>. QED
    BY <2>1, <2>2, ParentBefore, ChildrenAre
<1>2. T!Complete(n)
  BY <1>1 DEF Finish, Importing, Succeed, T!Complete
<1>. QED
  BY <1>2 DEF T!Next

\* A failing call: what is finished after it is closed under children, which
\* the invariant says, and leaves the first node out, which ends the chain.
LEMMA FailRefines ==
    ASSUME IInv, IInv', NEW n \in TreeNodes, BeginFails(n) \/ FinishFails(n)
    PROVE  T!Next
<1>1. /\ pc = "import" /\ pc' = "check" /\ retVal' = "bad"
      /\ callback' = callback
      /\ present' \subseteq present \union {n} /\ finished' \subseteq finished
  BY DEF BeginFails, FinishFails, Fail, FailureStatus, Importing
<1>2. finished' \subseteq present' /\ 0 \notin finished' /\ 0 \in TreeNodes
  BY <1>1 DEF IInv, TypeOK, Outcome, TreeNodes, Count
<1>3. \A k \in finished' : k \in TreeNodes /\ T!Children(k) \subseteq finished'
  BY ChildrenAre DEF IInv, TypeOK, ChildrenFinishedFirst
<1>4. T!GiveUp
  BY <1>1, <1>2, <1>3 DEF T!GiveUp
<1>. QED
  BY <1>4 DEF T!Next

LEMMA ServerRefines ==
    ASSUME IInv, ImportDone \/ CheckResult
    PROVE  T!Next
<1>1. CASE ImportDone
  <2>1. finished = TreeNodes /\ retVal = "good"
    BY <1>1 DEF ImportDone, IInv, TypeOK, Progress, TreeNodes, Count
  <2>2. T!Succeed
    BY <1>1, <2>1 DEF ImportDone, T!Succeed
  <2>. QED
    BY <2>2 DEF T!Next
<1>2. CASE CheckResult
  <2>1. retVal = "good" => Method \in present
    BY <1>2 DEF CheckResult, IInv, Outcome, Method, TreeNodes, Count
  <2>2. T!Offer
    BY <1>2, <2>1 DEF CheckResult, Accepted, IInv, TypeOK, T!Offer
  <2>. QED
    BY <2>2 DEF T!Next
<1>. QED
  BY <1>1, <1>2

LEMMA StepRefines ==
    ASSUME IInv, IInv', [Next]_vars
    PROVE  [T!Next]_(T!treeVars)
<1>1. CASE UNCHANGED <<pc, retVal, present, finished, callback>>
  BY <1>1 DEF T!treeVars
<1>2. ASSUME NEW x \in UInt32, Call(x)
      PROVE  UNCHANGED <<pc, retVal, present, finished, callback>>
  BY <1>2 DEF Call
<1>3. CASE UNCHANGED vars
  BY <1>1, <1>3 DEF vars
<1>. QED
  BY <1>1, <1>2, <1>3, BeginRefines, FinishRefines, FailRefines, ServerRefines
     DEF Next

\* testNS, with any of its calls failing, and what OpcUaServer::Start makes of
\* its result implement module Hierarchy: children are finished before parents,
\* only a whole tree is a success, and the method has its callback just then.
THEOREM ImplementsHierarchy == Spec => RefinesHierarchy
<1>1. Init => T!Init
  BY DEF Init, T!Init
<1>2. IInv /\ IInv' /\ [Next]_vars => [T!Next]_(T!treeVars)
  BY StepRefines
<1>. QED
  BY <1>1, <1>2, Invariance, PTL DEF Spec, T!Spec, RefinesHierarchy
=============================================================================
