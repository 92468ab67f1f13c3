-------------------------- MODULE MqAdapterProofs ---------------------------
(***************************************************************************)
(* What MqAdapter promises, for any number of adapters and names, sizes of *)
(* every kind, and messages of every priority and length.                  *)
(***************************************************************************)
EXTENDS MqAdapter, FiniteSetTheorems, SequenceTheorems, TLAPS

\* A queue holds messages of its size only.
Stored ==
    \A o \in Objects : \A i \in 1..Len(queue[o].msgs) :
        queue[o].msgs[i].len <= queue[o].size

\* What is not a message on its way into a queue fits its adapter.
BufFits == \A a \in Adapters :
    IF call[a] = "send" THEN buf[a] \in Msgs ELSE buf[a].len <= MsgSize[a]

\* No queue has two names.
OneName ==
    \A n1, n2 \in Names : named[n1] = named[n2] => named[n1] = Closed \/ n1 = n2

IInv == TypeOK /\ Stored /\ BufFits /\ OneName

\* CreateMq goes on with a name only.
Named == \A a \in Adapters : call[a] \in {"create", "reopen"} => NameOf[a] \in Names

-----------------------------------------------------------------------------
(* The kernel's insertion by priority.                                     *)

LEMMA SameCardinality == \A S : B!Cardinality(S) = Cardinality(S)
BY DEF B!Cardinality, Cardinality

LEMMA UpTo ==
    ASSUME NEW n \in Nat
    PROVE  IsFiniteSet(1..n) /\ Cardinality(1..n) = n
BY FS_Interval

LEMMA PlaceType ==
    ASSUME NEW q \in Seq(Msgs), NEW m \in Msgs
    PROVE  B!Place(q, m) \in 0..Len(q)
<1>. DEFINE S == {i \in DOMAIN q : q[i].prio >= m.prio}
<1>1. DOMAIN q = 1..Len(q) /\ Len(q) \in Nat
  OBVIOUS
<1>2. IsFiniteSet(1..Len(q)) /\ Cardinality(1..Len(q)) = Len(q)
  BY <1>1, UpTo
<1>3. S \subseteq 1..Len(q)
  BY <1>1
<1>4. IsFiniteSet(S) /\ Cardinality(S) <= Len(q) /\ Cardinality(S) \in Nat
  BY <1>2, <1>3, FS_Subset, FS_CardinalityType
<1>. QED
  BY <1>1, <1>4, SameCardinality DEF B!Place

\* The queue is one longer, and every message in it was there or is the new one.
LEMMA InsertType ==
    ASSUME NEW q \in Seq(Msgs), NEW m \in Msgs
    PROVE  /\ B!Insert(q, m) \in Seq(Msgs)
           /\ Len(B!Insert(q, m)) = Len(q) + 1
           /\ \A i \in 1..(Len(q) + 1) :
                 \/ B!Insert(q, m)[i] = m
                 \/ \E j \in 1..Len(q) : B!Insert(q, m)[i] = q[j]
<1>. DEFINE k == B!Place(q, m)
<1>1. k \in 0..Len(q) /\ Len(q) \in Nat /\ \A j \in 1..Len(q) : q[j] \in Msgs
  BY PlaceType
<1>2. ASSUME NEW i \in 1..(Len(q) + 1)
      PROVE  \/ B!Insert(q, m)[i] = m
             \/ \E j \in 1..Len(q) : B!Insert(q, m)[i] = q[j]
  <2>. HIDE DEF k
  <2>1. B!Insert(q, m)[i] = IF i <= k THEN q[i]
                            ELSE IF i = k + 1 THEN m ELSE q[i - 1]
    BY DEF B!Insert, k
  <2>2. CASE i <= k
    BY <1>1, <2>1, <2>2
  <2>3. CASE i = k + 1
    BY <1>1, <2>1, <2>3
  <2>4. CASE i > k + 1
    <3>1. i - 1 \in 1..Len(q) /\ ~(i <= k) /\ i # k + 1
      BY <1>1, <2>4
    <3>. QED
      BY <2>1, <3>1
  <2>. QED
    BY <1>1, <2>2, <2>3, <2>4
<1>3. \A i \in 1..(Len(q) + 1) : B!Insert(q, m)[i] \in Msgs
  BY <1>1, <1>2
<1>4. /\ B!Insert(q, m) \in [1..(Len(q) + 1) -> Msgs]
      /\ Len(q) + 1 \in Nat
  BY <1>1, <1>3 DEF B!Insert
<1>. QED
  BY <1>2, <1>4

\* Where all messages have one priority, as those of the gateway's requests
\* have, the queue is first in, first out (what NorthStack takes it for).
THEOREM OnePriorityIsFifo ==
    ASSUME NEW q \in Seq(Msgs), NEW m \in Msgs,
           \A i \in 1..Len(q) : q[i].prio = m.prio
    PROVE  B!Insert(q, m) = Append(q, m)
<1>1. Len(q) \in Nat /\ DOMAIN q = 1..Len(q) /\ m.prio \in Nat
  BY MqAdapterAssumption
<1>2. B!Place(q, m) = Len(q)
  <2>1. {i \in DOMAIN q : q[i].prio >= m.prio} = 1..Len(q)
    BY <1>1
  <2>2. Cardinality(1..Len(q)) = Len(q)
    BY <1>1, UpTo
  <2>. QED
    BY <2>1, <2>2, SameCardinality DEF B!Place
<1>3. B!Insert(q, m) = [i \in 1..(Len(q) + 1) |-> IF i <= Len(q) THEN q[i] ELSE m]
  BY <1>1, <1>2 DEF B!Insert
<1>4. B!Insert(q, m) \in Seq(Msgs) /\ Len(B!Insert(q, m)) = Len(q) + 1
  BY InsertType
<1>5. \A i \in 1..(Len(q) + 1) : B!Insert(q, m)[i] = Append(q, m)[i]
  BY <1>1, <1>3
<1>6. Append(q, m) \in Seq(Msgs) /\ Len(Append(q, m)) = Len(q) + 1
  OBVIOUS
<1>. QED
  BY <1>4, <1>5, <1>6, SeqEqual

-----------------------------------------------------------------------------
(* The invariant is inductive.                                             *)

LEMMA InitIInv == Init => IInv
<1>. SUFFICES ASSUME Init PROVE IInv
  OBVIOUS
<1>1. <<>> \in Seq(Msgs) /\ Len(<<>>) = 0
  OBVIOUS
<1>2. TypeOK
  BY <1>1 DEF Init, TypeOK, Queues, Calls, NoMsg
<1>3. Stored
  BY <1>1 DEF Init, Stored
<1>4. BufFits
  <2>1. \A a \in Adapters : MsgSize[a] \in Nat
    BY MqAdapterAssumption
  <2>. QED
    BY <2>1 DEF Init, BufFits, NoMsg
<1>5. OneName
  BY DEF Init, OneName
<1>. QED
  BY <1>2, <1>3, <1>4, <1>5 DEF IInv

\* Steps that leave the names and the queues alone.
LEMMA LocalIInv ==
    ASSUME IInv, UNCHANGED <<named, queue>>,
           NEW a \in Adapters, NEW c \in Calls, call' = [call EXCEPT ![a] = c],
           \/ id' = id
           \/ id' = [id EXCEPT ![a] = Closed] /\ c \notin {"send", "recv"}
           \/ id' = [id EXCEPT ![a] = named[NameOf[a]]] /\ c = "idle" /\ NameOf[a] \in Names,
           c \in {"send", "recv"} => IsOpen(a),
           IF c = "send" THEN \E m \in Msgs : buf' = [buf EXCEPT ![a] = m]
           ELSE \/ buf' = buf /\ call[a] # "send"
                \/ buf' = [buf EXCEPT ![a] = NoMsg],
           waits' \subseteq Adapters
    PROVE  IInv'
<1>. USE DEF IInv
<1>1. id' \in [Adapters -> Objects \union {Closed}] /\ call' \in [Adapters -> Calls]
  BY DEF TypeOK
<1>2. \A b \in Adapters : call'[b] \in {"send", "recv"} => id'[b] # Closed
  BY DEF TypeOK, IsOpen
<1>3. buf' \in [Adapters -> Msgs \union {NoMsg}]
  BY DEF TypeOK
<1>4. TypeOK'
  BY <1>1, <1>2, <1>3 DEF TypeOK, IsOpen
<1>5. BufFits'
  <2>1. MsgSize[a] \in Nat /\ NoMsg.len = 0
    BY MqAdapterAssumption DEF NoMsg
  <2>2. ASSUME NEW b \in Adapters, b # a
        PROVE  call'[b] = call[b] /\ buf'[b] = buf[b]
    BY <2>2 DEF TypeOK
  <2>3. CASE c = "send"
    <3>1. call'[a] = "send" /\ buf'[a] \in Msgs
      BY <2>3 DEF TypeOK
    <3>. QED
      BY <2>2, <3>1 DEF BufFits
  <2>4. CASE c # "send"
    <3>1. /\ call'[a] # "send"
          /\ \/ buf'[a] = buf[a] /\ call[a] # "send"
             \/ buf'[a] = NoMsg
      BY <2>4 DEF TypeOK
    <3>2. buf'[a].len <= MsgSize[a]
      BY <2>1, <3>1 DEF BufFits
    <3>. QED
      BY <2>2, <3>1, <3>2 DEF BufFits
  <2>. QED
    BY <2>3, <2>4
<1>6. Stored' /\ OneName'
  BY DEF Stored, OneName
<1>. QED
  BY <1>4, <1>5, <1>6

LEMMA CreateNewIIInv ==
    ASSUME IInv, NEW a \in Adapters, NEW o \in Objects, CreateNew(a, o),
           NameOf[a] \in Names
    PROVE  IInv'
<1>. USE DEF IInv, CreateNew, Step, SetId
<1>1. /\ Attr(a) \in Queues /\ Attr(a).msgs = <<>> /\ Len(Attr(a).msgs) = 0
      /\ Attr(a).max \in Nat
  BY MqAdapterAssumption DEF Attr, Queues
<1>2. queue' \in [Objects -> Queues] /\ queue'[o] = Attr(a)
      /\ \A p \in Objects : p # o => queue'[p] = queue[p]
  BY <1>1 DEF TypeOK
<1>3. /\ named' \in [Names -> Objects \union {Closed}]
      /\ id' \in [Adapters -> Objects \union {Closed}]
      /\ call' \in [Adapters -> Calls] /\ waits' \subseteq Adapters
  BY DEF TypeOK, Calls
<1>4. \A b \in Adapters : call'[b] \in {"send", "recv"} => id'[b] # Closed
  BY DEF TypeOK, IsOpen
<1>5. \A p \in Objects : Len(queue'[p].msgs) <= queue'[p].max
  BY <1>1, <1>2 DEF TypeOK
<1>6. TypeOK'
  BY <1>2, <1>3, <1>4, <1>5 DEF TypeOK, IsOpen
<1>7. Stored'
  BY <1>1, <1>2 DEF Stored
<1>8. BufFits'
  BY DEF BufFits, TypeOK
<1>9. OneName'
  BY MqAdapterAssumption DEF OneName, Unused, TypeOK
<1>. QED
  BY <1>6, <1>7, <1>8, <1>9

\* Changing the messages of one queue, to others that it may hold.
LEMMA MsgsIInv ==
    ASSUME IInv, NEW a \in Adapters, Step(a, call[a], "idle"),
           NEW q \in Seq(Msgs), NEW m \in Msgs \union {NoMsg},
           IsOpen(a), Len(q) <= queue[id[a]].max,
           \A i \in 1..Len(q) : q[i].len <= queue[id[a]].size,
           queue' = [queue EXCEPT ![id[a]].msgs = q],
           buf' = [buf EXCEPT ![a] = m], m.len <= MsgSize[a],
           UNCHANGED <<named, id, waits>>
    PROVE  IInv'
<1>. DEFINE o == id[a]
<1>. USE DEF IInv, Step
<1>1. o \in Objects
  BY DEF TypeOK, IsOpen
<1>2. /\ queue' \in [Objects -> Queues]
      /\ queue'[o].msgs = q /\ queue'[o].max = queue[o].max
      /\ queue'[o].size = queue[o].size
      /\ \A p \in Objects : p # o => queue'[p] = queue[p]
  BY <1>1 DEF TypeOK, Queues
<1>3. /\ call' \in [Adapters -> Calls]
      /\ \A b \in Adapters : call'[b] \in {"send", "recv"} => id'[b] # Closed
      /\ buf' \in [Adapters -> Msgs \union {NoMsg}]
  BY DEF TypeOK, IsOpen, Calls
<1>4. \A p \in Objects : Len(queue'[p].msgs) <= queue'[p].max
  BY <1>1, <1>2 DEF TypeOK
<1>5. TypeOK'
  BY <1>2, <1>3, <1>4 DEF TypeOK, IsOpen
<1>6. Stored'
  BY <1>1, <1>2 DEF Stored
<1>7. BufFits' /\ OneName'
  BY DEF BufFits, OneName, TypeOK
<1>. QED
  BY <1>5, <1>6, <1>7

LEMMA SentIInv ==
    ASSUME IInv, NEW a \in Adapters, Sent(a)
    PROVE  IInv'
<1>. DEFINE q == queue[id[a]].msgs
            r == B!Insert(q, buf[a])
<1>. USE DEF IInv
<1>1. IsOpen(a) /\ id[a] \in Objects /\ queue[id[a]] \in Queues
  BY DEF Sent, Step, TypeOK, IsOpen
<1>2. buf[a] \in Msgs /\ NoMsg.len <= MsgSize[a]
  BY MqAdapterAssumption DEF Sent, Step, BufFits, NoMsg
<1>3. /\ q \in Seq(Msgs) /\ Len(q) < queue[id[a]].max
      /\ Len(q) \in Nat /\ queue[id[a]].max \in Nat
      /\ \A i \in 1..Len(q) : q[i].len <= queue[id[a]].size
      /\ buf[a].len <= queue[id[a]].size
  BY <1>1 DEF Sent, HasRoom, Fits, Queues, Stored
<1>4. /\ r \in Seq(Msgs) /\ Len(r) = Len(q) + 1
      /\ \A i \in 1..Len(r) : r[i].len <= queue[id[a]].size
  <2>. HIDE DEF q
  <2>1. /\ r \in Seq(Msgs) /\ Len(r) = Len(q) + 1
        /\ \A i \in 1..(Len(q) + 1) :
              r[i] = buf[a] \/ \E j \in 1..Len(q) : r[i] = q[j]
    BY <1>2, <1>3, InsertType
  <2>. HIDE DEF r
  <2>. QED
    BY <1>3, <2>1
<1>5. /\ queue' = [queue EXCEPT ![id[a]].msgs = r]
      /\ buf' = [buf EXCEPT ![a] = NoMsg] /\ UNCHANGED <<named, id, waits>>
      /\ Step(a, call[a], "idle")
  BY DEF Sent, SetBuf, Step
<1>6. Len(r) <= queue[id[a]].max
  BY <1>3, <1>4
<1>. HIDE DEF q, r, IInv
<1>. QED
  BY <1>1, <1>2, <1>4, <1>5, <1>6, MsgsIInv

LEMMA ReceivedIInv ==
    ASSUME IInv, NEW a \in Adapters, Received(a)
    PROVE  IInv'
<1>. DEFINE q == queue[id[a]].msgs
<1>. USE DEF IInv
<1>1. IsOpen(a) /\ id[a] \in Objects /\ queue[id[a]] \in Queues
  BY DEF Received, Step, TypeOK, IsOpen
<1>2. /\ q \in Seq(Msgs) /\ q # <<>> /\ Len(q) \in Nat \ {0}
      /\ queue[id[a]].max \in Nat /\ queue[id[a]].size \in Nat
      /\ Len(q) <= queue[id[a]].max
      /\ \A i \in 1..Len(q) : q[i].len <= queue[id[a]].size
  BY <1>1 DEF Received, Queues, Stored, TypeOK
<1>3. /\ Head(q) \in Msgs /\ Tail(q) \in Seq(Msgs) /\ Len(Tail(q)) = Len(q) - 1
      /\ Head(q) = q[1] /\ \A i \in 1..Len(Tail(q)) : Tail(q)[i] = q[i + 1]
  BY <1>2
<1>4. Head(q).len <= MsgSize[a]
  <2>1. queue[id[a]].size <= MsgSize[a] /\ MsgSize[a] \in Nat
    BY MqAdapterAssumption DEF Received, RecvSize
  <2>2. q[1].len <= queue[id[a]].size /\ q[1].len \in Nat
    BY <1>2, <1>3, MqAdapterAssumption
  <2>. QED
    BY <1>2, <1>3, <2>1, <2>2
<1>5. \A i \in 1..Len(Tail(q)) : Tail(q)[i].len <= queue[id[a]].size
  BY <1>2, <1>3
<1>6. /\ queue' = [queue EXCEPT ![id[a]].msgs = Tail(q)]
      /\ buf' = [buf EXCEPT ![a] = Head(q)] /\ UNCHANGED <<named, id, waits>>
      /\ Step(a, call[a], "idle")
  BY DEF Received, SetBuf, Step
<1>7. Len(Tail(q)) <= queue[id[a]].max
  BY <1>2, <1>3
<1>. HIDE DEF q, IInv
<1>. QED
  BY <1>1, <1>3, <1>4, <1>5, <1>6, <1>7, MsgsIInv

LEMMA UnlinkIInv ==
    ASSUME IInv, NEW a \in Adapters, DeleteMq(a) \/ Destroy(a)
    PROVE  IInv'
<1>. USE DEF IInv, Step, SetId, SetBuf
<1>1. /\ named' \in [Names -> Objects \union {Closed}]
      /\ \A n \in Names : named'[n] = named[n] \/ named'[n] = Closed
  BY DEF DeleteMq, Destroy, Unlink, TypeOK
<1>2. /\ id' \in [Adapters -> Objects \union {Closed}]
      /\ call' \in [Adapters -> Calls] /\ waits' \subseteq Adapters
      /\ buf' = [buf EXCEPT ![a] = NoMsg] /\ queue' = queue
      /\ \A b \in Adapters : call'[b] \in {"send", "recv"} =>
             id'[b] # Closed /\ b # a /\ call'[b] = call[b]
  BY DEF DeleteMq, Destroy, TypeOK, IsOpen, Calls
<1>3. TypeOK'
  BY <1>1, <1>2 DEF TypeOK, IsOpen
<1>4. Stored' /\ OneName'
  BY <1>1, <1>2 DEF Stored, OneName
<1>5. BufFits'
  <2>1. NoMsg.len <= MsgSize[a]
    BY MqAdapterAssumption DEF NoMsg
  <2>2. call'[a] # "send" /\ \A b \in Adapters : b # a => call'[b] = call[b]
    BY DEF DeleteMq, Destroy, TypeOK
  <2>. QED
    BY <1>2, <2>1, <2>2 DEF BufFits, TypeOK
<1>. QED
  BY <1>3, <1>4, <1>5

LEMMA NamedStep ==
    ASSUME TypeOK, Named, [Next]_vars
    PROVE  Named'
<1>. SUFFICES ASSUME NEW b \in Adapters, call'[b] \in {"create", "reopen"}
              PROVE  NameOf[b] \in Names
  BY DEF Named
<1>. USE DEF Step, TypeOK, Named
<1>1. CASE UNCHANGED vars
  BY <1>1 DEF vars
<1>2. ASSUME NEW a \in Adapters,
             \/ Construct(a) \/ CreateMq(a) \/ MqRecv(a)
             \/ \E m \in Msgs : MqSend(a, m)
             \/ DeleteMq(a) \/ Destroy(a) \/ Exit(a)
      PROVE  NameOf[b] \in Names
  BY <1>2, MqAdapterAssumption
     DEF Construct, CreateMq, MqRecv, MqSend, DeleteMq, Destroy, Exit
<1>3. ASSUME NEW a \in Adapters, Kernel(a)
      PROVE  NameOf[b] \in Names
  BY <1>3 DEF Kernel, CreateNew, CreateExists, Reopen, OpenFails,
              Sent, NotSent, Received, NotReceived
<1>. QED
  BY <1>1, <1>2, <1>3 DEF Next

LEMMA WaitsStep ==
    ASSUME TypeOK, [Next]_vars
    PROVE  waits' \subseteq Adapters
<1>1. ASSUME NEW a \in Adapters, NEW o, NEW w, SetId(a, o, w)
      PROVE  waits' \subseteq Adapters
  BY <1>1 DEF SetId, TypeOK
<1>2. CASE UNCHANGED waits
  BY <1>2 DEF TypeOK
<1>. QED
  BY <1>1, <1>2
  DEF Next, vars, Kernel, Construct, CreateMq, MqRecv, MqSend, DeleteMq, Destroy,
      Exit, CreateNew, CreateExists, Reopen, OpenFails, Sent, NotSent, Received,
      NotReceived

LEMMA StepIInv ==
    ASSUME IInv, Named, [Next]_vars
    PROVE  IInv'
<1>0. waits' \subseteq Adapters
  BY WaitsStep DEF IInv
<1>1. CASE UNCHANGED vars
  BY <1>1 DEF vars, IInv, TypeOK, Stored, BufFits, OneName, IsOpen
<1>2. ASSUME NEW a \in Adapters,
             Construct(a) \/ CreateMq(a) \/ MqRecv(a) \/ Exit(a)
      PROVE  IInv'
  <2>1. CASE Construct(a)
    BY <2>1, <1>0, LocalIInv DEF Construct, Step, Calls
  <2>2. CASE CreateMq(a)
    BY <2>2, <1>0, LocalIInv DEF CreateMq, Step, SetBuf, Calls
  <2>3. CASE MqRecv(a)
    BY <2>3, <1>0, LocalIInv DEF MqRecv, Step, SetBuf, CanCall, Calls
  <2>4. CASE Exit(a)
    BY <2>4, <1>0, LocalIInv DEF Exit, SetId, SetBuf, Calls
  <2>. QED
    BY <1>2, <2>1, <2>2, <2>3, <2>4
<1>3. ASSUME NEW a \in Adapters, NEW m \in Msgs, MqSend(a, m)
      PROVE  IInv'
  BY <1>3, <1>0, LocalIInv DEF MqSend, Step, SetBuf, CanCall, Calls
<1>4. ASSUME NEW a \in Adapters, DeleteMq(a) \/ Destroy(a)
      PROVE  IInv'
  BY <1>4, UnlinkIInv
<1>5. ASSUME NEW a \in Adapters, Kernel(a)
      PROVE  IInv'
  <2>1. ASSUME NEW o \in Objects, CreateNew(a, o)
        PROVE  IInv'
    <3>1. NameOf[a] \in Names
      BY <2>1 DEF CreateNew, Step, Named
    <3>. QED
      BY <2>1, <3>1, CreateNewIIInv
  <2>2. CASE CreateExists(a)
    BY <2>2, <1>0, LocalIInv DEF CreateExists, Step, SetId, Calls
  <2>3. CASE Reopen(a)
    <3>1. NameOf[a] \in Names
      BY <2>3 DEF Reopen, Step, Named
    <3>. QED
      BY <2>3, <3>1, <1>0, LocalIInv DEF Reopen, Step, SetId, Calls
  <2>4. CASE OpenFails(a)
    BY <2>4, <1>0, LocalIInv DEF OpenFails, Step, SetId, Calls
  <2>5. CASE NotSent(a)
    BY <2>5, <1>0, LocalIInv DEF NotSent, Step, SetBuf, Calls
  <2>6. CASE NotReceived(a)
    BY <2>6, <1>0, LocalIInv DEF NotReceived, Step, Calls
  <2>. QED
    BY <1>5, <2>1, <2>2, <2>3, <2>4, <2>5, <2>6, SentIInv, ReceivedIInv DEF Kernel
<1>. QED
  BY <1>1, <1>2, <1>3, <1>4, <1>5 DEF Next

\* The strengthened invariant holds of every reachable state.
THEOREM Invariance == Spec => [](IInv /\ Named)
<1>1. Init => Named
  BY DEF Init, Named
<1>2. IInv => TypeOK
  BY DEF IInv
<1>3. IInv /\ Named /\ [Next]_vars => IInv' /\ Named'
  BY <1>2, StepIInv, NamedStep
<1>. QED
  BY <1>1, <1>3, InitIInv, PTL DEF Spec

\* Descriptors, queues and buffers keep their types; no queue holds more than
\* it was created for; and no call is made through an adapter that is not open.
THEOREM TypeCorrect == Spec => []TypeOK
<1>1. IInv => TypeOK
  BY DEF IInv
<1>. QED
  BY <1>1, Invariance, PTL

\* MqRecv never stores more than its caller has room for, whatever sizes other
\* processes create the queue with.
THEOREM ReceivedMessagesFit == Spec => []ReceivedFits
<1>1. IInv => ReceivedFits
  BY DEF IInv, BufFits, ReceivedFits
<1>. QED
  BY <1>1, Invariance, PTL

-----------------------------------------------------------------------------
(* Messages of unequal priority.                                           *)

\* Nothing of lower priority is ahead.
Ordered(q) == \A i, j \in 1..Len(q) : i <= j => q[i].prio >= q[j].prio

\* In an ordered queue the new message goes behind exactly those that have its
\* priority or a higher one.
LEMMA PlaceSplits ==
    ASSUME NEW q \in Seq(Msgs), NEW m \in Msgs, Ordered(q), NEW i \in 1..Len(q)
    PROVE  i <= B!Place(q, m) <=> q[i].prio >= m.prio
<1>. DEFINE S == {j \in DOMAIN q : q[j].prio >= m.prio}
<1>1. /\ DOMAIN q = 1..Len(q) /\ Len(q) \in Nat /\ m.prio \in Nat
      /\ \A j \in 1..Len(q) : q[j].prio \in Nat
  BY MqAdapterAssumption
<1>2. B!Place(q, m) = Cardinality(S) /\ B!Place(q, m) \in Nat
  <2>1. B!Place(q, m) = Cardinality(S)
    BY SameCardinality DEF B!Place
  <2>2. B!Place(q, m) \in Nat
    BY <1>1, PlaceType
  <2>. QED
    BY <2>1, <2>2
<1>3. IsFiniteSet(S)
  <2>1. IsFiniteSet(1..Len(q)) /\ S \subseteq 1..Len(q)
    BY <1>1, UpTo
  <2>. QED
    BY <2>1, FS_Subset
<1>4. CASE q[i].prio >= m.prio
  <2>1. \A j \in 1..i : j \in 1..Len(q) /\ q[j].prio >= q[i].prio
    BY <1>1 DEF Ordered
  <2>2. 1..i \subseteq S
    BY <1>1, <1>4, <2>1
  <2>3. Cardinality(1..i) = i
    BY <1>1, UpTo
  <2>4. Cardinality(1..i) <= Cardinality(S)
    BY <1>3, <2>2, FS_Subset
  <2>. QED
    BY <1>2, <1>4, <2>3, <2>4
<1>5. CASE ~(q[i].prio >= m.prio)
  <2>1. \A j \in S : j \in 1..Len(q) /\ q[j].prio >= m.prio /\ ~(i <= j)
    BY <1>1, <1>5 DEF Ordered
  <2>2. S \subseteq 1..(i - 1)
    BY <1>1, <2>1
  <2>3. IsFiniteSet(1..(i - 1)) /\ Cardinality(1..(i - 1)) = i - 1
    BY <1>1, UpTo
  <2>4. Cardinality(S) <= i - 1
    BY <2>2, <2>3, FS_Subset
  <2>. QED
    BY <1>1, <1>2, <1>5, <2>4
<1>. QED
  BY <1>4, <1>5

LEMMA InsertOrdered ==
    ASSUME NEW q \in Seq(Msgs), NEW m \in Msgs, Ordered(q)
    PROVE  Ordered(B!Insert(q, m))
<1>. DEFINE k == B!Place(q, m)
            r == B!Insert(q, m)
<1>1. /\ k \in 0..Len(q) /\ Len(q) \in Nat /\ m.prio \in Nat
      /\ \A i \in 1..Len(q) : q[i].prio \in Nat
  BY PlaceType, MqAdapterAssumption
<1>2. Len(r) = Len(q) + 1
  BY InsertType
<1>3. \A i \in 1..(Len(q) + 1) :
         r[i] = IF i <= k THEN q[i] ELSE IF i = k + 1 THEN m ELSE q[i - 1]
  BY DEF B!Insert
<1>4. \A i \in 1..Len(q) : i <= k <=> q[i].prio >= m.prio
  BY PlaceSplits
<1>. HIDE DEF k, r
<1>5. ASSUME NEW i \in 1..(Len(q) + 1), NEW j \in 1..(Len(q) + 1), i <= j
      PROVE  r[i].prio >= r[j].prio
  <2>1. CASE j <= k
    BY <1>1, <1>3, <1>5, <2>1 DEF Ordered
  <2>2. CASE j = k + 1
    <3>1. r[j] = m
      BY <1>1, <1>3, <2>2
    <3>2. CASE i = j
      BY <1>1, <3>1, <3>2
    <3>3. CASE i # j
      <4>1. i \in 1..Len(q) /\ i <= k /\ r[i] = q[i]
        BY <1>1, <1>3, <1>5, <2>2, <3>3
      <4>. QED
        BY <1>4, <3>1, <4>1
    <3>. QED
      BY <3>2, <3>3
  <2>3. CASE j > k + 1
    <3>1. j - 1 \in 1..Len(q) /\ ~(j - 1 <= k) /\ r[j] = q[j - 1]
      BY <1>1, <1>3, <2>3
    <3>2. CASE i <= k
      <4>1. i \in 1..Len(q) /\ i <= j - 1 /\ r[i] = q[i]
        BY <1>1, <1>3, <2>3, <3>2
      <4>. QED
        BY <3>1, <4>1 DEF Ordered
    <3>3. CASE i = k + 1
      <4>1. r[i] = m
        BY <1>1, <1>3, <3>3
      <4>2. ~(q[j - 1].prio >= m.prio)
        BY <1>4, <3>1
      <4>3. q[j - 1].prio \in Nat
        BY <1>1, <3>1
      <4>. QED
        BY <1>1, <3>1, <4>1, <4>2, <4>3
    <3>4. CASE i > k + 1
      <4>1. i - 1 \in 1..Len(q) /\ i - 1 <= j - 1 /\ r[i] = q[i - 1]
        BY <1>1, <1>3, <3>4, <1>5
      <4>. QED
        BY <3>1, <4>1 DEF Ordered
    <3>. QED
      BY <1>1, <3>2, <3>3, <3>4
  <2>. QED
    BY <1>1, <2>1, <2>2, <2>3
<1>. QED
  BY <1>2, <1>5 DEF Ordered, r

\* Every queue in the kernel, with a name or without.
InOrder == \A o \in Objects : Ordered(queue[o].msgs)

LEMMA StepInOrder ==
    ASSUME IInv, InOrder, [Next]_vars
    PROVE  InOrder'
<1>1. ASSUME NEW a \in Adapters, NEW q \in Seq(Msgs), IsOpen(a), Ordered(q),
             queue' = [queue EXCEPT ![id[a]].msgs = q]
      PROVE  InOrder'
  <2>1. id[a] \in Objects /\ queue \in [Objects -> Queues]
    BY <1>1 DEF IInv, TypeOK, IsOpen
  <2>2. \A o \in Objects :
           queue'[o].msgs = IF o = id[a] THEN q ELSE queue[o].msgs
    BY <1>1, <2>1 DEF Queues
  <2>. QED
    BY <1>1, <2>2 DEF InOrder
<1>2. ASSUME NEW a \in Adapters, IsOpen(a)
      PROVE  queue[id[a]].msgs \in Seq(Msgs) /\ Ordered(queue[id[a]].msgs)
  BY <1>2 DEF IInv, TypeOK, IsOpen, Queues, InOrder
<1>3. ASSUME NEW a \in Adapters, Sent(a) PROVE InOrder'
  <2>. DEFINE q == queue[id[a]].msgs
  <2>1. IsOpen(a) /\ buf[a] \in Msgs
    BY <1>3 DEF Sent, Step, IInv, TypeOK, BufFits
  <2>2. q \in Seq(Msgs) /\ Ordered(q)
    BY <1>2, <2>1
  <2>3. queue' = [queue EXCEPT ![id[a]].msgs = B!Insert(q, buf[a])]
    BY <1>3 DEF Sent
  <2>. HIDE DEF q
  <2>4. B!Insert(q, buf[a]) \in Seq(Msgs) /\ Ordered(B!Insert(q, buf[a]))
    BY <2>1, <2>2, InsertType, InsertOrdered
  <2>. QED
    BY <1>1, <2>1, <2>3, <2>4
<1>4. ASSUME NEW a \in Adapters, Received(a) PROVE InOrder'
  <2>. DEFINE q == queue[id[a]].msgs
  <2>1. IsOpen(a) /\ q # <<>> /\ queue' = [queue EXCEPT ![id[a]].msgs = Tail(q)]
    BY <1>4 DEF Received, Step, IInv, TypeOK
  <2>2. q \in Seq(Msgs) /\ Ordered(q)
    BY <1>2, <2>1
  <2>. HIDE DEF q
  <2>3. /\ Tail(q) \in Seq(Msgs) /\ Len(q) \in Nat /\ Len(Tail(q)) = Len(q) - 1
        /\ \A i \in 1..Len(Tail(q)) : Tail(q)[i] = q[i + 1]
    BY <2>1, <2>2
  <2>4. Ordered(Tail(q))
    BY <2>2, <2>3 DEF Ordered
  <2>. QED
    BY <1>1, <2>1, <2>3, <2>4
<1>5. ASSUME NEW a \in Adapters, NEW o \in Objects, CreateNew(a, o) PROVE InOrder'
  <2>1. queue \in [Objects -> Queues] /\ Attr(a).msgs = <<>> /\ Len(<<>>) = 0
    BY DEF IInv, TypeOK, Attr
  <2>2. \A p \in Objects : queue'[p].msgs = IF p = o THEN <<>> ELSE queue[p].msgs
    BY <1>5, <2>1 DEF CreateNew
  <2>3. Ordered(<<>>)
    BY <2>1 DEF Ordered
  <2>. QED
    BY <2>2, <2>3 DEF InOrder
<1>6. CASE UNCHANGED queue
  BY <1>6 DEF InOrder
<1>. QED
  BY <1>3, <1>4, <1>5, <1>6
  DEF Next, Kernel, vars, Construct, CreateMq, CreateExists, Reopen, OpenFails,
      MqSend, NotSent, MqRecv, NotReceived, DeleteMq, Destroy, Exit

\* A message is received before every message of a lower priority that is in
\* the queue with it, and within a priority in the order of sending
\* (PlaceSplits: a new one goes behind its equals).
THEOREM HighestPriorityFirst == Spec => []InOrder
<1>1. Init => InOrder
  <2>1. Len(<<>>) = 0
    OBVIOUS
  <2>. QED
    BY <2>1 DEF Init, InOrder, Ordered
<1>. QED
  BY <1>1, Invariance, StepInOrder, PTL DEF Spec

-----------------------------------------------------------------------------
(* Refinement.                                                             *)

LEMMA ViewUnchanged ==
    ASSUME named' = named,
           \A n \in Names : named[n] # Closed =>
               /\ queue'[named[n]].max = queue[named[n]].max
               /\ queue'[named[n]].msgs = queue[named[n]].msgs
    PROVE  UNCHANGED B!boxVars
<1>1. SizeOf' = SizeOf
  BY DEF SizeOf
<1>2. BoxOf' = BoxOf
  BY DEF BoxOf
<1>. QED
  BY <1>1, <1>2 DEF B!boxVars

\* Creating a queue shows under its name only, and shows it empty.
LEMMA CreateRefines ==
    ASSUME IInv, NEW a \in Adapters, NEW o \in Objects, CreateNew(a, o),
           NameOf[a] \in Names
    PROVE  B!Next
<1>. DEFINE n == NameOf[a]
<1>. USE DEF CreateNew
<1>1. /\ named[n] = Closed /\ named'[n] = o /\ o # Closed
      /\ queue'[o] = Attr(a)
      /\ \A k \in Names : k # n => named'[k] = named[k] /\ named[k] # o
      /\ \A p \in Objects : p # o => queue'[p] = queue[p]
  BY MqAdapterAssumption DEF IInv, TypeOK, Unused
<1>2. \A k \in Names : k # n /\ named[k] # Closed => queue'[named[k]] = queue[named[k]]
  BY <1>1 DEF IInv, TypeOK
<1>3. SizeOf[n] = 0 /\ SizeOf' = [SizeOf EXCEPT ![n] = MsgNum[a]]
  <2>1. SizeOf'[n] = MsgNum[a] /\ \A k \in Names : k # n => SizeOf'[k] = SizeOf[k]
    BY <1>1, <1>2 DEF SizeOf, Attr
  <2>. QED
    BY <1>1, <2>1 DEF SizeOf
<1>4. BoxOf' = BoxOf
  <2>1. \A k \in Names : BoxOf'[k] = BoxOf[k]
    BY <1>1, <1>2 DEF BoxOf, Attr
  <2>. QED
    BY <2>1 DEF BoxOf
<1>5. B!Create(n, MsgNum[a])
  BY <1>3, <1>4 DEF B!Create
<1>. QED
  BY <1>5 DEF B!Next

\* Changing the messages of a queue shows under the one name it has, if any.
LEMMA MsgsView ==
    ASSUME IInv, NEW o \in Objects, NEW q, named' = named,
           queue' = [queue EXCEPT ![o].msgs = q],
           NEW n \in Names, named[n] = o
    PROVE  /\ SizeOf' = SizeOf
           /\ BoxOf' = [BoxOf EXCEPT ![n] = q]
           /\ SizeOf[n] = queue[o].max /\ BoxOf[n] = queue[o].msgs
<1>1. /\ queue'[o].msgs = q /\ queue'[o].max = queue[o].max
      /\ \A p \in Objects : p # o => queue'[p] = queue[p]
      /\ o # Closed
  BY MqAdapterAssumption DEF IInv, TypeOK, Queues
<1>2. \A k \in Names : k # n => named[k] # o
  BY <1>1 DEF IInv, OneName
<1>3. \A k \in Names : SizeOf'[k] = SizeOf[k]
  BY <1>1, <1>2 DEF SizeOf, IInv, TypeOK
<1>4. \A k \in Names : k # n => BoxOf'[k] = BoxOf[k]
  BY <1>1, <1>2 DEF BoxOf, IInv, TypeOK
<1>5. BoxOf'[n] = q /\ BoxOf[n] = queue[o].msgs /\ SizeOf[n] = queue[o].max
  BY <1>1 DEF BoxOf, SizeOf
<1>6. SizeOf' = SizeOf
  BY <1>3 DEF SizeOf
<1>7. BoxOf' = [BoxOf EXCEPT ![n] = q]
  BY <1>4, <1>5 DEF BoxOf
<1>. QED
  BY <1>5, <1>6, <1>7

LEMMA MsgsHidden ==
    ASSUME IInv, NEW o \in Objects, NEW q, named' = named,
           queue' = [queue EXCEPT ![o].msgs = q],
           \A n \in Names : named[n] # o
    PROVE  UNCHANGED B!boxVars
<1>1. \A p \in Objects : p # o => queue'[p] = queue[p]
  BY DEF IInv, TypeOK
<1>2. \A n \in Names : named[n] # Closed => queue'[named[n]] = queue[named[n]]
  BY <1>1 DEF IInv, TypeOK
<1>. QED
  BY <1>2, ViewUnchanged

\* A message goes into, or comes out of, the queue that a name refers to.
LEMMA SentView ==
    ASSUME IInv, NEW a \in Adapters, Sent(a), NEW n \in Names, named[n] = id[a]
    PROVE  /\ SizeOf' = SizeOf /\ Len(BoxOf[n]) < SizeOf[n] /\ buf[a] \in Msgs
           /\ BoxOf' = [BoxOf EXCEPT ![n] = B!Insert(BoxOf[n], buf[a])]
<1>. DEFINE o == id[a]
            q == B!Insert(queue[o].msgs, buf[a])
<1>1. /\ o \in Objects /\ buf[a] \in Msgs
      /\ Len(queue[o].msgs) < queue[o].max
      /\ queue' = [queue EXCEPT ![o].msgs = q] /\ named' = named /\ named[n] = o
  BY DEF Sent, Step, HasRoom, IInv, TypeOK, BufFits, IsOpen
<1>2. /\ SizeOf' = SizeOf /\ BoxOf' = [BoxOf EXCEPT ![n] = q]
      /\ SizeOf[n] = queue[o].max /\ BoxOf[n] = queue[o].msgs
  <2>. HIDE DEF q, o
  <2>. QED
    BY <1>1, MsgsView
<1>. QED
  BY <1>1, <1>2

LEMMA ReceivedView ==
    ASSUME IInv, NEW a \in Adapters, Received(a), NEW n \in Names, named[n] = id[a]
    PROVE  /\ SizeOf' = SizeOf /\ BoxOf[n] = queue[id[a]].msgs
           /\ BoxOf' = [BoxOf EXCEPT ![n] = Tail(BoxOf[n])]
<1>. DEFINE o == id[a]
            q == Tail(queue[o].msgs)
<1>1. /\ o \in Objects
      /\ queue' = [queue EXCEPT ![o].msgs = q] /\ named' = named /\ named[n] = o
  BY DEF Received, Step, IInv, TypeOK, IsOpen
<1>2. /\ SizeOf' = SizeOf /\ BoxOf' = [BoxOf EXCEPT ![n] = q]
      /\ BoxOf[n] = queue[o].msgs
  <2>. HIDE DEF q, o
  <2>. QED
    BY <1>1, MsgsView
<1>. QED
  BY <1>1, <1>2

LEMMA SentRefines ==
    ASSUME IInv, NEW a \in Adapters, Sent(a)
    PROVE  [B!Next]_(B!boxVars)
<1>1. ASSUME NEW n \in Names, named[n] = id[a]
      PROVE  B!Next
  <2>1. B!Put(n, buf[a]) /\ buf[a] \in Msgs
    BY <1>1, SentView DEF B!Put
  <2>. QED
    BY <2>1 DEF B!Next
<1>2. CASE \A n \in Names : named[n] # id[a]
  <2>. DEFINE o == id[a]
              q == B!Insert(queue[o].msgs, buf[a])
  <2>1. /\ o \in Objects /\ queue' = [queue EXCEPT ![o].msgs = q]
        /\ named' = named /\ \A n \in Names : named[n] # o
    BY <1>2 DEF Sent, Step, IInv, TypeOK, IsOpen
  <2>. HIDE DEF q, o
  <2>. QED
    BY <2>1, MsgsHidden
<1>. QED
  BY <1>1, <1>2

LEMMA ReceivedRefines ==
    ASSUME IInv, NEW a \in Adapters, Received(a)
    PROVE  [B!Next]_(B!boxVars)
<1>1. ASSUME NEW n \in Names, named[n] = id[a]
      PROVE  B!Next
  <2>1. BoxOf[n] # <<>>
    BY <1>1, ReceivedView DEF Received
  <2>2. B!Take(n)
    BY <1>1, <2>1, ReceivedView DEF B!Take
  <2>. QED
    BY <2>2 DEF B!Next
<1>2. CASE \A n \in Names : named[n] # id[a]
  <2>. DEFINE o == id[a]
              q == Tail(queue[o].msgs)
  <2>1. /\ o \in Objects /\ queue' = [queue EXCEPT ![o].msgs = q]
        /\ named' = named /\ \A n \in Names : named[n] # o
    BY <1>2 DEF Received, Step, IInv, TypeOK, IsOpen
  <2>. HIDE DEF q, o
  <2>. QED
    BY <2>1, MsgsHidden
<1>. QED
  BY <1>1, <1>2

LEMMA UnlinkRefines ==
    ASSUME IInv, NEW a \in Adapters, DeleteMq(a) \/ Destroy(a)
    PROVE  [B!Next]_(B!boxVars)
<1>. DEFINE n == NameOf[a]
<1>1. Unlink(a) /\ queue' = queue
  BY DEF DeleteMq, Destroy
<1>2. CASE n = NoName
  BY <1>1, <1>2, ViewUnchanged DEF Unlink
<1>3. CASE n # NoName
  <2>1. n \in Names /\ named' = [named EXCEPT ![n] = Closed]
    BY <1>1, <1>3, MqAdapterAssumption DEF Unlink
  <2>2. SizeOf' = [SizeOf EXCEPT ![n] = 0] /\ BoxOf' = [BoxOf EXCEPT ![n] = <<>>]
    BY <1>1, <2>1 DEF SizeOf, BoxOf, IInv, TypeOK
  <2>3. B!Remove(n)
    BY <2>2 DEF B!Remove
  <2>. QED
    BY <2>1, <2>3 DEF B!Next
<1>. QED
  BY <1>2, <1>3

LEMMA StepRefines ==
    ASSUME IInv, Named, [Next]_vars
    PROVE  [B!Next]_(B!boxVars)
<1>1. CASE UNCHANGED <<named, queue>>
  BY <1>1, ViewUnchanged
<1>2. ASSUME NEW a \in Adapters, NEW o \in Objects, CreateNew(a, o)
      PROVE  B!Next
  <2>1. NameOf[a] \in Names
    BY <1>2 DEF CreateNew, Step, Named
  <2>. QED
    BY <1>2, <2>1, CreateRefines
<1>3. ASSUME NEW a \in Adapters,
             \/ Construct(a) \/ CreateMq(a) \/ MqRecv(a) \/ Exit(a)
             \/ \E m \in Msgs : MqSend(a, m)
             \/ CreateExists(a) \/ Reopen(a) \/ OpenFails(a)
             \/ NotSent(a) \/ NotReceived(a)
      PROVE  UNCHANGED <<named, queue>>
  BY <1>3 DEF Construct, CreateMq, MqRecv, Exit, MqSend, CreateExists, Reopen,
              OpenFails, NotSent, NotReceived
<1>4. CASE UNCHANGED vars
  BY <1>1, <1>4 DEF vars
<1>. QED
  BY <1>1, <1>2, <1>3, <1>4, SentRefines, ReceivedRefines, UnlinkRefines
     DEF Next, Kernel

\* The adapters of a name share one bounded queue in order of priority,
\* however they create, open, delete and lose it (module Mailbox).
THEOREM ImplementsMailbox == Spec => RefinesMailbox
<1>1. Init => B!Init
  BY DEF Init, B!Init, SizeOf, BoxOf
<1>2. IInv /\ Named /\ [Next]_vars => [B!Next]_(B!boxVars)
  BY StepRefines
<1>. QED
  BY <1>1, <1>2, Invariance, PTL DEF Spec, B!Spec, RefinesMailbox

-----------------------------------------------------------------------------
(* Where a queue comes from.                                               *)

\* Some adapter of the name asks for such sizes.
AskedFor(q, n) == \E b \in Adapters :
    NameOf[b] = n /\ q.max = MsgNum[b] /\ q.size = MsgSize[b]

\* So it is for the queue of a name, and for the one an adapter has open,
\* whether or not that still has its name.
Provenance ==
    /\ \A n \in Names : named[n] # Closed => AskedFor(queue[named[n]], n)
    /\ \A a \in Adapters : IsOpen(a) => AskedFor(queue[id[a]], NameOf[a])

\* Steps that give no name to a queue and open none but by its name.
LEMMA KeptProvenance ==
    ASSUME TypeOK, Provenance, NEW a \in Adapters,
           \A o \in Objects : /\ queue'[o].max = queue[o].max
                             /\ queue'[o].size = queue[o].size,
           \A n \in Names : named'[n] = named[n] \/ named'[n] = Closed,
           \/ id' = id
           \/ id' = [id EXCEPT ![a] = Closed]
           \/ id' = [id EXCEPT ![a] = named[NameOf[a]]] /\ NameOf[a] \in Names
    PROVE  Provenance'
<1>1. ASSUME NEW o \in Objects, NEW n, AskedFor(queue[o], n)
      PROVE  AskedFor(queue'[o], n)
  BY <1>1 DEF AskedFor
<1>2. ASSUME NEW n \in Names, named'[n] # Closed
      PROVE  AskedFor(queue'[named'[n]], n)
  <2>1. named'[n] = named[n] /\ named[n] \in Objects /\ AskedFor(queue[named[n]], n)
    BY <1>2 DEF Provenance, TypeOK
  <2>. QED
    BY <1>1, <2>1
<1>3. ASSUME NEW b \in Adapters, id'[b] # Closed
      PROVE  AskedFor(queue'[id'[b]], NameOf[b])
  <2>1. \/ id'[b] = id[b] \/ id'[b] = Closed
        \/ b = a /\ id'[b] = named[NameOf[b]] /\ NameOf[b] \in Names
    BY DEF TypeOK
  <2>2. id'[b] \in Objects /\ AskedFor(queue[id'[b]], NameOf[b])
    BY <1>3, <2>1 DEF Provenance, TypeOK, IsOpen
  <2>. QED
    BY <1>1, <2>2
<1>. QED
  BY <1>2, <1>3 DEF Provenance, IsOpen

\* A new queue is one that nobody has open and no name refers to.
LEMMA CreateProvenance ==
    ASSUME TypeOK, Provenance, NEW a \in Adapters, NEW o \in Objects,
           CreateNew(a, o), NameOf[a] \in Names
    PROVE  Provenance'
<1>. USE DEF CreateNew, SetId
<1>1. /\ queue'[o] = Attr(a) /\ \A p \in Objects : p # o => queue'[p] = queue[p]
      /\ named'[NameOf[a]] = o /\ id'[a] = o
      /\ \A n \in Names : n # NameOf[a] => named'[n] = named[n] /\ named[n] # o
      /\ \A b \in Adapters : b # a => id'[b] = id[b] /\ id[b] # o
  BY DEF TypeOK, Unused
<1>2. AskedFor(queue'[o], NameOf[a])
  BY <1>1 DEF AskedFor, Attr
<1>3. ASSUME NEW n \in Names, named'[n] # Closed
      PROVE  AskedFor(queue'[named'[n]], n)
  <2>1. CASE n # NameOf[a]
    BY <1>1, <1>3, <2>1 DEF Provenance, TypeOK
  <2>. QED
    BY <1>1, <1>2, <2>1
<1>4. ASSUME NEW b \in Adapters, id'[b] # Closed
      PROVE  AskedFor(queue'[id'[b]], NameOf[b])
  <2>1. CASE b # a
    BY <1>1, <1>4, <2>1 DEF Provenance, TypeOK, IsOpen
  <2>. QED
    BY <1>1, <1>2, <2>1
<1>. QED
  BY <1>3, <1>4 DEF Provenance, IsOpen

LEMMA StepProvenance ==
    ASSUME IInv, Named, Provenance, [Next]_vars
    PROVE  Provenance'
<1>. USE DEF IInv
<1>1. CASE UNCHANGED vars
  BY <1>1 DEF vars, Provenance, IsOpen
<1>2. ASSUME NEW a \in Adapters, NEW o \in Objects, CreateNew(a, o)
      PROVE  Provenance'
  <2>1. NameOf[a] \in Names
    BY <1>2 DEF CreateNew, Step, Named
  <2>. QED
    BY <1>2, <2>1, CreateProvenance
<1>3. ASSUME NEW a \in Adapters,
             \/ Construct(a) \/ CreateMq(a) \/ MqRecv(a) \/ Exit(a)
             \/ \E m \in Msgs : MqSend(a, m)
             \/ CreateExists(a) \/ OpenFails(a) \/ NotSent(a) \/ NotReceived(a)
      PROVE  Provenance'
  <2>1. /\ UNCHANGED <<named, queue>>
        /\ id' = id \/ id' = [id EXCEPT ![a] = Closed]
    BY <1>3 DEF Construct, CreateMq, MqRecv, Exit, MqSend, CreateExists,
                OpenFails, NotSent, NotReceived, SetId
  <2>. QED
    BY <2>1, KeptProvenance
<1>4. ASSUME NEW a \in Adapters, Reopen(a)
      PROVE  Provenance'
  <2>1. /\ NameOf[a] \in Names /\ UNCHANGED <<named, queue>>
        /\ id' = [id EXCEPT ![a] = named[NameOf[a]]]
    BY <1>4 DEF Reopen, Step, SetId, Named
  <2>. QED
    BY <2>1, KeptProvenance
<1>5. ASSUME NEW a \in Adapters, DeleteMq(a) \/ Destroy(a)
      PROVE  Provenance'
  <2>1. /\ queue' = queue /\ (id' = id \/ id' = [id EXCEPT ![a] = Closed])
        /\ \A n \in Names : named'[n] = named[n] \/ named'[n] = Closed
    BY <1>5 DEF DeleteMq, Destroy, Unlink, SetId, TypeOK
  <2>. QED
    BY <2>1, KeptProvenance
<1>6. ASSUME NEW a \in Adapters, Sent(a) \/ Received(a)
      PROVE  Provenance'
  <2>1. UNCHANGED <<named, id, waits>>
    BY <1>6 DEF Sent, Received
  <2>2. \E q : queue' = [queue EXCEPT ![id[a]].msgs = q]
    BY <1>6 DEF Sent, Received
  <2>3. \A o \in Objects : queue'[o].max = queue[o].max /\ queue'[o].size = queue[o].size
    BY <2>2 DEF TypeOK, Queues
  <2>. QED
    BY <2>1, <2>3, KeptProvenance
<1>. QED
  BY <1>1, <1>2, <1>3, <1>4, <1>5, <1>6 DEF Next, Kernel

\* A queue has the sizes of one of the adapters that use it.
THEOREM QueuesAreMadeByNamesakes == Spec => []Provenance
<1>1. Init => Provenance
  BY DEF Init, Provenance, IsOpen
<1>2. IInv /\ Named /\ Provenance /\ [Next]_vars => Provenance'
  BY StepProvenance
<1>. QED
  BY <1>1, <1>2, Invariance, PTL DEF Spec

\* A call that sends or receives comes back by one of four steps of the kernel.
LEMMA CallReturns ==
    ASSUME IInv, [Next]_vars, ~UNCHANGED vars,
           NEW a \in Adapters, call'[a] = "idle", call[a] \in {"send", "recv"}
    PROVE  Sent(a) \/ NotSent(a) \/ Received(a) \/ NotReceived(a)
<1>1. PICK b \in Adapters :
          \/ Construct(b) \/ CreateMq(b) \/ MqRecv(b)
          \/ \E m \in Msgs : MqSend(b, m)
          \/ DeleteMq(b) \/ Destroy(b) \/ Exit(b)
          \/ Kernel(b)
  BY DEF Next
<1>2. b = a
  <2>1. \E c \in Calls : call' = [call EXCEPT ![b] = c]
    BY <1>1 DEF Construct, CreateMq, MqRecv, MqSend, DeleteMq, Destroy, Exit,
                Kernel, CreateNew, CreateExists, Reopen, OpenFails, Sent,
                NotSent, Received, NotReceived, Step, Calls
  <2>. QED
    BY <2>1 DEF IInv, TypeOK
<1>. QED
  BY <1>1, <1>2
  DEF IInv, TypeOK, Construct, CreateMq, MqRecv, MqSend, DeleteMq, Destroy,
      Exit, Kernel, CreateNew, CreateExists, Reopen, OpenFails, Step

\* CreateMq reports success whatever the sizes of the queue are; still MqRecv
\* and MqSend fail without the queue being empty or full only where adapters of
\* one name were constructed with different sizes.
THEOREM FailuresHaveCause == Spec => RefusedForCause
<1>2. ASSUME IInv, Provenance, NEW a \in Adapters, call[a] \in {"send", "recv"}
      PROVE  \E b \in Namesakes(a) : queue[id[a]].size = MsgSize[b]
  BY <1>2 DEF IInv, TypeOK, IsOpen, Provenance, AskedFor, Namesakes
<1>3. ASSUME IInv, Provenance, NEW a \in Adapters, NotReceived(a)
      PROVE  \/ queue[id[a]].msgs = <<>>
             \/ \E b \in Namesakes(a) : MsgSize[b] > MsgSize[a]
  <2>1. call[a] = "recv"
    BY <1>3 DEF NotReceived, Step
  <2>2. PICK b \in Namesakes(a) : queue[id[a]].size = MsgSize[b]
    BY <1>2, <1>3, <2>1
  <2>3. MsgSize[a] \in Nat /\ MsgSize[b] \in Nat
    BY MqAdapterAssumption DEF Namesakes
  <2>. QED
    BY <1>3, <2>2, <2>3 DEF NotReceived, RecvSize
<1>4. ASSUME IInv, Provenance, NEW a \in Adapters, NotSent(a)
      PROVE  ~HasRoom(a) \/ \E b \in Namesakes(a) : MsgSize[b] < buf[a].len
  <2>1. call[a] = "send" /\ buf[a] \in Msgs
    BY <1>4 DEF NotSent, Step, IInv, BufFits
  <2>2. PICK b \in Namesakes(a) : queue[id[a]].size = MsgSize[b]
    BY <1>2, <1>4, <2>1
  <2>3. MsgSize[b] \in Nat /\ buf[a].len \in Nat
    BY <2>1, MqAdapterAssumption DEF Namesakes
  <2>. QED
    BY <1>4, <2>2, <2>3 DEF NotSent, Fits
<1>5. ASSUME IInv, NEW a \in Adapters, Sent(a)
      PROVE  queue'[id[a]].msgs # queue[id[a]].msgs
  <2>. DEFINE o == id[a]
              q == queue[o].msgs
              r == B!Insert(q, buf[a])
  <2>1. o \in Objects /\ buf[a] \in Msgs /\ q \in Seq(Msgs)
    BY <1>5 DEF Sent, Step, IInv, TypeOK, BufFits, IsOpen, Queues
  <2>2. Len(r) = Len(q) + 1 /\ Len(q) \in Nat
    <3>. HIDE DEF q
    <3>1. Len(r) = Len(q) + 1
      BY <2>1, InsertType
    <3>2. Len(q) \in Nat
      BY <2>1
    <3>. QED
      BY <3>1, <3>2
  <2>3. queue' = [queue EXCEPT ![o].msgs = r]
    BY <1>5, Zenon DEF Sent
  <2>4. queue \in [Objects -> Queues]
    BY <1>5 DEF IInv, TypeOK
  <2>5. queue'[o].msgs = r
    <3>. HIDE DEF o, q, r
    <3>. QED
      BY <2>1, <2>3, <2>4 DEF Queues
  <2>. QED
    BY <2>2, <2>5
<1>6. ASSUME IInv, NEW a \in Adapters, Received(a)
      PROVE  buf'[a] = Head(queue[id[a]].msgs)
  BY <1>6 DEF Received, SetBuf, IInv, TypeOK
<1>7. ASSUME NEW a \in Adapters
      PROVE  /\ Sent(a) \/ NotSent(a) => call[a] = "send"
             /\ Received(a) \/ NotReceived(a) => call[a] = "recv"
  BY DEF Sent, NotSent, Received, NotReceived, Step
<1>8. IInv /\ Named /\ Provenance /\ [Next]_vars =>
        [\A a \in Adapters : call'[a] = "idle" =>
          /\ call[a] = "recv" =>
                \/ queue[id[a]].msgs = <<>>
                \/ buf'[a] = Head(queue[id[a]].msgs)
                \/ \E b \in Namesakes(a) : MsgSize[b] > MsgSize[a]
          /\ call[a] = "send" =>
                \/ ~HasRoom(a)
                \/ queue'[id[a]].msgs # queue[id[a]].msgs
                \/ \E b \in Namesakes(a) : MsgSize[b] < buf[a].len]_vars
  <2>. SUFFICES ASSUME IInv, Named, Provenance, [Next]_vars, ~UNCHANGED vars,
                       NEW a \in Adapters, call'[a] = "idle",
                       call[a] \in {"send", "recv"}
                PROVE  /\ call[a] = "recv" =>
                             \/ queue[id[a]].msgs = <<>>
                             \/ buf'[a] = Head(queue[id[a]].msgs)
                             \/ \E b \in Namesakes(a) : MsgSize[b] > MsgSize[a]
                       /\ call[a] = "send" =>
                             \/ ~HasRoom(a)
                             \/ queue'[id[a]].msgs # queue[id[a]].msgs
                             \/ \E b \in Namesakes(a) : MsgSize[b] < buf[a].len
    OBVIOUS
  <2>1. Sent(a) \/ NotSent(a) \/ Received(a) \/ NotReceived(a)
    BY CallReturns
  <2>. QED
    BY <2>1, <1>3, <1>4, <1>5, <1>6, <1>7
<1>. QED
  BY <1>8, Invariance, QueuesAreMadeByNamesakes, PTL DEF Spec, RefusedForCause

-----------------------------------------------------------------------------
(* The queues as the gateway uses them: both ends construct their adapters *)
(* with the same number of messages, and all messages have one priority.   *)

F(n, N) == INSTANCE Fifo WITH Elems <- Msgs, Cap <- N, q <- BoxOf[n]

\* A step of the mailbox, seen at one of its queues.
LEMMA BoxStep ==
    ASSUME IInv, Provenance, [B!Next]_(B!boxVars), NEW n \in Names, NEW N \in Nat,
           \A a \in Adapters : NameOf[a] = n => MsgNum[a] = N,
           \A m1, m2 \in Msgs : m1.prio = m2.prio
    PROVE  \/ [F(n, N)!Use]_(BoxOf[n])
           \/ F(n, N)!Lose /\ SizeOf'[n] = 0
<1>1. BoxOf \in [Names -> Seq(Msgs)] /\ BoxOf[n] \in Seq(Msgs)
  <2>1. \A k \in Names : BoxOf[k] \in Seq(Msgs)
    BY DEF BoxOf, IInv, TypeOK, Queues
  <2>. QED
    BY <2>1 DEF BoxOf
<1>2. SizeOf[n] \in {0, N}
  BY DEF SizeOf, Provenance, AskedFor
<1>3. CASE UNCHANGED BoxOf
  BY <1>3
<1>4. ASSUME NEW k \in Names, NEW m \in Msgs, B!Put(k, m)
      PROVE  F(n, N)!Use \/ BoxOf'[n] = BoxOf[n]
  <2>1. CASE k = n
    <3>. DEFINE q == BoxOf[n]
    <3>1. Len(q) < SizeOf[n] /\ BoxOf'[n] = B!Insert(q, m) /\ q \in Seq(Msgs)
      BY <1>1, <1>4, <2>1 DEF B!Put
    <3>. HIDE DEF q
    <3>2. \A i \in 1..Len(q) : q[i].prio = m.prio
      BY <3>1
    <3>3. B!Insert(q, m) = Append(q, m)
      BY <3>1, <3>2, OnePriorityIsFifo
    <3>4. Len(q) < N
      BY <1>2, <3>1
    <3>. QED
      BY <3>1, <3>3, <3>4 DEF q, F!Use, F!Put
  <2>2. CASE k # n
    BY <1>1, <1>4, <2>2 DEF B!Put
  <2>. QED
    BY <2>1, <2>2
<1>5. ASSUME NEW k \in Names, B!Take(k)
      PROVE  F(n, N)!Use \/ BoxOf'[n] = BoxOf[n]
  BY <1>1, <1>5 DEF B!Take, F!Use, F!Take
<1>6. ASSUME NEW k \in Names, B!Remove(k)
      PROVE  BoxOf'[n] = BoxOf[n] \/ (F(n, N)!Lose /\ SizeOf'[n] = 0)
  <2>1. CASE k = n
    <3>1. SizeOf \in [Names -> {SizeOf[j] : j \in Names}]
      BY DEF SizeOf
    <3>. QED
      BY <1>1, <1>6, <2>1, <3>1 DEF B!Remove, F!Lose
  <2>2. CASE k # n
    BY <1>1, <1>6, <2>2 DEF B!Remove
  <2>. QED
    BY <2>1, <2>2
<1>. QED
  BY <1>3, <1>4, <1>5, <1>6 DEF B!Next, B!boxVars, B!Create

\* The queue of a name whose adapters agree on its size (20, where nobody says
\* otherwise) is a bounded first-in-first-out queue for whoever uses it, across
\* two processes that open, delete and lose it at any time: what NorthStack
\* takes FCS_TO_H212 and H212_TO_FCS for.
THEOREM AgreedQueueIsFifo ==
    ASSUME NEW n \in Names, NEW N \in Nat,
           \A a \in Adapters : NameOf[a] = n => MsgNum[a] = N,
           \A m1, m2 \in Msgs : m1.prio = m2.prio
    PROVE  Spec => F(n, N)!Spec
<1>1. Init => F(n, N)!Init
  BY DEF Init, BoxOf, F!Init
<1>2. IInv /\ Named /\ Provenance /\ [Next]_vars => [F(n, N)!Next]_(BoxOf[n])
  BY StepRefines, BoxStep DEF F!Next
<1>. QED
  BY <1>1, <1>2, Invariance, QueuesAreMadeByNamesakes, PTL DEF Spec, F!Spec

-----------------------------------------------------------------------------
(* The queues of the gateway, whose adapters are made once, by new, are    *)
(* never deleted, and call DeleteMq nowhere.                               *)

\* Nobody unlinks the name; processes may end and start as they like.
NeverUnlinks(n) ==
    [][\A a \in Adapters : NameOf[a] = n => ~DeleteMq(a) /\ ~Destroy(a)]_vars

\* Whoever has a queue of the name open has the one that the name refers to.
Shared(n) == \A a \in Adapters : NameOf[a] = n /\ IsOpen(a) => id[a] = named[n]

LEMMA NameIsKept ==
    ASSUME IInv, Named, [Next]_vars, NEW n \in Names,
           [\A a \in Adapters : NameOf[a] = n => ~DeleteMq(a) /\ ~Destroy(a)]_vars
    PROVE  named[n] # Closed => named'[n] = named[n]
<1>. SUFFICES ASSUME named[n] # Closed, named' # named PROVE named'[n] = named[n]
  OBVIOUS
<1>1. ASSUME NEW a \in Adapters, NEW o \in Objects, CreateNew(a, o)
      PROVE  named'[n] = named[n]
  BY <1>1 DEF CreateNew, IInv, TypeOK
<1>2. ASSUME NEW a \in Adapters, DeleteMq(a) \/ Destroy(a)
      PROVE  named'[n] = named[n]
  <2>1. NameOf[a] # n
    BY <1>2 DEF vars
  <2>. QED
    BY <1>2, <2>1 DEF DeleteMq, Destroy, Unlink, IInv, TypeOK
<1>. QED
  BY <1>1, <1>2
  DEF Next, vars, Kernel, Construct, CreateMq, MqRecv, MqSend, Exit,
      CreateExists, Reopen, OpenFails, Sent, NotSent, Received, NotReceived

LEMMA StepShared ==
    ASSUME IInv, Named, [Next]_vars, NEW n \in Names, Shared(n),
           [\A a \in Adapters : NameOf[a] = n => ~DeleteMq(a) /\ ~Destroy(a)]_vars
    PROVE  Shared(n)'
<1>. SUFFICES ASSUME NEW b \in Adapters, NameOf[b] = n, id'[b] # Closed
              PROVE  id'[b] = named'[n]
  BY DEF Shared, IsOpen
<1>1. id'[b] = id[b] \/ id'[b] = named'[n]
  <2>1. ASSUME NEW a \in Adapters,
               \/ Construct(a) \/ CreateMq(a) \/ MqRecv(a) \/ Exit(a)
               \/ \E m \in Msgs : MqSend(a, m)
               \/ DeleteMq(a) \/ Destroy(a)
        PROVE  id'[b] = id[b]
    BY <2>1 DEF Construct, CreateMq, MqRecv, MqSend, DeleteMq, Destroy, Exit,
                SetId, IInv, TypeOK
  <2>2. ASSUME NEW a \in Adapters, NEW o \in Objects, CreateNew(a, o)
        PROVE  id'[b] = id[b] \/ id'[b] = named'[n]
    BY <2>2 DEF CreateNew, SetId, IInv, TypeOK
  <2>3. ASSUME NEW a \in Adapters,
               \/ CreateExists(a) \/ Reopen(a) \/ OpenFails(a)
               \/ Sent(a) \/ NotSent(a) \/ Received(a) \/ NotReceived(a)
        PROVE  id'[b] = id[b] \/ id'[b] = named'[n]
    BY <2>3 DEF CreateExists, Reopen, OpenFails, Sent, NotSent, Received,
                NotReceived, SetId, IInv, TypeOK
  <2>. QED
    BY <2>1, <2>2, <2>3 DEF Next, Kernel, vars
<1>2. CASE id'[b] = id[b]
  <2>1. id[b] = named[n] /\ named[n] # Closed
    BY <1>2 DEF Shared, IsOpen
  <2>. QED
    BY <1>2, <2>1, NameIsKept
<1>. QED
  BY <1>1, <1>2

\* A name that refers to a queue goes on doing so: nothing in it is lost.
LEMMA KeptStep ==
    ASSUME IInv, Named, Provenance, Provenance', [Next]_vars,
           NEW n \in Names, NEW N \in Nat,
           \A a \in Adapters : NameOf[a] = n => MsgNum[a] = N,
           \A m1, m2 \in Msgs : m1.prio = m2.prio,
           [\A a \in Adapters : NameOf[a] = n => ~DeleteMq(a) /\ ~Destroy(a)]_vars
    PROVE  [F(n, N)!Use]_(BoxOf[n])
<1>1. CASE BoxOf[n] = <<>>
  BY <1>1, StepRefines, BoxStep DEF F!Lose
<1>2. CASE BoxOf[n] # <<>>
  <2>1. named[n] # Closed
    BY <1>2 DEF BoxOf
  <2>2. named'[n] # Closed
    BY <2>1, NameIsKept
  <2>3. SizeOf'[n] = queue'[named'[n]].max /\ AskedFor(queue'[named'[n]], n)
    BY <2>2 DEF SizeOf, Provenance
  <2>4. SizeOf'[n] # 0
    BY <2>3, MqAdapterAssumption DEF AskedFor
  <2>. QED
    BY <2>4, StepRefines, BoxStep
<1>. QED
  BY <1>1, <1>2

\* Two processes that create the queue of a name at the same time, or open one
\* that is there, have the same queue open, and so it stays: what one sends the
\* other receives.
THEOREM EndsShareOneQueue ==
    ASSUME NEW n \in Names
    PROVE  Spec /\ NeverUnlinks(n) => []Shared(n)
<1>1. Init => Shared(n)
  BY DEF Init, Shared, IsOpen
<1>2. IInv /\ Named /\ Shared(n) /\ [Next]_vars
        /\ [\A a \in Adapters : NameOf[a] = n => ~DeleteMq(a) /\ ~Destroy(a)]_vars
        => Shared(n)'
  BY StepShared
<1>. QED
  BY <1>1, <1>2, Invariance, PTL DEF Spec, NeverUnlinks

\* Then the queue of the name loses nothing either, however often the
\* processes at its ends restart: exactly what NorthStackLimits shows of the two
\* queues of NorthStack.
THEOREM KeptQueueIsFifo ==
    ASSUME NEW n \in Names, NEW N \in Nat,
           \A a \in Adapters : NameOf[a] = n => MsgNum[a] = N,
           \A m1, m2 \in Msgs : m1.prio = m2.prio
    PROVE  Spec /\ NeverUnlinks(n) => F(n, N)!KeptSpec
<1>1. Init => F(n, N)!Init
  BY DEF Init, BoxOf, F!Init
<1>2. IInv /\ Named /\ Provenance /\ Provenance' /\ [Next]_vars
        /\ [\A a \in Adapters : NameOf[a] = n => ~DeleteMq(a) /\ ~Destroy(a)]_vars
        => [F(n, N)!Use]_(BoxOf[n])
  BY KeptStep
<1>. QED
  BY <1>1, <1>2, Invariance, QueuesAreMadeByNamesakes, PTL
     DEF Spec, NeverUnlinks, F!KeptSpec

\* Every call that comes back has done what a queue of N messages does: MqRecv
\* has taken the first message and gives it to its caller, or there was none;
\* MqSend has put its message at the end, or there was no room.
FifoCalls(n, N) ==
    [][\A a \in Adapters : NameOf[a] = n /\ call'[a] = "idle" =>
          /\ call[a] = "recv" =>
                IF BoxOf[n] = <<>> THEN UNCHANGED <<BoxOf[n], buf[a]>>
                ELSE F(n, N)!Take /\ buf'[a] = Head(BoxOf[n])
          /\ call[a] = "send" =>
                IF Len(BoxOf[n]) < N THEN F(n, N)!Put(buf[a])
                ELSE UNCHANGED BoxOf[n]]_vars

LEMMA CallStep ==
    ASSUME IInv, Named, Provenance, [Next]_vars, ~UNCHANGED vars,
           NEW n \in Names, NEW N \in Nat, NEW S \in Nat, Shared(n),
           \A a \in Adapters : NameOf[a] = n => MsgNum[a] = N /\ MsgSize[a] = S,
           \A m1, m2 \in Msgs : m1.prio = m2.prio,
           \A m \in Msgs : m.len <= S,
           NEW a \in Adapters, NameOf[a] = n,
           call'[a] = "idle", call[a] \in {"send", "recv"}
    PROVE  /\ call[a] = "recv" =>
                IF BoxOf[n] = <<>> THEN UNCHANGED <<BoxOf[n], buf[a]>>
                ELSE F(n, N)!Take /\ buf'[a] = Head(BoxOf[n])
           /\ call[a] = "send" =>
                IF Len(BoxOf[n]) < N THEN F(n, N)!Put(buf[a])
                ELSE UNCHANGED BoxOf[n]
<1>. DEFINE o == id[a]
            q == queue[o].msgs
<1>1. IsOpen(a) /\ o \in Objects /\ named[n] = o /\ BoxOf[n] = q
  <2>1. IsOpen(a) /\ o \in Objects
    BY DEF IInv, TypeOK, IsOpen
  <2>2. named[n] = o
    BY <2>1 DEF Shared
  <2>. QED
    BY <2>1, <2>2 DEF BoxOf, IsOpen
<1>2. queue[o].max = N /\ queue[o].size = S /\ q \in Seq(Msgs) /\ Len(q) \in Nat
  <2>1. AskedFor(queue[o], n)
    BY <1>1 DEF Provenance
  <2>. QED
    BY <1>1, <2>1 DEF AskedFor, IInv, TypeOK, Queues
<1>3. CASE Received(a)
  <2>1. call[a] = "recv" /\ BoxOf[n] # <<>> /\ buf'[a] = Head(BoxOf[n])
    BY <1>1, <1>3 DEF Received, Step, SetBuf, IInv, TypeOK
  <2>2. BoxOf' = [BoxOf EXCEPT ![n] = Tail(BoxOf[n])]
    BY <1>1, <1>3, ReceivedView
  <2>3. BoxOf'[n] = Tail(BoxOf[n])
    BY <2>2 DEF BoxOf
  <2>. QED
    BY <2>1, <2>3 DEF F!Take
<1>4. CASE NotReceived(a)
  <2>1. call[a] = "recv" /\ UNCHANGED <<named, queue, buf>>
    BY <1>4 DEF NotReceived, Step
  <2>2. q = <<>>
    BY <1>2, <1>4 DEF NotReceived, RecvSize
  <2>3. BoxOf' = BoxOf
    BY <2>1 DEF BoxOf
  <2>. QED
    BY <1>1, <2>1, <2>2, <2>3
<1>5. CASE Sent(a)
  <2>1. call[a] = "send" /\ Len(BoxOf[n]) < N
    BY <1>1, <1>2, <1>5 DEF Sent, Step, HasRoom
  <2>2. buf[a] \in Msgs /\ BoxOf' = [BoxOf EXCEPT ![n] = B!Insert(BoxOf[n], buf[a])]
    BY <1>1, <1>5, SentView
  <2>3. B!Insert(BoxOf[n], buf[a]) = Append(BoxOf[n], buf[a])
    <3>1. \A i \in 1..Len(q) : q[i].prio = buf[a].prio
      BY <1>2, <2>2
    <3>. HIDE DEF q, o
    <3>. QED
      BY <1>1, <1>2, <2>2, <3>1, OnePriorityIsFifo
  <2>4. BoxOf'[n] = Append(BoxOf[n], buf[a])
    BY <2>2, <2>3 DEF BoxOf
  <2>. QED
    BY <2>1, <2>4 DEF F!Put
<1>6. CASE NotSent(a)
  <2>1. call[a] = "send" /\ UNCHANGED <<named, queue>>
    BY <1>6 DEF NotSent, Step
  <2>2. buf[a] \in Msgs /\ buf[a].len <= S
    BY <2>1 DEF IInv, BufFits
  <2>3. ~(Len(q) < N)
    BY <1>2, <1>6, <2>2 DEF NotSent, Fits, HasRoom
  <2>4. BoxOf' = BoxOf
    BY <2>1 DEF BoxOf
  <2>. QED
    BY <1>1, <2>1, <2>3, <2>4
<1>. QED
  BY <1>3, <1>4, <1>5, <1>6, CallReturns

\* Where the adapters of a name agree on both sizes, as those of the gateway
\* do, and no message is longer, its calls are those of the queue.
THEOREM AgreedCallsAreFifo ==
    ASSUME NEW n \in Names, NEW N \in Nat, NEW S \in Nat,
           \A a \in Adapters : NameOf[a] = n => MsgNum[a] = N /\ MsgSize[a] = S,
           \A m1, m2 \in Msgs : m1.prio = m2.prio,
           \A m \in Msgs : m.len <= S
    PROVE  Spec /\ NeverUnlinks(n) => FifoCalls(n, N)
<1>1. IInv /\ Named /\ Provenance /\ Shared(n) /\ [Next]_vars =>
        [\A a \in Adapters : NameOf[a] = n /\ call'[a] = "idle" =>
          /\ call[a] = "recv" =>
                IF BoxOf[n] = <<>> THEN UNCHANGED <<BoxOf[n], buf[a]>>
                ELSE F(n, N)!Take /\ buf'[a] = Head(BoxOf[n])
          /\ call[a] = "send" =>
                IF Len(BoxOf[n]) < N THEN F(n, N)!Put(buf[a])
                ELSE UNCHANGED BoxOf[n]]_vars
  <2>. SUFFICES ASSUME IInv, Named, Provenance, Shared(n), [Next]_vars,
                       ~UNCHANGED vars, NEW a \in Adapters, NameOf[a] = n,
                       call'[a] = "idle", call[a] \in {"send", "recv"}
                PROVE  /\ call[a] = "recv" =>
                            IF BoxOf[n] = <<>> THEN UNCHANGED <<BoxOf[n], buf[a]>>
                            ELSE F(n, N)!Take /\ buf'[a] = Head(BoxOf[n])
                       /\ call[a] = "send" =>
                            IF Len(BoxOf[n]) < N THEN F(n, N)!Put(buf[a])
                            ELSE UNCHANGED BoxOf[n]
    OBVIOUS
  <2>. QED
    BY CallStep
<1>. QED
  BY <1>1, Invariance, QueuesAreMadeByNamesakes, EndsShareOneQueue, PTL
     DEF Spec, FifoCalls
=============================================================================
