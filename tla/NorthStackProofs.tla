-------------------------- MODULE NorthStackProofs --------------------------
(***************************************************************************)
(* What NorthStack promises, for queues of every capacity, any number of   *)
(* restarts and every choice of failures.                                  *)
(***************************************************************************)
EXTENDS NorthStack, SequenceTheorems, TLAPS

\* Whatever says "accepted" is about a function that FCS did accept: a reply
\* on its way or waiting to be sent, the reply being parsed, a flag that has
\* been cleared.
AcceptanceKnown ==
    /\ \A i \in 1..Len(inQ) :
          inQ[i].kind = "reply" /\ inQ[i].ok => inQ[i].fn \in accepted
    /\ blocked.kind = "reply" /\ blocked.ok => blocked.fn \in accepted
    /\ buf.kind = "reply" /\ buf.ok => buf.fn \in accepted
    /\ \A f \in Functions : ~pending[f] => f \in accepted

\* Pushed values are let through only after the requesting thread, which the
\* main thread starts when the maps are written, has seen all flags cleared.
GateOrder ==
    /\ success => HandshakeDone /\ subPc # "none"
    /\ UsesMaps \/ subPc = "done" => success
    /\ subPc # "none"
         => mainPc \notin {"boot", "sleep", "load", "items", "start_sub"}

\* FCS is inside mq_send only if it may block there and the queue is full.
SenderWaits == blocked # NoMsg => "block" \in Faults /\ ~HasRoom(inQ, InCap)

\* A watched queue that has a message is on the ready list, except between an
\* event and the read it leads to (the north thread is started but once), and
\* unless it has been filled up again by a sender that blocked.
ReadyListed ==
    /\ watching /\ inQ # <<>> /\ northPc # "read"
         => edge \/ ("block" \in Faults /\ ~HasRoom(inQ, InCap))
    /\ mainPc = "boot" => northPc = "none"

IInv == TypeOK /\ AcceptanceKnown /\ GateOrder /\ SenderWaits /\ ReadyListed

-----------------------------------------------------------------------------
(* The queues keep what they hold.                                         *)

\* Appending to a queue with room keeps its type and its bound.
LEMMA AppendToQueue ==
    ASSUME NEW S, NEW q \in Seq(S), NEW m \in S, NEW cap \in Nat,
           HasRoom(q, cap)
    PROVE  /\ Append(q, m) \in Seq(S)
           /\ Len(Append(q, m)) = Len(q) + 1
           /\ Len(Append(q, m)) <= cap
           /\ \A i \in 1..Len(q) : Append(q, m)[i] = q[i]
           /\ Append(q, m)[Len(q) + 1] = m
           /\ Append(q, m) # <<>>
<1>1. Len(q) \in Nat
  BY LenProperties
<1>2. /\ Append(q, m) \in Seq(S)
      /\ Len(Append(q, m)) = Len(q) + 1
      /\ \A i \in 1..Len(q) : Append(q, m)[i] = q[i]
      /\ Append(q, m)[Len(q) + 1] = m
      /\ Append(q, m) # <<>>
  BY AppendProperties
<1>. QED
  BY <1>1, <1>2 DEF HasRoom

\* Taking the head of a queue keeps its type and its bound.
LEMMA TakeFromQueue ==
    ASSUME NEW S, NEW q \in Seq(S), q # <<>>, NEW cap \in Nat, Len(q) <= cap
    PROVE  /\ Head(q) \in S
           /\ Head(q) = q[1]
           /\ 1 \in 1..Len(q)
           /\ Tail(q) \in Seq(S)
           /\ Len(Tail(q)) = Len(q) - 1
           /\ Len(Tail(q)) <= cap
           /\ \A i \in 1..Len(Tail(q)) : i+1 \in 1..Len(q) /\ Tail(q)[i] = q[i+1]
<1>1. Len(q) \in Nat /\ Len(q) > 0
  BY LenProperties, EmptySeq
<1>2. /\ Head(q) \in S /\ Head(q) = q[1]
      /\ Tail(q) \in Seq(S) /\ Len(Tail(q)) = Len(q) - 1
      /\ \A i \in 1..Len(Tail(q)) : Tail(q)[i] = q[i+1]
  BY HeadTailProperties
<1>. QED
  BY <1>1, <1>2

\* Taking the head of a full queue for the message of a waiting sender leaves
\* it full.
LEMMA PassThroughQueue ==
    ASSUME NEW S, NEW q \in Seq(S), NEW m \in S, q # <<>>,
           NEW cap \in Nat, Len(q) <= cap
    PROVE  /\ Append(Tail(q), m) \in Seq(S)
           /\ Len(Append(Tail(q), m)) = Len(q)
           /\ \A i \in 1..Len(q) : \/ i+1 \in 1..Len(q) /\ Append(Tail(q), m)[i] = q[i+1]
                                   \/ Append(Tail(q), m)[i] = m
<1>. DEFINE t == Tail(q)
<1>1. /\ t \in Seq(S) /\ Len(t) = Len(q) - 1 /\ Len(q) \in Nat
      /\ \A i \in 1..Len(t) : i+1 \in 1..Len(q) /\ t[i] = q[i+1]
  BY TakeFromQueue, LenProperties
<1>. HIDE DEF t
<1>2. /\ Append(t, m) \in Seq(S)
      /\ Len(Append(t, m)) = Len(t) + 1
      /\ \A i \in 1..Len(t) : Append(t, m)[i] = t[i]
      /\ Append(t, m)[Len(t) + 1] = m
  BY <1>1, AppendProperties
<1>3. \A i \in 1..Len(q) : i \in 1..Len(t) \/ i = Len(t) + 1
  BY <1>1
<1>4. Len(Append(t, m)) = Len(q)
  BY <1>1, <1>2
<1>5. \A i \in 1..Len(q) : \/ i+1 \in 1..Len(q) /\ Append(t, m)[i] = q[i+1]
                           \/ Append(t, m)[i] = m
  <2>. TAKE i \in 1..Len(q)
  <2>1. CASE i \in 1..Len(t)
    BY <2>1, <1>1, <1>2
  <2>2. CASE i = Len(t) + 1
    BY <2>2, <1>2
  <2>. QED
    BY <2>1, <2>2, <1>3
<1>. QED
  BY <1>2, <1>4, <1>5 DEF t

-----------------------------------------------------------------------------
(* The invariant is inductive.                                             *)

LEMMA InitIInv == Init => IInv
<1>. SUFFICES ASSUME Init PROVE IInv
  OBVIOUS
<1>1. /\ inQ \in Seq(Inbound) /\ Len(inQ) = 0
      /\ outQ \in Seq(Requests) /\ Len(outQ) = 0
  BY EmptySeq DEF Init
<1>2. TypeOK
  <2>1. 1 \in Lives
    BY NorthStackAssumption DEF Lives
  <2>2. [f \in Functions |-> TRUE] \in [Functions -> BOOLEAN]
    OBVIOUS
  <2>3. Len(inQ) <= InCap /\ Len(outQ) <= OutCap
    BY <1>1, NorthStackAssumption
  <2>. QED
    BY <1>1, <2>1, <2>2, <2>3 DEF Init, TypeOK, MainPcs, NorthPcs, SubPcs
<1>3. AcceptanceKnown
  BY <1>1 DEF Init, AcceptanceKnown, NoMsg
<1>4. GateOrder /\ SenderWaits /\ ReadyListed
  BY DEF Init, GateOrder, SenderWaits, ReadyListed, UsesMaps
<1>. QED
  BY <1>2, <1>3, <1>4 DEF IInv

LEMMA MainIInv == IInv /\ Main => IInv'
<1>. SUFFICES ASSUME IInv, Main PROVE IInv'
  OBVIOUS
<1>. USE DEF Main, MainSpawnNorth, MainNewServer, MainLoad, MainInitItems,
         SleepWasEnough, MainStartSub, MainRun, MainDelete, MainStep, IInv,
         adVars, epollVars, flagVars, fcsVars
<1>1. TypeOK'
  BY DEF TypeOK, MainPcs, NorthPcs, SubPcs
<1>2. AcceptanceKnown'
  BY DEF AcceptanceKnown
<1>3. GateOrder'
  BY DEF GateOrder, UsesMaps, HandshakeDone
<1>4. SenderWaits' /\ ReadyListed'
  BY DEF SenderWaits, ReadyListed
<1>. QED
  BY <1>1, <1>2, <1>3, <1>4

LEMMA NorthSetUpIInv == IInv /\ NorthSetUp => IInv'
<1>. SUFFICES ASSUME IInv, NorthSetUp PROVE IInv'
  OBVIOUS
<1>. USE DEF NorthSetUp, NorthCreateEpoll, NorthStartIn, NorthStartOut,
         NorthAdd, NorthStep, IInv, mainVars, adVars, epollVars, flagVars, fcsVars
<1>1. TypeOK'
  <2>1. UNCHANGED <<alive, life, mainPc, server, buf, subPc, pending, success,
                    inQ, outQ, accepted, blocked>>
    OBVIOUS
  <2>2. northPc' \in NorthPcs
    BY DEF NorthPcs
  <2>3. /\ adIn' \in {"none", "failed", "open"} /\ adOut' \in {"none", "failed", "open"}
        /\ epfd' \in BOOLEAN /\ watching' \in BOOLEAN /\ edge' \in BOOLEAN
    BY DEF TypeOK
  <2>. QED
    BY <2>1, <2>2, <2>3 DEF TypeOK
<1>2. AcceptanceKnown'
  BY DEF AcceptanceKnown
<1>3. GateOrder'
  BY DEF GateOrder, UsesMaps, HandshakeDone
<1>4. SenderWaits' /\ ReadyListed'
  BY DEF SenderWaits, ReadyListed, TypeOK
<1>. QED
  BY <1>1, <1>2, <1>3, <1>4

LEMMA NorthWaitIInv == IInv /\ NorthWait => IInv'
<1>. SUFFICES ASSUME IInv, NorthWait PROVE IInv'
  OBVIOUS
<1>. USE DEF NorthWait, NorthEvent, NorthTimeout, NorthWaitFails, NorthStep,
         IInv, mainVars, adVars, epollVars, flagVars, fcsVars
<1>1. TypeOK'
  BY DEF TypeOK, NorthPcs
<1>2. AcceptanceKnown'
  BY DEF AcceptanceKnown
<1>3. GateOrder'
  BY DEF GateOrder, UsesMaps, HandshakeDone
<1>4. SenderWaits' /\ ReadyListed'
  BY DEF SenderWaits, ReadyListed
<1>. QED
  BY <1>1, <1>2, <1>3, <1>4

\* What a read leaves in the inbound queue: what was behind the message it takes
\* and the one of a sender that waits, with which the queue is full again.
LEMMA QueueAfterRead ==
    ASSUME TypeOK, SenderWaits, inQ # <<>>, NEW q,
           q = IF blocked = NoMsg THEN Tail(inQ) ELSE Append(Tail(inQ), blocked)
    PROVE  /\ q \in Seq(Inbound) /\ Len(q) <= InCap
           /\ \A i \in 1..Len(q) : \/ i+1 \in 1..Len(inQ) /\ q[i] = inQ[i+1]
                                   \/ blocked # NoMsg /\ q[i] = blocked
           /\ blocked # NoMsg => "block" \in Faults /\ ~HasRoom(q, InCap)
<1>1. /\ inQ \in Seq(Inbound) /\ Len(inQ) <= InCap
      /\ InCap \in Nat /\ blocked \in Inbound \union {NoMsg}
  BY NorthStackAssumption DEF TypeOK
<1>2. CASE blocked = NoMsg
  <2>1. /\ Tail(inQ) \in Seq(Inbound) /\ Len(Tail(inQ)) <= InCap
        /\ \A i \in 1..Len(Tail(inQ)) :
              i+1 \in 1..Len(inQ) /\ Tail(inQ)[i] = inQ[i+1]
    BY <1>1, TakeFromQueue
  <2>2. q = Tail(inQ)
    BY <1>2
  <2>. QED
    BY <1>2, <2>1, <2>2
<1>3. CASE blocked # NoMsg
  <2>1. blocked \in Inbound /\ q = Append(Tail(inQ), blocked)
    BY <1>1, <1>3
  <2>2. /\ Append(Tail(inQ), blocked) \in Seq(Inbound)
        /\ Len(Append(Tail(inQ), blocked)) = Len(inQ)
        /\ \A i \in 1..Len(inQ) :
              \/ i+1 \in 1..Len(inQ) /\ Append(Tail(inQ), blocked)[i] = inQ[i+1]
              \/ Append(Tail(inQ), blocked)[i] = blocked
    BY <1>1, <2>1, PassThroughQueue
  <2>3. q \in Seq(Inbound) /\ Len(q) = Len(inQ)
    BY <2>1, <2>2
  <2>4. "block" \in Faults /\ ~HasRoom(q, InCap)
    BY <1>3, <2>3 DEF SenderWaits, HasRoom
  <2>5. \A i \in 1..Len(q) : \/ i+1 \in 1..Len(inQ) /\ q[i] = inQ[i+1]
                             \/ q[i] = blocked
    BY <2>1, <2>2, <2>3
  <2>. QED
    BY <1>1, <1>3, <2>3, <2>4, <2>5
<1>. QED
  BY <1>2, <1>3

LEMMA NorthReadIInv == IInv /\ NorthRead => IInv'
<1>. SUFFICES ASSUME IInv, NorthRead PROVE IInv'
  OBVIOUS
<1>1. /\ inQ' \in Seq(Inbound) /\ Len(inQ') <= InCap
      /\ \A i \in 1..Len(inQ') : \/ i+1 \in 1..Len(inQ) /\ inQ'[i] = inQ[i+1]
                                 \/ blocked # NoMsg /\ inQ'[i] = blocked
      /\ blocked # NoMsg => "block" \in Faults /\ ~HasRoom(inQ', InCap)
  BY QueueAfterRead DEF NorthRead, IInv
<1>. USE DEF NorthRead, NorthStep, IInv, mainVars, adVars, epollVars, flagVars
<1>2. buf' \in Inbound /\ buf' = inQ[1] /\ 1 \in 1..Len(inQ)
  BY TakeFromQueue, NorthStackAssumption DEF TypeOK
<1>3. TypeOK'
  BY <1>1, <1>2 DEF TypeOK, NorthPcs, Rearmed
<1>4. AcceptanceKnown'
  BY <1>1, <1>2 DEF AcceptanceKnown, NoMsg
<1>5. GateOrder'
  BY DEF GateOrder, UsesMaps, HandshakeDone
<1>6. SenderWaits' /\ ReadyListed'
  BY <1>1 DEF SenderWaits, ReadyListed, Rearmed, TypeOK
<1>. QED
  BY <1>3, <1>4, <1>5, <1>6

LEMMA NorthParseIInv == IInv /\ NorthParse => IInv'
<1>. SUFFICES ASSUME IInv, NorthParse PROVE IInv'
  OBVIOUS
<1>. USE DEF IInv, mainVars, adVars, epollVars, flagVars, fcsVars, NorthStep
<1>1. CASE NorthForget \/ NorthAdmitPush
  <2>. USE <1>1 DEF NorthForget, NorthAdmitPush
  <2>1. TypeOK'
    BY DEF TypeOK, NorthPcs
  <2>2. AcceptanceKnown'
    BY DEF AcceptanceKnown, NoMsg
  <2>3. GateOrder'
    BY DEF GateOrder, UsesMaps, HandshakeDone, PushGate
  <2>4. SenderWaits' /\ ReadyListed'
    BY DEF SenderWaits, ReadyListed
  <2>. QED
    BY <2>1, <2>2, <2>3, <2>4
<1>2. CASE NorthConfirm
  <2>. USE <1>2 DEF NorthConfirm, Clears
  <2>1. buf \in Replies /\ buf.fn \in Functions
    BY DEF TypeOK, Inbound, Replies, Push, Junk, NoMsg
  <2>2. TypeOK'
    BY <2>1 DEF TypeOK, NorthPcs
  <2>3. AcceptanceKnown'
    BY <2>1 DEF AcceptanceKnown, NoMsg, TypeOK
  <2>4. GateOrder'
    BY <2>1 DEF GateOrder, UsesMaps, HandshakeDone, TypeOK
  <2>5. SenderWaits' /\ ReadyListed'
    BY DEF SenderWaits, ReadyListed
  <2>. QED
    BY <2>2, <2>3, <2>4, <2>5
<1>. QED
  BY <1>1, <1>2 DEF NorthParse

LEMMA NorthUseIInv == IInv /\ (NorthFill \/ NorthThrows \/ NorthWrite) => IInv'
<1>. SUFFICES ASSUME IInv, NorthFill \/ NorthThrows \/ NorthWrite PROVE IInv'
  OBVIOUS
<1>. USE DEF NorthFill, NorthThrows, NorthWrite, NorthStep, IInv, mainVars, adVars,
         epollVars, flagVars, fcsVars
<1>1. TypeOK'
  <2>1. UNCHANGED <<life, mainVars, adVars, epollVars, edge, buf, subPc,
                    flagVars, inQ, outQ, accepted, blocked>>
    OBVIOUS
  <2>2. alive' \in BOOLEAN /\ northPc' \in NorthPcs
    BY DEF TypeOK, NorthPcs
  <2>. QED
    BY <2>1, <2>2 DEF TypeOK
<1>2. AcceptanceKnown'
  BY DEF AcceptanceKnown
<1>3. GateOrder'
  BY DEF GateOrder, UsesMaps, HandshakeDone
<1>4. SenderWaits' /\ ReadyListed'
  BY DEF SenderWaits, ReadyListed
<1>. QED
  BY <1>1, <1>2, <1>3, <1>4

LEMMA SubIInv == IInv /\ Sub => IInv'
<1>. SUFFICES ASSUME IInv, Sub PROVE IInv'
  OBVIOUS
<1>. USE DEF IInv, SubStep, mainVars, adVars, epollVars, flagVars, fcsVars
<1>1. CASE SubTimer \/ SubCheck
  <2>. USE <1>1 DEF SubTimer, SubCheck, AfterFailedRound
  <2>1. TypeOK'
    <3>1. UNCHANGED <<alive, life, mainVars, northPc, adVars, epollVars, edge,
                      buf, pending, inQ, outQ, accepted, blocked>>
      OBVIOUS
    <3>2. subPc' \in SubPcs /\ success' \in BOOLEAN
      BY DEF TypeOK, SubPcs, Functions
    <3>. QED
      BY <3>1, <3>2 DEF TypeOK
  <2>2. AcceptanceKnown'
    BY DEF AcceptanceKnown
  <2>3. GateOrder'
    BY DEF GateOrder, UsesMaps, HandshakeDone
  <2>4. SenderWaits' /\ ReadyListed'
    BY DEF SenderWaits, ReadyListed
  <2>. QED
    BY <2>1, <2>2, <2>3, <2>4
<1>2. ASSUME NEW f \in Functions, SubSkip(f) \/ SubSend(f) \/ SubSendUnset(f)
      PROVE  IInv'
  <2>. USE <1>2 DEF SubSkip, SubSend, SubSendUnset
  <2>1. /\ subPc = f /\ UNCHANGED <<life, mainVars, northPc, adVars, epollVars,
               edge, buf, flagVars, inQ, accepted, blocked>>
        /\ subPc' \in SubPcs \ {"none", "done"} /\ alive' \in BOOLEAN
    BY DEF TypeOK, SubPcs, Functions, NextAfter
  <2>2. outQ' \in Seq(Requests) /\ Len(outQ') <= OutCap
    <3>1. CASE SubSend(f) /\ adOut = "open" /\ HasRoom(outQ, OutCap)
      <4>1. [fn |-> f, life |-> life] \in Requests
        BY DEF TypeOK, Requests
      <4>. QED
        BY <3>1, <4>1, AppendToQueue, NorthStackAssumption DEF TypeOK
    <3>2. CASE UNCHANGED outQ
      BY <3>2 DEF TypeOK
    <3>. QED
      BY <3>1, <3>2
  <2>3. TypeOK'
    BY <2>1, <2>2 DEF TypeOK
  <2>4. AcceptanceKnown'
    BY <2>1 DEF AcceptanceKnown
  <2>5. GateOrder'
    BY <2>1 DEF GateOrder, UsesMaps, HandshakeDone, Functions
  <2>6. SenderWaits' /\ ReadyListed'
    BY <2>1 DEF SenderWaits, ReadyListed
  <2>. QED
    BY <2>3, <2>4, <2>5, <2>6
<1>. QED
  BY <1>1, <1>2 DEF Sub

\* What FCS puts into the inbound queue keeps the invariant if it is an
\* acceptance only of a function FCS has accepted.
LEMMA DeliverIInv ==
    ASSUME IInv, NEW m \in Inbound, Deliver(m), blocked = NoMsg,
           accepted \subseteq accepted', accepted' \in SUBSET Functions,
           m.kind = "reply" /\ m.ok => m.fn \in accepted',
           outQ' \in Seq(Requests), Len(outQ') <= OutCap,
           UNCHANGED <<alive, life, mainVars, northPc, adVars, epollVars, buf,
                       subPc, flagVars>>
    PROVE  IInv'
<1>. USE DEF IInv, Deliver, mainVars, adVars, epollVars, flagVars
<1>1. /\ inQ' \in Seq(Inbound) /\ Len(inQ') = Len(inQ) + 1 /\ Len(inQ) \in Nat
      /\ Len(inQ') <= InCap
      /\ \A i \in 1..Len(inQ) : inQ'[i] = inQ[i]
      /\ inQ'[Len(inQ) + 1] = m
  BY AppendToQueue, LenProperties, NorthStackAssumption DEF TypeOK
<1>2. TypeOK'
  BY <1>1 DEF TypeOK
<1>3. AcceptanceKnown'
  <2>1. ASSUME NEW i \in 1..Len(inQ'), inQ'[i].kind = "reply", inQ'[i].ok
        PROVE  inQ'[i].fn \in accepted'
    <3>1. CASE i \in 1..Len(inQ)
      BY <1>1, <2>1, <3>1 DEF AcceptanceKnown
    <3>2. CASE i = Len(inQ) + 1
      BY <1>1, <2>1, <3>2
    <3>. QED
      BY <1>1, <3>1, <3>2
  <2>. QED
    BY <2>1 DEF AcceptanceKnown
<1>4. GateOrder'
  BY DEF GateOrder, UsesMaps, HandshakeDone
<1>5. SenderWaits' /\ ReadyListed'
  BY DEF SenderWaits, ReadyListed
<1>. QED
  BY <1>2, <1>3, <1>4, <1>5

\* So does what it waits to send, or drops, while the queue is full.
LEMMA FullQueueIInv ==
    ASSUME IInv, NEW m \in Inbound, Block(m) \/ Drop, blocked = NoMsg,
           accepted \subseteq accepted', accepted' \in SUBSET Functions,
           m.kind = "reply" /\ m.ok => m.fn \in accepted',
           outQ' \in Seq(Requests), Len(outQ') <= OutCap,
           UNCHANGED <<alive, life, mainVars, northPc, adVars, epollVars, buf,
                       subPc, flagVars>>
    PROVE  IInv'
<1>. USE DEF IInv, mainVars, adVars, epollVars, flagVars
<1>1. /\ UNCHANGED <<inQ, edge>> /\ ~HasRoom(inQ, InCap)
      /\ blocked' = NoMsg \/ (blocked' = m /\ "block" \in Faults)
  BY DEF Block, Drop
<1>2. TypeOK'
  BY <1>1 DEF TypeOK
<1>3. AcceptanceKnown'
  BY <1>1 DEF AcceptanceKnown, NoMsg
<1>4. GateOrder' /\ SenderWaits' /\ ReadyListed'
  BY <1>1 DEF GateOrder, UsesMaps, HandshakeDone, SenderWaits, ReadyListed
<1>. QED
  BY <1>2, <1>3, <1>4

LEMMA FcsIInv == IInv /\ Fcs => IInv'
<1>. SUFFICES ASSUME IInv, Fcs PROVE IInv'
  OBVIOUS
<1>1. CASE FcsTell
  <2>1. PICK m \in {Push, Junk} : Deliver(m) \/ Block(m)
    BY <1>1 DEF FcsTell
  <2>2. m \in Inbound /\ m.kind # "reply"
    BY DEF Inbound, Push, Junk
  <2>3. /\ blocked = NoMsg
        /\ UNCHANGED <<alive, life, mainVars, northPc, adVars, epollVars, buf,
                       subPc, flagVars, outQ, accepted>>
    BY <1>1 DEF FcsTell
  <2>4. accepted' \in SUBSET Functions /\ outQ' \in Seq(Requests) /\ Len(outQ') <= OutCap
    BY <2>3 DEF IInv, TypeOK
  <2>. QED
    BY <2>1, <2>2, <2>3, <2>4, DeliverIInv, FullQueueIInv
<1>2. ASSUME NEW f \in Functions, NEW ok \in BOOLEAN, FcsAnswer(f, ok)
      PROVE  IInv'
  <2>. DEFINE m == [kind |-> "reply", fn |-> f, ok |-> ok, life |-> Head(outQ).life]
  <2>1. /\ Head(outQ) \in Requests
        /\ outQ' \in Seq(Requests) /\ Len(outQ') <= OutCap
    BY <1>2, TakeFromQueue, NorthStackAssumption DEF FcsAnswer, IInv, TypeOK
  <2>2. accepted \subseteq accepted' /\ accepted' \in SUBSET Functions
        /\ (ok => f \in accepted')
    BY <1>2 DEF FcsAnswer, IInv, TypeOK
  <2>3. m \in Inbound /\ (m.kind = "reply" /\ m.ok => m.fn \in accepted')
    BY <2>1, <2>2 DEF Inbound, Replies, Requests
  <2>4. /\ blocked = NoMsg /\ (Deliver(m) \/ Block(m) \/ Drop)
        /\ UNCHANGED <<alive, life, mainVars, northPc, adVars, epollVars, buf,
                       subPc, flagVars>>
    BY <1>2 DEF FcsAnswer
  <2>. HIDE DEF m
  <2>. QED
    BY <2>1, <2>2, <2>3, <2>4, DeliverIInv, FullQueueIInv
<1>. QED
  BY <1>1, <1>2 DEF Fcs

LEMMA RestartIInv == IInv /\ Restart => IInv'
<1>. SUFFICES ASSUME IInv, Restart PROVE IInv'
  OBVIOUS
<1>. USE DEF Restart, IInv, fcsVars
<1>1. TypeOK'
  <2>1. life' \in Lives
    BY NorthStackAssumption DEF Lives, TypeOK
  <2>2. [f \in Functions |-> TRUE] \in [Functions -> BOOLEAN]
    OBVIOUS
  <2>. QED
    BY <2>1, <2>2 DEF TypeOK, MainPcs, NorthPcs, SubPcs
<1>2. AcceptanceKnown'
  BY DEF AcceptanceKnown, NoMsg
<1>3. GateOrder' /\ SenderWaits' /\ ReadyListed'
  BY DEF GateOrder, UsesMaps, SenderWaits, ReadyListed
<1>. QED
  BY <1>1, <1>2, <1>3

LEMMA StepIInv == IInv /\ [Next]_vars => IInv'
<1>. SUFFICES ASSUME IInv, [Next]_vars PROVE IInv'
  OBVIOUS
<1>1. CASE Next
  BY <1>1, MainIInv, NorthSetUpIInv, NorthWaitIInv, NorthReadIInv,
     NorthParseIInv, NorthUseIInv, SubIInv, FcsIInv, RestartIInv DEF Next, North
<1>2. CASE UNCHANGED vars
  BY <1>2 DEF vars, IInv, TypeOK, AcceptanceKnown, GateOrder, UsesMaps,
              HandshakeDone, SenderWaits, ReadyListed
<1>. QED
  BY <1>1, <1>2

\* The strengthened invariant holds of every reachable state.
THEOREM Invariance == Spec => []IInv
<1>. QED
  BY InitIInv, StepIInv, PTL DEF Spec

-----------------------------------------------------------------------------
(* What follows.                                                           *)

LEMMA InvTypes == IInv => TypeOK
BY DEF IInv

LEMMA InvPushes == IInv => PushFollowsAcceptance
BY DEF IInv, PushFollowsAcceptance, GateOrder, HandshakeDone,
       AcceptanceKnown, TypeOK

LEMMA InvAsks == IInv => AsksUntilAccepted
BY DEF IInv, AsksUntilAccepted, GateOrder, HandshakeDone, AcceptanceKnown, TypeOK

LEMMA InvMaps == IInv => LinkMapsQuiescent
BY DEF IInv, LinkMapsQuiescent, GateOrder

LEMMA InvWakeup == IInv /\ "block" \notin Faults => NoLostWakeup
BY DEF IInv, NoLostWakeup, ReadyListed

\* Whatever FCS does, the north thread sleeps on messages only if they fill the
\* queue: one read per event loses the wake-up to a sender that waits, and to
\* nothing else.
AsleepOnlyWhenFull ==
    watching /\ northPc = "wait" /\ inQ # <<>> => edge \/ Len(inQ) = InCap

LEMMA InvAsleep == IInv => AsleepOnlyWhenFull
BY LenProperties, NorthStackAssumption
   DEF IInv, TypeOK, AsleepOnlyWhenFull, ReadyListed, HasRoom

\* Every variable keeps its type and both queues keep their bound.
THEOREM TypeCorrect == Spec => []TypeOK
BY InvTypes, Invariance, PTL

\* A pushed value is let through (ParseNorthMsg) only when FCS has accepted
\* every request, for queues of any size and after any number of restarts.
THEOREM PushesFollowAcceptance == Spec => []PushFollowsAcceptance
BY InvPushes, Invariance, PTL

\* RunSubItemFromFcs asks until FCS has accepted all three requests.
THEOREM NeverGivesUp == Spec => []AsksUntilAccepted
BY InvAsks, Invariance, PTL

\* The north thread never reads the link and type maps, which no lock guards,
\* while InitFboxLinkServerNode may be writing them.
THEOREM MapsQuiescent == Spec => []LinkMapsQuiescent
BY InvMaps, Invariance, PTL

\* One read per edge-triggered event loses no wake-up, for every capacity, if
\* FCS does not block in mq_send.
THEOREM WakeupNotLost ==
    ASSUME "block" \notin Faults
    PROVE  Spec => []NoLostWakeup
<1>1. IInv => NoLostWakeup
  BY InvWakeup
<1>. QED
  BY <1>1, Invariance, PTL

\* If it does, the thread still never sleeps on a queue with room: a message
\* that FCS sends without waiting is read.
THEOREM SleepsOnFullQueueOnly == Spec => []AsleepOnlyWhenFull
BY InvAsleep, Invariance, PTL

\* Every step of the gateway and of FCS is a step of the abstract handshake,
\* or leaves its variables alone.
LEMMA StepRefines == IInv /\ [Next]_vars => [H!Next]_(H!hsVars)
<1>. SUFFICES ASSUME IInv, [Next]_vars PROVE [H!Next]_(H!hsVars)
  OBVIOUS
<1>. USE DEF H!hsVars
<1>1. CASE Main
  BY <1>1 DEF Main, MainSpawnNorth, MainNewServer, MainLoad, MainInitItems,
              MainStartSub, MainRun, MainDelete, flagVars, fcsVars
<1>2. CASE NorthSetUp \/ NorthWait \/ NorthRead \/ NorthFill \/ NorthThrows \/ NorthWrite
  BY <1>2 DEF NorthSetUp, NorthCreateEpoll, NorthStartIn, NorthStartOut,
              NorthAdd, NorthWait, NorthEvent, NorthTimeout, NorthWaitFails,
              NorthRead, NorthFill, NorthThrows, NorthWrite, flagVars, fcsVars
<1>3. CASE NorthForget \/ NorthAdmitPush
  BY <1>3 DEF NorthForget, NorthAdmitPush, flagVars, fcsVars
<1>4. CASE NorthConfirm
  <2>1. /\ buf.fn \in Functions /\ buf.fn \in accepted
        /\ pending' = [pending EXCEPT ![buf.fn] = FALSE]
        /\ UNCHANGED <<accepted, success>>
    BY <1>4 DEF NorthConfirm, Clears, IInv, TypeOK, AcceptanceKnown, Inbound,
                Replies, Push, Junk, NoMsg, fcsVars
  <2>2. {f \in Functions : ~pending'[f]}
          = {f \in Functions : ~pending[f]} \union {buf.fn}
    BY <2>1 DEF IInv, TypeOK
  <2>. QED
    BY <2>1, <2>2 DEF H!Next, H!Confirm
<1>5. CASE SubTimer \/ \E f \in Functions : SubSkip(f) \/ SubSend(f) \/ SubSendUnset(f)
  BY <1>5 DEF SubTimer, SubSkip, SubSend, SubSendUnset, flagVars, fcsVars
<1>6. CASE SubCheck
  BY <1>6 DEF SubCheck, HandshakeDone, H!Next, H!Complete, fcsVars
<1>7. CASE FcsTell
  BY <1>7 DEF FcsTell, flagVars, fcsVars
<1>8. ASSUME NEW f \in Functions, NEW ok \in BOOLEAN, FcsAnswer(f, ok)
      PROVE  H!Accept(f) \/ UNCHANGED <<accepted, pending, success>>
  BY <1>8 DEF FcsAnswer, H!Accept, flagVars
<1>9. CASE Restart
  BY <1>9 DEF Restart, H!Next, H!Restart, fcsVars
<1>10. CASE UNCHANGED vars
  BY <1>10 DEF vars
<1>. QED
  BY <1>1, <1>2, <1>3, <1>4, <1>5, <1>6, <1>7, <1>8, <1>9, <1>10
  DEF Next, North, NorthParse, Sub, Fcs, H!Next

\* The gateway, with its threads, queues, retries, failures and restarts,
\* implements the handshake of module Handshake.
THEOREM ImplementsHandshake == Spec => RefinesHandshake
<1>1. Init => H!Init
  BY DEF Init, H!Init
<1>. QED
  BY <1>1, StepRefines, Invariance, PTL DEF Spec, H!Spec, RefinesHandshake

=============================================================================
