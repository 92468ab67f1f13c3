-------------------------- MODULE NorthStackLimits --------------------------
(***************************************************************************)
(* Where the failures of NorthStack come from: what a run of it shows to   *)
(* be violated holds, for queues of every capacity, as soon as one named   *)
(* failure is excluded, and nothing else ends the process.                 *)
(***************************************************************************)
EXTENDS NorthStackProofs

\* How far the main thread and the north thread are tells which pointers are
\* set, and which failures have happened.
SetUpOrder ==
    /\ mainPc = "boot" <=> northPc = "none"
    /\ server = "null" <=> mainPc \in {"boot", "sleep"}
    /\ server = "deleted" \/ mainPc = "delete" => "run" \in Faults
    /\ adIn = "failed" => "open" \in Faults
    /\ northPc \notin {"none", "epoll", "start_in", "start_out"}
         => adOut # "none" \/ adIn = "failed"
    /\ mainPc \notin {"boot", "sleep"} /\ "slow" \notin Faults
         => northPc \notin SettingUp

LInv == SetUpOrder /\ StaysAlive

-----------------------------------------------------------------------------
LEMMA InitLInv == Init => LInv
BY DEF Init, LInv, SetUpOrder, StaysAlive

LEMMA MainLInv == IInv /\ LInv /\ Main => LInv'
<1>. SUFFICES ASSUME IInv, LInv, Main PROVE LInv'
  OBVIOUS
<1>. USE DEF Main, MainSpawnNorth, MainNewServer, SleepWasEnough, MainLoad,
         MainInitItems, MainStartSub, MainRun, MainDelete, MainStep, LInv,
         adVars, epollVars, flagVars, fcsVars
<1>1. SetUpOrder'
  BY DEF SetUpOrder, IInv, TypeOK
<1>2. StaysAlive'
  BY DEF StaysAlive
<1>. QED
  BY <1>1, <1>2

LEMMA NorthLInv == IInv /\ LInv /\ North => LInv'
<1>. SUFFICES ASSUME IInv, LInv, North PROVE LInv'
  OBVIOUS
<1>. USE DEF LInv, NorthStep, mainVars, adVars, epollVars, flagVars, fcsVars
<1>1. CASE NorthSetUp
  <2>. USE <1>1 DEF NorthSetUp, NorthCreateEpoll, NorthStartIn, NorthStartOut,
           NorthAdd
  <2>1. SetUpOrder'
    BY DEF SetUpOrder, SettingUp
  <2>2. StaysAlive'
    BY DEF StaysAlive
  <2>. QED
    BY <2>1, <2>2
<1>2. CASE NorthWait \/ NorthRead \/ NorthParse \/ NorthFill
  <2>. USE <1>2 DEF NorthWait, NorthEvent, NorthTimeout, NorthWaitFails,
           NorthRead, NorthParse, NorthForget, NorthConfirm, NorthAdmitPush,
           NorthFill
  <2>1. SetUpOrder'
    BY DEF SetUpOrder, SettingUp
  <2>2. StaysAlive'
    BY DEF StaysAlive
  <2>. QED
    BY <2>1, <2>2
<1>3. CASE NorthThrows \/ NorthWrite
  <2>. USE <1>3 DEF NorthThrows, NorthWrite
  <2>1. SetUpOrder'
    BY DEF SetUpOrder, SettingUp
  <2>2. StaysAlive'
    BY DEF SetUpOrder, StaysAlive
  <2>. QED
    BY <2>1, <2>2
<1>. QED
  BY <1>1, <1>2, <1>3 DEF North

\* Without the failure to open a queue and with enough sleep the requesting
\* thread finds the outbound adapter.
LEMMA AdapterSet ==
    ASSUME IInv, SetUpOrder, "open" \notin Faults, "slow" \notin Faults,
           subPc # "none"
    PROVE  adOut # "none"
BY DEF IInv, TypeOK, NorthPcs, GateOrder, SetUpOrder, SettingUp

LEMMA SubLInv == IInv /\ LInv /\ Sub => LInv'
<1>. SUFFICES ASSUME IInv, LInv, Sub PROVE LInv'
  OBVIOUS
<1>1. UNCHANGED <<mainPc, server, northPc, adIn, adOut>>
  BY DEF Sub, SubTimer, SubCheck, SubSkip, SubSend, SubSendUnset, mainVars, adVars
<1>2. SetUpOrder'
  BY <1>1 DEF LInv, SetUpOrder
<1>3. StaysAlive'
  <2>1. CASE \E f \in Functions : SubSendUnset(f)
    <3>1. subPc # "none" /\ adOut = "none"
      BY <2>1 DEF SubSendUnset, Functions
    <3>2. "open" \in Faults \/ "slow" \in Faults
      BY <3>1, AdapterSet DEF LInv
    <3>. QED
      BY <3>2 DEF StaysAlive
  <2>2. CASE UNCHANGED alive
    BY <2>2 DEF LInv, StaysAlive
  <2>. QED
    BY <2>1, <2>2 DEF Sub, SubTimer, SubCheck, SubSkip, SubSend
<1>. QED
  BY <1>2, <1>3 DEF LInv

LEMMA StepLInv == IInv /\ LInv /\ [Next]_vars => LInv'
<1>. SUFFICES ASSUME IInv, LInv, [Next]_vars PROVE LInv'
  OBVIOUS
<1>1. CASE Fcs \/ UNCHANGED vars
  BY <1>1 DEF Fcs, FcsTell, FcsAnswer, vars, mainVars, adVars, LInv, SetUpOrder,
              StaysAlive
<1>2. CASE Restart
  BY <1>2 DEF Restart, LInv, SetUpOrder, StaysAlive
<1>. QED
  BY <1>1, <1>2, MainLInv, NorthLInv, SubLInv DEF Next

\* The set-up order holds of every reachable state.
THEOREM SetUpInvariance == Spec => []LInv
<1>. QED
  BY InitLInv, StepLInv, Invariance, PTL DEF Spec

-----------------------------------------------------------------------------
(* What follows.                                                           *)

\* The process ends by itself only through one of the failures found: a queue
\* that does not open, a slow set-up, a server that returned, an exception.
THEOREM OnlyFindingsEndIt == Spec => []StaysAlive
<1>1. LInv => StaysAlive
  BY DEF LInv
<1>. QED
  BY <1>1, SetUpInvariance, PTL

\* RunSubItemFromFcs never calls MqSend through a pointer nobody has set, if
\* mq_open does not fail and five seconds suffice to set up the north thread.
THEOREM OpenQueuesSuffice ==
    ASSUME "open" \notin Faults, "slow" \notin Faults
    PROVE  Spec => []SendsThroughAdapter
<1>1. IInv /\ LInv => SendsThroughAdapter
  BY AdapterSet DEF LInv, SendsThroughAdapter, Functions
<1>. QED
  BY <1>1, Invariance, SetUpInvariance, PTL

\* WriteItemValToOpcUaServerNode writes to a server that exists, if
\* UA_Server_run does not return.
THEOREM RunningServerSuffices ==
    ASSUME "run" \notin Faults
    PROVE  Spec => []WritesToLiveServer
<1>1. IInv /\ LInv => WritesToLiveServer
  BY DEF IInv, TypeOK, GateOrder, UsesMaps, LInv, SetUpOrder, WritesToLiveServer
<1>. QED
  BY <1>1, Invariance, SetUpInvariance, PTL

-----------------------------------------------------------------------------
(* What an earlier start of the process leaves behind.                     *)

\* Every restart finds the queues empty.
QueuesEmptied == [][Restart => inQ = <<>> /\ outQ = <<>>]_vars

\* What is on its way belongs to the running start.
OnlyOwn ==
    /\ \A i \in 1..Len(inQ) : inQ[i].kind = "reply" => inQ[i].life = life
    /\ \A i \in 1..Len(outQ) : outQ[i].life = life
    /\ buf.kind = "reply" => buf.life = life
    /\ blocked.kind = "reply" => blocked.life = life

LEMMA InitOnlyOwn == Init => OnlyOwn
<1>. SUFFICES ASSUME Init PROVE OnlyOwn
  OBVIOUS
<1>1. Len(inQ) = 0 /\ Len(outQ) = 0
  BY EmptySeq DEF Init
<1>. QED
  BY <1>1 DEF Init, OnlyOwn, NoMsg

LEMMA GatewayOnlyOwn == IInv /\ OnlyOwn /\ (Main \/ North \/ Sub) => OnlyOwn'
<1>. SUFFICES ASSUME IInv, OnlyOwn, Main \/ North \/ Sub PROVE OnlyOwn'
  OBVIOUS
<1>1. CASE NorthRead
  <2>1. /\ buf' = inQ[1] /\ 1 \in 1..Len(inQ)
        /\ UNCHANGED <<life, outQ>> /\ blocked' = NoMsg
    BY <1>1, TakeFromQueue, NorthStackAssumption DEF NorthRead, IInv, TypeOK
  <2>2. \A i \in 1..Len(inQ') : \/ i+1 \in 1..Len(inQ) /\ inQ'[i] = inQ[i+1]
                                \/ blocked # NoMsg /\ inQ'[i] = blocked
    BY <1>1, QueueAfterRead DEF NorthRead, IInv
  <2>. QED
    BY <2>1, <2>2 DEF OnlyOwn, NoMsg
<1>2. ASSUME NEW f \in Functions, SubSend(f) PROVE OnlyOwn'
  <2>1. CASE UNCHANGED outQ
    BY <1>2, <2>1 DEF SubSend, OnlyOwn
  <2>2. CASE outQ' = Append(outQ, [fn |-> f, life |-> life])
    <3>1. Len(outQ) \in Nat
      BY LenProperties DEF IInv, TypeOK
    <3>2. [fn |-> f, life |-> life] \in Requests
      BY DEF IInv, TypeOK, Requests
    <3>3. /\ Len(outQ') = Len(outQ) + 1
          /\ \A i \in 1..Len(outQ) : outQ'[i] = outQ[i]
          /\ outQ'[Len(outQ) + 1].life = life
      BY <2>2, <3>2, AppendProperties DEF IInv, TypeOK
    <3>4. \A i \in 1..Len(outQ') : outQ'[i].life = life
      <4>1. \A i \in 1..Len(outQ') : i \in 1..Len(outQ) \/ i = Len(outQ) + 1
        BY <3>1, <3>3
      <4>. QED
        BY <3>3, <4>1 DEF OnlyOwn
    <3>. QED
      BY <1>2, <3>4 DEF SubSend, OnlyOwn
  <2>. QED
    BY <1>2, <2>1, <2>2 DEF SubSend
<1>3. CASE /\ UNCHANGED <<life, inQ, outQ, blocked>>
           /\ buf' = buf \/ buf' = NoMsg
  BY <1>3 DEF OnlyOwn, NoMsg
<1>4. CASE Main
  BY <1>3, <1>4 DEF Main, MainSpawnNorth, MainNewServer, MainLoad, MainInitItems,
                    MainStartSub, MainRun, MainDelete, fcsVars
<1>5. CASE NorthSetUp \/ NorthWait \/ NorthParse \/ NorthFill \/ NorthThrows \/ NorthWrite
  BY <1>3, <1>5 DEF NorthSetUp, NorthCreateEpoll, NorthStartIn, NorthStartOut,
                    NorthAdd, NorthWait, NorthEvent, NorthTimeout,
                    NorthWaitFails, NorthParse, NorthForget, NorthConfirm,
                    NorthAdmitPush, NorthFill, NorthThrows, NorthWrite, fcsVars
<1>6. CASE SubTimer \/ SubCheck \/ \E f \in Functions : SubSkip(f) \/ SubSendUnset(f)
  BY <1>3, <1>6 DEF SubTimer, SubCheck, SubSkip, SubSendUnset, fcsVars
<1>. QED
  BY <1>1, <1>2, <1>4, <1>5, <1>6 DEF North, Sub

\* FCS answers in the name of the start that asked.
LEMMA FcsOnlyOwn == IInv /\ OnlyOwn /\ Fcs => OnlyOwn'
<1>. SUFFICES ASSUME IInv, OnlyOwn, Fcs PROVE OnlyOwn'
  OBVIOUS
<1>1. ASSUME NEW m \in Inbound, Deliver(m) \/ Block(m) \/ Drop,
             m.kind = "reply" => m.life = life
      PROVE  /\ \A i \in 1..Len(inQ') : inQ'[i].kind = "reply" => inQ'[i].life = life
             /\ blocked'.kind = "reply" => blocked'.life = life
  <2>0. CASE UNCHANGED inQ /\ blocked' \in {blocked, m}
    BY <1>1, <2>0 DEF OnlyOwn
  <2>. SUFFICES ASSUME Deliver(m)
                PROVE  \A i \in 1..Len(inQ') :
                          inQ'[i].kind = "reply" => inQ'[i].life = life
    BY <1>1, <2>0 DEF Deliver, Block, Drop, OnlyOwn
  <2>1. /\ Len(inQ) \in Nat /\ Len(inQ') = Len(inQ) + 1
        /\ \A i \in 1..Len(inQ) : inQ'[i] = inQ[i]
        /\ inQ'[Len(inQ) + 1] = m
    BY <1>1, AppendProperties, LenProperties DEF Deliver, IInv, TypeOK
  <2>2. \A i \in 1..Len(inQ') : i \in 1..Len(inQ) \/ i = Len(inQ) + 1
    BY <2>1
  <2>. QED
    BY <1>1, <2>1, <2>2 DEF OnlyOwn
<1>2. CASE FcsTell
  <2>1. /\ Push \in Inbound /\ Push.kind # "reply"
        /\ Junk \in Inbound /\ Junk.kind # "reply"
    BY DEF Inbound, Push, Junk
  <2>2. PICK m \in {Push, Junk} : Deliver(m) \/ Block(m)
    BY <1>2 DEF FcsTell
  <2>3. UNCHANGED <<life, buf, outQ>>
    BY <1>2 DEF FcsTell
  <2>. QED
    BY <1>1, <2>1, <2>2, <2>3 DEF OnlyOwn
<1>3. ASSUME NEW f \in Functions, NEW ok \in BOOLEAN, FcsAnswer(f, ok)
      PROVE  OnlyOwn'
  <2>. DEFINE m == [kind |-> "reply", fn |-> f, ok |-> ok, life |-> Head(outQ).life]
  <2>1. /\ Head(outQ) = outQ[1] /\ 1 \in 1..Len(outQ) /\ Head(outQ) \in Requests
        /\ \A i \in 1..Len(outQ') : i+1 \in 1..Len(outQ) /\ outQ'[i] = outQ[i+1]
    BY <1>3, TakeFromQueue, NorthStackAssumption DEF FcsAnswer, IInv, TypeOK
  <2>2. m \in Inbound /\ m.life = life
    BY <2>1 DEF Inbound, Replies, Requests, OnlyOwn
  <2>3. UNCHANGED <<life, buf>> /\ (Deliver(m) \/ Block(m) \/ Drop)
    BY <1>3 DEF FcsAnswer
  <2>. QED
    BY <1>1, <2>1, <2>2, <2>3 DEF OnlyOwn
<1>. QED
  BY <1>2, <1>3 DEF Fcs

LEMMA StepOnlyOwn ==
    IInv /\ OnlyOwn /\ [Next]_vars /\ [Restart => inQ = <<>> /\ outQ = <<>>]_vars
      => OnlyOwn'
<1>1. ASSUME SenderWaits, Restart, inQ = <<>>, outQ = <<>> PROVE OnlyOwn'
  <2>1. Len(inQ') = 0 /\ Len(outQ') = 0 /\ buf' = NoMsg
    BY <1>1, EmptySeq DEF Restart, fcsVars
  <2>2. HasRoom(inQ, InCap)
    BY <1>1, EmptySeq, NorthStackAssumption DEF HasRoom
  <2>3. blocked' = NoMsg
    BY <1>1, <2>2 DEF SenderWaits, Restart, fcsVars
  <2>. QED
    BY <2>1, <2>3 DEF OnlyOwn, NoMsg
<1>2. ASSUME OnlyOwn, UNCHANGED vars PROVE OnlyOwn'
  BY <1>2 DEF OnlyOwn, vars
<1>3. Restart => life' = life + 1
  BY DEF Restart
<1>4. IInv => life \in Nat
  BY NorthStackAssumption DEF IInv, TypeOK, Lives
<1>. QED
  BY <1>1, <1>2, <1>3, <1>4, GatewayOnlyOwn, FcsOnlyOwn DEF Next, IInv

\* A flag is cleared only by an answer to a request of the running start, if
\* the queues are empty whenever the process starts (CreateMq opens a queue
\* with what it holds, and nothing takes that out).
THEOREM EmptiedQueuesSuffice == Spec /\ QueuesEmptied => ConfirmedByOwnRequest
<1>1. IInv /\ OnlyOwn /\ [Next]_vars
        /\ [Restart => inQ = <<>> /\ outQ = <<>>]_vars
        => [\A f \in Functions : pending[f] /\ ~pending'[f] => buf.life = life]_vars
  <2>. SUFFICES ASSUME IInv, OnlyOwn, Next, NEW f \in Functions,
                       pending[f], ~pending'[f]
                PROVE  buf.life = life
    OBVIOUS
  <2>1. CASE NorthConfirm
    BY <2>1 DEF NorthConfirm, OnlyOwn
  <2>2. pending' # pending
    OBVIOUS
  <2>3. ~Restart
    BY DEF Restart
  <2>. QED
    BY <2>1, <2>2, <2>3
    DEF Next, Main, MainSpawnNorth, MainNewServer, MainLoad, MainInitItems,
        MainStartSub, MainRun, MainDelete, North, NorthSetUp, NorthCreateEpoll,
        NorthStartIn, NorthStartOut, NorthAdd, NorthWait, NorthEvent,
        NorthTimeout, NorthWaitFails, NorthRead, NorthParse, NorthForget,
        NorthAdmitPush, NorthFill, NorthThrows, NorthWrite, Sub, SubTimer,
        SubCheck, SubSkip, SubSend, SubSendUnset, Fcs, FcsTell, FcsAnswer, flagVars
<1>. QED
  BY <1>1, InitOnlyOwn, StepOnlyOwn, Invariance, PTL
     DEF Spec, QueuesEmptied, ConfirmedByOwnRequest

-----------------------------------------------------------------------------
(* The queues, as their ends see them (MqAdapterProofs shows that adapters *)
(* of one name give them no less than that).                               *)

In  == INSTANCE Fifo WITH Elems <- Inbound, Cap <- InCap, q <- inQ
Out == INSTANCE Fifo WITH Elems <- Requests, Cap <- OutCap, q <- outQ

LEMMA InStep == IInv /\ [Next]_vars => [In!Use]_inQ
<1>. SUFFICES ASSUME IInv, [Next]_vars, inQ' # inQ PROVE In!Use
  OBVIOUS
<1>1. ASSUME NEW m \in Inbound, Deliver(m) \/ Block(m) \/ Drop PROVE In!Use
  BY <1>1 DEF Deliver, Block, Drop, HasRoom, In!Use, In!Put
<1>2. CASE NorthRead
  <2>1. CASE blocked = NoMsg
    BY <1>2, <2>1 DEF NorthRead, In!Use, In!Take
  <2>2. CASE blocked \in Inbound
    BY <1>2, <2>2 DEF NorthRead, In!Use, In!Take, In!Pass
  <2>. QED
    BY <2>1, <2>2 DEF IInv, TypeOK
<1>3. CASE FcsTell
  BY <1>1, <1>3 DEF FcsTell, Inbound
<1>4. ASSUME NEW f \in Functions, NEW ok \in BOOLEAN, FcsAnswer(f, ok)
      PROVE  In!Use
  <2>. DEFINE m == [kind |-> "reply", fn |-> f, ok |-> ok, life |-> Head(outQ).life]
  <2>1. Head(outQ) \in Requests /\ (Deliver(m) \/ Block(m) \/ Drop)
    BY <1>4, TakeFromQueue, NorthStackAssumption DEF FcsAnswer, IInv, TypeOK
  <2>2. m \in Inbound
    BY <2>1 DEF Inbound, Replies, Requests
  <2>. QED
    BY <1>1, <2>1, <2>2
<1>. QED
  BY <1>2, <1>3, <1>4
  DEF Next, vars, Main, MainSpawnNorth, MainNewServer, MainLoad, MainInitItems,
      MainStartSub, MainRun, MainDelete, North, NorthSetUp, NorthCreateEpoll,
      NorthStartIn, NorthStartOut, NorthAdd, NorthWait, NorthEvent,
      NorthTimeout, NorthWaitFails, NorthParse, NorthForget, NorthConfirm,
      NorthAdmitPush, NorthFill, NorthThrows, NorthWrite, Sub, SubTimer,
      SubCheck, SubSkip, SubSend, SubSendUnset, Fcs, Restart

LEMMA OutStep == IInv /\ [Next]_vars => [Out!Use]_outQ
<1>. SUFFICES ASSUME IInv, [Next]_vars, outQ' # outQ PROVE Out!Use
  OBVIOUS
<1>1. ASSUME NEW f \in Functions, SubSend(f) PROVE Out!Use
  <2>1. [fn |-> f, life |-> life] \in Requests
    BY DEF IInv, TypeOK, Requests
  <2>. QED
    BY <1>1, <2>1 DEF SubSend, HasRoom, Out!Use, Out!Put
<1>2. ASSUME NEW f \in Functions, NEW ok \in BOOLEAN, FcsAnswer(f, ok)
      PROVE  Out!Use
  BY <1>2 DEF FcsAnswer, Out!Use, Out!Take
<1>. QED
  BY <1>1, <1>2
  DEF Next, vars, fcsVars, Main, MainSpawnNorth, MainNewServer, MainLoad,
      MainInitItems, MainStartSub, MainRun, MainDelete, North, NorthSetUp,
      NorthCreateEpoll, NorthStartIn, NorthStartOut, NorthAdd, NorthWait,
      NorthEvent, NorthTimeout, NorthWaitFails, NorthRead, NorthParse,
      NorthForget, NorthConfirm, NorthAdmitPush, NorthFill, NorthThrows,
      NorthWrite, Sub, SubTimer, SubCheck, SubSkip, SubSendUnset, Fcs, FcsTell,
      Restart

\* The two message queues stay within their capacity, neither loses, repeats
\* nor reorders a message, and neither is emptied by a restart of the process.
THEOREM QueuesAreFifo == Spec => In!KeptSpec /\ Out!KeptSpec
<1>1. Init => In!Init /\ Out!Init
  BY DEF Init, In!Init, Out!Init
<1>. QED
  BY <1>1, InStep, OutStep, Invariance, PTL DEF Spec, In!KeptSpec, Out!KeptSpec

\* Only the north thread takes from the inbound queue: what epoll_wait has
\* reported is still there when ReadMqMsg reads, so the read never finds the
\* queue empty, and no event is spent on nothing.
EventFindsMessage == northPc = "read" => inQ # <<>>

THEOREM ReadsFindAMessage == Spec => []EventFindsMessage
<1>1. Init => EventFindsMessage
  BY DEF Init, EventFindsMessage
<1>2. IInv /\ EventFindsMessage /\ [Next]_vars => EventFindsMessage'
  <2>. SUFFICES ASSUME IInv, EventFindsMessage, [Next]_vars, northPc' = "read"
                PROVE  inQ' # <<>>
    BY DEF EventFindsMessage
  <2>1. CASE UNCHANGED <<northPc, inQ>>
    BY <2>1 DEF EventFindsMessage
  <2>2. CASE NorthEvent
    BY <2>2 DEF NorthEvent
  <2>3. ASSUME UNCHANGED northPc, NEW m \in Inbound, Deliver(m) \/ Block(m) \/ Drop
        PROVE  inQ' # <<>>
    BY <2>1, <2>3, AppendProperties, EmptySeq DEF Deliver, Block, Drop, IInv, TypeOK
  <2>4. CASE FcsTell
    BY <2>3, <2>4 DEF FcsTell, Inbound
  <2>5. ASSUME NEW f \in Functions, NEW ok \in BOOLEAN, FcsAnswer(f, ok)
        PROVE  inQ' # <<>>
    <3>1. Head(outQ) \in Requests
      BY <2>5, TakeFromQueue, NorthStackAssumption DEF FcsAnswer, IInv, TypeOK
    <3>2. [kind |-> "reply", fn |-> f, ok |-> ok, life |-> Head(outQ).life] \in Inbound
      BY <3>1 DEF Inbound, Replies, Requests
    <3>. QED
      BY <2>1, <2>3, <2>5, <3>2 DEF FcsAnswer
  <2>. QED
    BY <2>1, <2>2, <2>4, <2>5
    DEF Next, vars, Main, MainSpawnNorth, MainNewServer, MainLoad,
        MainInitItems, MainStartSub, MainRun, MainDelete, North, NorthStep,
        NorthSetUp, NorthCreateEpoll, NorthStartIn, NorthStartOut, NorthAdd,
        NorthWait, NorthTimeout, NorthWaitFails, NorthRead, NorthParse,
        NorthForget, NorthConfirm, NorthAdmitPush, NorthFill, NorthThrows,
        NorthWrite, Sub, SubTimer, SubCheck, SubSkip, SubSend, SubSendUnset,
        Fcs, Restart
<1>. QED
  BY <1>1, <1>2, Invariance, PTL DEF Spec
=============================================================================
