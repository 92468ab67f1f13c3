--------------------------- MODULE GatewayProofs ----------------------------
(***************************************************************************)
(* What Gateway promises, for queues of every capacity, every set of       *)
(* items, every node set position of their nodes and every failure: it     *)
(* implements NorthStack, whose theorems hold of it, and what they say     *)
(* about the order of the threads is what ItemPush needs to implement      *)
(* ItemMirror although the maps it uses are written by another thread.     *)
(***************************************************************************)
EXTENDS Gateway, TLAPS

NSP == INSTANCE NorthStackLimits
IPP == INSTANCE ItemPushProofs WITH pc <- PushPc, loaded <- Loaded
LP  == INSTANCE NodeSetProofs WITH pc <- loadPc, Half <- 1,
                                   reply <- [status |-> "none", value |-> 0]

-----------------------------------------------------------------------------
(* The instances above repeat what Gateway takes of NorthStack and         *)
(* ItemPush; the two copies of a definition are the same.                  *)

LEMMA NorthStackHolds == NSP!NorthStackAssumption
BY GatewayAssumption DEF NS!NorthStackAssumption, NSP!NorthStackAssumption,
                         NS!FaultKinds, NSP!FaultKinds

LEMMA ItemPushHolds == IPP!ItemPushAssumption
BY GatewayAssumption DEF IP!ItemPushAssumption, IPP!ItemPushAssumption,
                         IP!Linked, IPP!Linked, IP!Blank, IPP!Blank

LEMMA SameInit == NS!Init = NSP!Init
BY DEF NS!Init, NSP!Init, NS!NoMsg, NSP!NoMsg, NS!Functions, NSP!Functions

LEMMA SameMain == NS!Main = NSP!Main
BY DEF NS!Main, NSP!Main, NS!MainSpawnNorth, NSP!MainSpawnNorth,
       NS!MainNewServer, NSP!MainNewServer, NS!SleepWasEnough,
       NSP!SleepWasEnough, NS!SettingUp, NSP!SettingUp, NS!MainLoad, NSP!MainLoad,
       NS!MainInitItems, NSP!MainInitItems, NS!MainStartSub, NSP!MainStartSub,
       NS!MainRun, NSP!MainRun, NS!MainDelete, NSP!MainDelete, NS!MainStep,
       NSP!MainStep, NS!adVars, NSP!adVars, NS!epollVars, NSP!epollVars,
       NS!flagVars, NSP!flagVars, NS!fcsVars, NSP!fcsVars

LEMMA SameNorth == NS!North = NSP!North
<1>1. NS!NorthSetUp = NSP!NorthSetUp
  BY DEF NS!NorthSetUp, NSP!NorthSetUp, NS!NorthCreateEpoll, NSP!NorthCreateEpoll,
         NS!NorthStartIn, NSP!NorthStartIn, NS!NorthStartOut, NSP!NorthStartOut,
         NS!NorthAdd, NSP!NorthAdd, NS!NorthStep, NSP!NorthStep, NS!mainVars,
         NSP!mainVars, NS!adVars, NSP!adVars, NS!epollVars, NSP!epollVars,
         NS!flagVars, NSP!flagVars, NS!fcsVars, NSP!fcsVars
<1>2. NS!NorthWait = NSP!NorthWait /\ NS!NorthRead = NSP!NorthRead
  BY DEF NS!NorthWait, NSP!NorthWait, NS!NorthEvent, NSP!NorthEvent,
         NS!NorthTimeout, NSP!NorthTimeout, NS!NorthWaitFails, NSP!NorthWaitFails,
         NS!NorthRead, NSP!NorthRead, NS!Rearmed, NSP!Rearmed, NS!NoMsg,
         NSP!NoMsg, NS!NorthStep,
         NSP!NorthStep, NS!mainVars, NSP!mainVars, NS!adVars, NSP!adVars,
         NS!epollVars, NSP!epollVars, NS!flagVars, NSP!flagVars, NS!fcsVars,
         NSP!fcsVars
<1>3. NS!NorthParse = NSP!NorthParse
  BY DEF NS!NorthParse, NSP!NorthParse, NS!NorthForget, NSP!NorthForget,
         NS!NorthConfirm, NSP!NorthConfirm, NS!NorthAdmitPush, NSP!NorthAdmitPush,
         NS!Clears, NSP!Clears, NS!PushGate, NSP!PushGate, NS!NoMsg, NSP!NoMsg,
         NS!NorthStep, NSP!NorthStep, NS!mainVars, NSP!mainVars, NS!adVars,
         NSP!adVars, NS!epollVars, NSP!epollVars, NS!flagVars, NSP!flagVars,
         NS!fcsVars, NSP!fcsVars
<1>4. /\ NS!NorthFill = NSP!NorthFill /\ NS!NorthThrows = NSP!NorthThrows
      /\ NS!NorthWrite = NSP!NorthWrite
  BY DEF NS!NorthFill, NSP!NorthFill, NS!NorthThrows, NSP!NorthThrows,
         NS!NorthWrite, NSP!NorthWrite, NS!NorthStep, NSP!NorthStep, NS!mainVars,
         NSP!mainVars, NS!adVars, NSP!adVars, NS!epollVars, NSP!epollVars,
         NS!flagVars, NSP!flagVars, NS!fcsVars, NSP!fcsVars
<1>. QED
  BY <1>1, <1>2, <1>3, <1>4 DEF NS!North, NSP!North

LEMMA SameOthers == NS!Sub = NSP!Sub /\ NS!Fcs = NSP!Fcs /\ NS!Restart = NSP!Restart
<1>1. NS!Sub = NSP!Sub
  BY DEF NS!Sub, NSP!Sub, NS!SubTimer, NSP!SubTimer, NS!SubCheck, NSP!SubCheck,
         NS!SubSkip, NSP!SubSkip, NS!SubSend, NSP!SubSend, NS!SubSendUnset,
         NSP!SubSendUnset, NS!SubStep, NSP!SubStep, NS!HandshakeDone,
         NSP!HandshakeDone, NS!AfterFailedRound, NSP!AfterFailedRound,
         NS!NextAfter, NSP!NextAfter, NS!HasRoom, NSP!HasRoom, NS!Functions,
         NSP!Functions, NS!mainVars, NSP!mainVars, NS!adVars, NSP!adVars,
         NS!epollVars, NSP!epollVars, NS!flagVars, NSP!flagVars, NS!fcsVars,
         NSP!fcsVars
<1>2. NS!Fcs = NSP!Fcs
  BY DEF NS!Fcs, NSP!Fcs, NS!FcsTell, NSP!FcsTell, NS!FcsAnswer, NSP!FcsAnswer,
         NS!Deliver, NSP!Deliver, NS!Block, NSP!Block, NS!Drop, NSP!Drop,
         NS!HasRoom, NSP!HasRoom, NS!NoMsg, NSP!NoMsg, NS!Push, NSP!Push,
         NS!Junk, NSP!Junk, NS!Functions, NSP!Functions, NS!mainVars,
         NSP!mainVars, NS!adVars, NSP!adVars, NS!epollVars, NSP!epollVars,
         NS!flagVars, NSP!flagVars, NS!fcsVars, NSP!fcsVars
<1>3. NS!Restart = NSP!Restart
  BY DEF NS!Restart, NSP!Restart, NS!NoMsg, NSP!NoMsg, NS!Functions,
         NSP!Functions, NS!fcsVars, NSP!fcsVars
<1>. QED
  BY <1>1, <1>2, <1>3

LEMMA SameNext == NS!Next = NSP!Next
BY SameMain, SameNorth, SameOthers DEF NS!Next, NSP!Next

LEMMA SamePush ==
    /\ IP!TakePush = IPP!TakePush /\ IP!FillDone = IPP!FillDone
    /\ IP!WriteDone = IPP!WriteDone
    /\ \A i \in Items, j \in Values : IP!FillMember(i, j) = IPP!FillMember(i, j)
    /\ \A i \in todo : IP!WriteItem(i) = IPP!WriteItem(i)
    /\ \A n \in Nodes, v \in Numbers : IP!ClientWrite(n, v) = IPP!ClientWrite(n, v)
<1>1. /\ IP!TakePush = IPP!TakePush /\ IP!FillDone = IPP!FillDone
      /\ IP!WriteDone = IPP!WriteDone
  BY DEF IP!TakePush, IPP!TakePush, IP!FillDone, IPP!FillDone, IP!WriteDone,
         IPP!WriteDone, IP!Step, IPP!Step, IP!Cleared, IPP!Cleared, IP!EmptyMap,
         IPP!EmptyMap, IP!mapVars, IPP!mapVars, IP!Blank, IPP!Blank
<1>2. ASSUME NEW i, NEW j
      PROVE  IP!FillMember(i, j) = IPP!FillMember(i, j)
  BY DEF IP!FillMember, IPP!FillMember, IP!Step, IPP!Step, IP!Assigned,
         IPP!Assigned, IP!AsText, IPP!AsText, IP!mapVars, IPP!mapVars
<1>3. ASSUME NEW i
      PROVE  IP!WriteItem(i) = IPP!WriteItem(i)
  BY Zenon DEF IP!WriteItem, IPP!WriteItem, IP!Step, IPP!Step, IP!Lookup,
         IPP!Lookup, IP!Touched, IPP!Touched, IP!Assigned, IPP!Assigned,
         IP!Denotes, IPP!Denotes, IP!Blank, IPP!Blank, IP!StringToNum,
         IPP!StringToNum, IP!WriteVariableValue, IPP!WriteVariableValue,
         IP!Remaining, IPP!Remaining
<1>4. ASSUME NEW n, NEW v
      PROVE  IP!ClientWrite(n, v) = IPP!ClientWrite(n, v)
  BY DEF IP!ClientWrite, IPP!ClientWrite, IP!mapVars, IPP!mapVars
<1>. QED
  BY <1>1, <1>2, <1>3, <1>4

\* The same holds of the definitions the properties are made of.
LEMMA SameState ==
    /\ NS!UsesMaps = NSP!UsesMaps /\ NS!TypeOK = NSP!TypeOK
    /\ IP!TypeOK = IPP!TypeOK /\ IP!ConfigKept = IPP!ConfigKept
    /\ IP!Linked = IPP!Linked
<1>1. NS!UsesMaps = NSP!UsesMaps
  BY DEF NS!UsesMaps, NSP!UsesMaps
<1>2. NS!TypeOK = NSP!TypeOK
  BY DEF NS!TypeOK, NSP!TypeOK, NS!Lives, NSP!Lives, NS!MainPcs, NSP!MainPcs,
         NS!NorthPcs, NSP!NorthPcs, NS!SubPcs, NSP!SubPcs, NS!Functions,
         NSP!Functions, NS!Inbound, NSP!Inbound, NS!Replies, NSP!Replies,
         NS!Requests, NSP!Requests, NS!NoMsg, NSP!NoMsg, NS!Push, NSP!Push,
         NS!Junk, NSP!Junk
<1>3. IP!TypeOK = IPP!TypeOK /\ IP!Linked = IPP!Linked
  BY DEF IP!TypeOK, IPP!TypeOK, IP!PartialMaps, IPP!PartialMaps, IP!Texts,
         IPP!Texts, IP!Blank, IPP!Blank, IP!Linked, IPP!Linked
<1>4. IP!ConfigKept = IPP!ConfigKept
  BY DEF IP!ConfigKept, IPP!ConfigKept, IP!Linked, IPP!Linked, IP!Blank, IPP!Blank
<1>. QED
  BY <1>1, <1>2, <1>3, <1>4

-----------------------------------------------------------------------------
(* Every step of the whole is a step of NorthStack, or none of its business.*)

LEMMA StepIsNorthStep == [Next]_vars => [NS!Next]_(NS!vars)
<1>. SUFFICES ASSUME [Next]_vars PROVE [NS!Next]_(NS!vars)
  OBVIOUS
<1>1. CASE Main
  <2>1. ASSUME NEW call, Configuring(call)
        PROVE  NS!Next \/ UNCHANGED northVars
    BY <2>1 DEF Configuring, NS!Next, NS!Main
  <2>. QED
    BY <1>1, <2>1 DEF Main, Import, MainLoad, ConfigureLinks, Compose, NS!Next,
                      NS!Main, NS!vars, northVars
<1>2. CASE North
  BY <1>2 DEF North, AdmitPush, FillMember, FillDone, Throws, WriteItem,
              WriteCrashes, WriteDone, NS!Next, NS!North, NS!NorthParse,
              NS!vars, northVars
<1>3. CASE Others \/ Restart
  BY <1>3 DEF Others, Restart, NS!Next
<1>4. CASE (\E n \in Nodes, v \in ClientValues : ClientWrite(n, v)) \/ UNCHANGED vars
  BY <1>4 DEF ClientWrite, NS!vars, northVars, vars
<1>. QED
  BY <1>1, <1>2, <1>3, <1>4 DEF Next

\* The whole does what module NorthStack says, which takes the import, the
\* configuration, filling the map and writing its items for one step each.
THEOREM ImplementsNorthStack == Spec => NS!Spec
<1>1. Init => NS!Init
  BY DEF Init
<1>. QED
  BY <1>1, StepIsNorthStep, PTL DEF Spec, NS!Spec

-----------------------------------------------------------------------------
(* The order of the threads and of the configuration.                      *)

Early == {"boot", "sleep", "load"}

\* The main thread configures the items call by call, all before it starts the
\* requesting thread.
ConfigOrder ==
    /\ config \in 0..4
    /\ mainPc \in Early => config = 0
    /\ mainPc = "items" => config < 4
    /\ mainPc \notin Early \union {"items"} => config = 4
    /\ addresses = IF config >= 1 THEN IPP!Linked ELSE {}
    /\ asks = IF config >= 3 THEN IPP!Linked ELSE {}
    /\ composed \in SUBSET NS!Functions
    /\ config >= 2 => "SetPushMethod" \in composed
    /\ config >= 3 => "SubItem" \in composed
    /\ config >= 4 => "Suspend" \in composed

\* Before it does, the maps are empty and the values of the nodes arbitrary.
MapsFresh ==
    /\ items = IPP!EmptyMap /\ todo = {} /\ members = 0
    /\ links = IPP!EmptyMap /\ types = IPP!EmptyMap
    /\ node \in [Nodes -> Numbers]

MapsOrder ==
    /\ config = 0 => MapsFresh
    /\ config >= 1 => IPP!IInv

GInv == NSP!IInv /\ ConfigOrder /\ MapsOrder

\* The north thread uses the maps only after the last call.
LEMMA UseIsLate ==
    ASSUME NSP!IInv, ConfigOrder, NS!UsesMaps
    PROVE  config = 4
<1>1. NSP!UsesMaps
  BY SameState
<1>2. mainPc \notin Early \union {"items"}
  BY <1>1 DEF NSP!IInv, NSP!GateOrder, Early
<1>. QED
  BY <1>2 DEF ConfigOrder

LEMMA InitGInv == Init => GInv
<1>. SUFFICES ASSUME Init PROVE GInv
  OBVIOUS
<1>1. NSP!IInv
  BY SameInit, NSP!InitIInv, NorthStackHolds DEF Init
<1>2. ConfigOrder
  BY DEF Init, NS!Init, ConfigOrder, Early, NS!Functions
<1>3. MapsOrder
  BY ItemPushHolds DEF Init, MapsOrder, MapsFresh, IP!EmptyMap, IPP!EmptyMap,
                       IP!Blank, IPP!Blank, IPP!ItemPushAssumption
<1>. QED
  BY <1>1, <1>2, <1>3 DEF GInv

LEMMA NorthInvStep == NSP!IInv /\ [Next]_vars => NSP!IInv'
<1>. SUFFICES ASSUME NSP!IInv, [Next]_vars PROVE NSP!IInv'
  OBVIOUS
<1>1. [NSP!Next]_(NSP!vars)
  BY StepIsNorthStep, SameNext DEF NS!vars, NSP!vars
<1>. QED
  BY <1>1, NSP!StepIInv, NorthStackHolds

\* Steps that leave the main thread where it is leave the order alone.
LEMMA ConfigKeptBy ==
    ASSUME ConfigOrder, UNCHANGED configVars,
           mainPc' = mainPc \/ (mainPc \in Early /\ mainPc' \in Early)
           \/ (mainPc \notin Early \union {"items"}
               /\ mainPc' \notin Early \union {"items"})
    PROVE  ConfigOrder'
BY DEF ConfigOrder, configVars, Early, IPP!Linked,
       NS!Functions

LEMMA ConfigStep == ConfigOrder /\ [Next]_vars => ConfigOrder'
<1>. SUFFICES ASSUME ConfigOrder, [Next]_vars PROVE ConfigOrder'
  OBVIOUS
<1>1. CASE Import \/ North \/ Others
           \/ (\E n \in Nodes, v \in ClientValues : ClientWrite(n, v)) \/ UNCHANGED vars
  <2>1. UNCHANGED <<mainPc, configVars>>
    <3>1. ASSUME North PROVE UNCHANGED <<mainPc, configVars>>
      BY <3>1 DEF North, AdmitPush, FillMember, FillDone, Throws, WriteItem,
                  WriteCrashes, WriteDone, NS!NorthSetUp, NS!NorthCreateEpoll,
                  NS!NorthStartIn, NS!NorthStartOut, NS!NorthAdd, NS!NorthWait,
                  NS!NorthEvent, NS!NorthTimeout, NS!NorthWaitFails,
                  NS!NorthRead, NS!NorthForget, NS!NorthConfirm,
                  NS!NorthAdmitPush, NS!NorthFill, NS!NorthThrows,
                  NS!NorthWrite, NS!mainVars, northVars
    <3>2. ASSUME Others PROVE UNCHANGED <<mainPc, configVars>>
      BY <3>2 DEF Others, NS!Sub, NS!SubTimer, NS!SubCheck, NS!SubSkip,
                  NS!SubSend, NS!SubSendUnset, NS!Fcs, NS!FcsTell,
                  NS!FcsAnswer, NS!mainVars
    <3>. QED
      BY <1>1, <3>1, <3>2 DEF Import, ClientWrite, northVars, vars
  <2>. QED
    BY <2>1, ConfigKeptBy
<1>2. CASE MainLoad
  <2>1. mainPc = "load" /\ mainPc' = "items" /\ UNCHANGED configVars
    BY <1>2 DEF MainLoad, NS!MainLoad, NS!MainStep
  <2>. QED
    BY <2>1 DEF ConfigOrder, configVars, Early, IPP!Linked,
       NS!Functions
<1>3. CASE ConfigureLinks
  <2>1. /\ mainPc = "items" /\ config < 4 /\ config' = config + 1
        /\ ConfigCalls[config + 1] = "links"
        /\ config' # 4 => mainPc' = mainPc
    BY <1>3 DEF ConfigureLinks, Configuring, ConfigCalls, northVars
  <2>2. config \in 0..3
    BY <2>1 DEF ConfigOrder
  <2>3. config = 0
    BY <2>1, <2>2 DEF ConfigCalls
  <2>4. addresses' = IPP!Linked /\ UNCHANGED <<composed, asks>>
    BY <1>3 DEF ConfigureLinks, IPP!Linked
  <2>. QED
    BY <2>1, <2>3, <2>4 DEF ConfigOrder, Early, NS!Functions
<1>4. ASSUME NEW f \in NS!Functions, Compose(f)
      PROVE  ConfigOrder'
  <2>1. /\ mainPc = "items" /\ config < 4 /\ config' = config + 1
        /\ ConfigCalls[config + 1] = f
        /\ mainPc' = IF config' = 4 THEN "start_sub" ELSE mainPc
    BY <1>4 DEF Compose, Configuring, ConfigCalls, NS!MainInitItems, NS!MainStep,
                northVars
  <2>2. /\ config # 0
        /\ config = 1 => f = "SetPushMethod"
        /\ config = 2 => f = "SubItem"
        /\ config = 3 => f = "Suspend"
    BY <2>1 DEF ConfigCalls, NS!Functions
  <2>3. /\ addresses' = addresses /\ composed' = composed \union {f}
        /\ asks' = IF f = "SubItem" THEN addresses ELSE asks
    BY <1>4 DEF Compose
  <2>4. config \in 1..3
    BY <2>1, <2>2 DEF ConfigOrder
  <2>. QED
    BY <2>1, <2>2, <2>3, <2>4 DEF ConfigOrder, Early, IPP!Linked, NS!Functions
<1>5. CASE /\ NS!MainSpawnNorth \/ NS!MainNewServer \/ NS!MainStartSub
              \/ NS!MainRun \/ NS!MainDelete
           /\ UNCHANGED <<pushVars, links, types, loadVars, configVars>>
  <2>1. UNCHANGED configVars
    BY <1>5
  <2>2. \/ mainPc \in Early /\ mainPc' \in Early
        \/ mainPc \notin Early \union {"items"} /\ mainPc' \notin Early \union {"items"}
    BY <1>5 DEF NS!MainSpawnNorth, NS!MainNewServer, NS!MainStartSub, NS!MainRun,
                NS!MainDelete, NS!MainStep, Early
  <2>. QED
    BY <2>1, <2>2, ConfigKeptBy
<1>6. CASE Restart
  <2>1. /\ config' = 0 /\ mainPc' = "boot"
        /\ addresses' = {} /\ asks' = {} /\ composed' = {}
    BY <1>6 DEF Restart, NS!Restart
  <2>. QED
    BY <2>1 DEF ConfigOrder, Early
<1>. QED
  BY <1>1, <1>2, <1>3, <1>4, <1>5, <1>6 DEF Next, Main

\* A step that leaves the maps alone, and the north thread where it is unless
\* it ends the process; nodes are created before the configuration only.
Quiet ==
    /\ UNCHANGED <<pushVars, links, types>>
    /\ config' = config \/ (config >= 1 /\ config' >= 1)
    /\ alive' \in BOOLEAN /\ (alive' => alive /\ PushPc' = PushPc)
    /\ IPP!Awaiting' = IPP!Awaiting
    /\ Loaded' \subseteq Loaded \/ config = 0

LEMMA QuietMaps == MapsOrder /\ Quiet => MapsOrder'
<1>. SUFFICES ASSUME MapsOrder, Quiet PROVE MapsOrder'
  OBVIOUS
<1>1. PushPc' \in {"wait", "fill", "write"} /\ Loaded' \in SUBSET Nodes
  BY DEF PushPc, Loaded
<1>2. CASE config = 0
  BY <1>2 DEF Quiet, MapsOrder, MapsFresh, pushVars, IPP!EmptyMap, IPP!Blank
<1>3. ASSUME IPP!IInv PROVE IPP!IInv'
  <2>1. IPP!TypeOK'
    BY <1>1, <1>3 DEF Quiet, IPP!IInv, IPP!TypeOK, IPP!PartialMaps, IPP!Texts,
                      IPP!Blank, pushVars
  <2>2. IPP!ConfigKept'
    BY <1>3 DEF Quiet, IPP!IInv, IPP!ConfigKept, IPP!Linked, IPP!Blank, pushVars
  <2>3. IPP!LoopOrder'
    BY <1>3 DEF Quiet, IPP!IInv, IPP!LoopOrder, pushVars
  <2>. QED
    BY <2>1, <2>2, <2>3 DEF IPP!IInv
<1>. QED
  BY <1>2, <1>3 DEF Quiet, MapsOrder, MapsFresh, pushVars

\* A step of the push is one of ItemPush, which keeps the maps in order.
LEMMA PushStep ==
    ASSUME NSP!IInv, NSP!IInv', ConfigOrder, ConfigOrder', MapsOrder,
           config' = config, NS!UsesMaps \/ NS!UsesMaps' \/ mainPc = "serve",
           [IPP!Next]_(IPP!vars)
    PROVE  IPP!IInv /\ MapsOrder'
<1>1. config = 4
  <2>1. ASSUME NS!UsesMaps' PROVE config' = 4
    <3>1. NSP!UsesMaps'
      BY <2>1 DEF NS!UsesMaps, NSP!UsesMaps
    <3>2. mainPc' \notin Early \union {"items"}
      BY <3>1 DEF NSP!IInv, NSP!GateOrder, Early
    <3>. QED
      BY <3>2 DEF ConfigOrder
  <2>. QED
    BY <2>1, UseIsLate DEF ConfigOrder, Early
<1>2. IPP!IInv
  BY <1>1 DEF MapsOrder
<1>3. IPP!IInv'
  BY <1>2, IPP!StepIInv, ItemPushHolds
<1>. QED
  BY <1>1, <1>2, <1>3 DEF MapsOrder

LEMMA PushStarts == IPP!Init => IPP!IInv
BY IPP!InitIInv, ItemPushHolds

\* The first call of the configuration is what ItemPush starts with.
LEMMA LinksStep ==
    ASSUME MapsOrder, NSP!IInv, ConfigOrder, ConfigureLinks
    PROVE  MapsOrder' /\ UNCHANGED <<pushVars, northPc, server, present, alive>>
<1>1. config = 0 /\ config' = 1 /\ UNCHANGED <<pushVars, northPc, server, present, alive>>
  <2>1. /\ config < 4 /\ config' = config + 1 /\ ConfigCalls[config + 1] = "links"
        /\ UNCHANGED <<pushVars, northPc, server, present, alive>>
    BY DEF ConfigureLinks, Configuring, ConfigCalls, northVars, loadVars,
           NS!MainInitItems, NS!MainStep
  <2>2. config \in 0..3
    BY <2>1 DEF ConfigOrder
  <2>3. config = 0
    BY <2>1, <2>2 DEF ConfigCalls
  <2>. QED
    BY <2>1, <2>3
<1>2. MapsFresh /\ links' = NodeOf /\ types' = [n \in Nodes |-> "Double"]
  BY <1>1 DEF MapsOrder, ConfigureLinks, ConfiguredTypes
<1>3. PushPc = "wait"
  <2>1. ~NS!UsesMaps
    BY <1>1, UseIsLate
  <2>. QED
    BY <2>1 DEF NS!UsesMaps, PushPc
<1>4. alive' = TRUE /\ PushPc' = "wait" /\ Loaded' \in SUBSET Nodes
  BY <1>1, <1>3 DEF ConfigureLinks, Configuring, NSP!IInv, NSP!TypeOK, PushPc, Loaded
<1>5. IPP!Init'
  BY <1>1, <1>2, <1>4 DEF IPP!Init, MapsFresh, pushVars, IPP!EmptyMap, IPP!Blank
<1>6. IPP!IInv'
  BY <1>5, PushStarts, PTL
<1>. QED
  BY <1>1, <1>6 DEF MapsOrder

-----------------------------------------------------------------------------
(* The steps of the whole: quiet ones, those of the push, the configuration *)
(* of the links, and the restart.                                          *)

\* A step of the push, by the north thread or a client.
Pushing ==
    /\ config' = config
    /\ NS!UsesMaps \/ NS!UsesMaps' \/ mainPc = "serve"
    /\ [IPP!Next]_(IPP!vars)

LEMMA QuietBy ==
    ASSUME UNCHANGED <<pushVars, links, types, present, config, alive>>,
           server' = server \/ server' = "deleted",
           PushPc' = PushPc, alive \in BOOLEAN
    PROVE  Quiet
BY DEF Quiet, IPP!Awaiting, pushVars, Loaded

LEMMA MainKinds ==
    ASSUME NSP!IInv, ConfigOrder, alive \in BOOLEAN, Main
    PROVE  Quiet \/ ConfigureLinks
<1>1. CASE Import
  <2>1. /\ UNCHANGED <<northVars, pushVars, links, types, configVars>>
        /\ mainPc = "load"
    BY <1>1 DEF Import
  <2>2. config = 0
    BY <2>1 DEF ConfigOrder, Early
  <2>. QED
    BY <2>1, <2>2 DEF Quiet, PushPc, IPP!Awaiting, northVars, pushVars, configVars
<1>2. CASE MainLoad
  <2>1. UNCHANGED <<pushVars, links, types, present, config, alive, server, northPc>>
    BY <1>2 DEF MainLoad, NS!MainLoad, NS!MainStep, L!CheckResult, configVars
  <2>. QED
    BY <2>1, QuietBy DEF PushPc
<1>3. ASSUME NEW f \in NS!Functions, Compose(f)
      PROVE  Quiet
  <2>1. /\ UNCHANGED <<pushVars, links, types, present, alive, server, northPc>>
        /\ config < 4 /\ config' = config + 1 /\ ConfigCalls[config + 1] = f
    BY <1>3 DEF Compose, Configuring, ConfigCalls, NS!MainInitItems, NS!MainStep,
                northVars, loadVars
  <2>2. config # 0
    BY <2>1 DEF ConfigCalls, NS!Functions
  <2>3. config >= 1 /\ config' >= 1
    BY <2>1, <2>2 DEF ConfigOrder
  <2>. QED
    BY <2>1, <2>3 DEF Quiet, PushPc, IPP!Awaiting, Loaded, pushVars
<1>4. CASE /\ NS!MainNewServer
           /\ UNCHANGED <<pushVars, links, types, loadVars, configVars>>
  <2>1. /\ UNCHANGED <<pushVars, links, types, config, alive, northPc>>
        /\ mainPc = "sleep"
    BY <1>4 DEF NS!MainNewServer, NS!MainStep, configVars
  <2>2. config = 0
    BY <2>1 DEF ConfigOrder, Early
  <2>. QED
    BY <2>1, <2>2 DEF Quiet, PushPc, IPP!Awaiting, pushVars
<1>5. CASE /\ NS!MainSpawnNorth \/ NS!MainStartSub \/ NS!MainRun \/ NS!MainDelete
           /\ UNCHANGED <<pushVars, links, types, loadVars, configVars>>
  <2>1. /\ UNCHANGED <<pushVars, links, types, present, config, alive>>
        /\ server' = server \/ server' = "deleted"
    BY <1>5 DEF NS!MainSpawnNorth, NS!MainStartSub, NS!MainRun, NS!MainDelete,
                NS!MainStep, configVars, loadVars
  <2>2. PushPc' = PushPc
    <3>1. northPc' = northPc \/ (mainPc = "boot" /\ northPc' = "epoll")
      BY <1>5 DEF NS!MainSpawnNorth, NS!MainStartSub, NS!MainRun, NS!MainDelete,
                  NS!MainStep
    <3>. QED
      BY <3>1 DEF PushPc, NSP!IInv, NSP!ReadyListed
  <2>. QED
    BY <2>1, <2>2, QuietBy
<1>. QED
  BY <1>1, <1>2, <1>3, <1>4, <1>5 DEF Main

LEMMA NorthKinds ==
    ASSUME alive \in BOOLEAN, North
    PROVE  Quiet \/ Pushing
<1>1. CASE AdmitPush
  <2>1. IPP!TakePush /\ config' = config /\ northPc' = "fill"
    BY <1>1, SamePush DEF AdmitPush, NS!NorthAdmitPush, NS!NorthStep, configVars
  <2>. QED
    BY <2>1 DEF Pushing, NS!UsesMaps, IPP!Next, IPP!North
<1>2. ASSUME NEW i \in Items, NEW j \in Values, FillMember(i, j)
      PROVE  Pushing
  <2>1. IPP!FillMember(i, j) /\ config' = config
    BY <1>2, SamePush DEF FillMember, configVars
  <2>2. NS!UsesMaps
    BY <2>1 DEF IPP!FillMember, IPP!Step, PushPc, NS!UsesMaps
  <2>3. j \in IPP!Json
    BY GatewayAssumption DEF IP!Json, IPP!Json, IP!Texts, IPP!Texts
  <2>. QED
    BY <2>1, <2>2, <2>3 DEF Pushing, IPP!Next, IPP!North
<1>3. CASE FillDone
  <2>1. IPP!FillDone /\ config' = config /\ NS!UsesMaps
    BY <1>3, SamePush DEF FillDone, NS!NorthFill, NS!NorthStep, NS!UsesMaps, configVars
  <2>. QED
    BY <2>1 DEF Pushing, IPP!Next, IPP!North
<1>4. CASE Throws
  BY <1>4 DEF Throws, NS!NorthThrows, NS!fcsVars, NS!mainVars, Quiet, PushPc,
              IPP!Awaiting, Loaded, pushVars, loadVars, configVars
<1>5. ASSUME NEW i \in todo, WriteItem(i)
      PROVE  Pushing
  <2>1. IPP!WriteItem(i) /\ config' = config
    BY <1>5, SamePush DEF WriteItem, configVars
  <2>2. NS!UsesMaps
    BY <2>1 DEF IPP!WriteItem, IPP!Step, PushPc, NS!UsesMaps
  <2>. QED
    BY <2>1, <2>2 DEF Pushing, IPP!Next, IPP!North
<1>6. CASE WriteCrashes
  BY <1>6 DEF WriteCrashes, NS!NorthWrite, NS!NorthStep, NS!mainVars, Quiet,
              PushPc, IPP!Awaiting, Loaded, pushVars, loadVars, configVars
<1>7. CASE WriteDone
  <2>1. IPP!WriteDone /\ config' = config /\ NS!UsesMaps
    BY <1>7, SamePush DEF WriteDone, NS!NorthWrite, NS!NorthStep, NS!UsesMaps, configVars
  <2>. QED
    BY <2>1 DEF Pushing, IPP!Next, IPP!North
<1>8. CASE /\ NS!NorthSetUp \/ NS!NorthWait \/ NS!NorthRead
              \/ NS!NorthForget \/ NS!NorthConfirm
           /\ UNCHANGED <<pushVars, links, types, loadVars, configVars>>
  <2>1. /\ UNCHANGED <<pushVars, links, types, present, config, alive, server>>
        /\ northPc \notin {"fill", "write"} /\ northPc' \notin {"fill", "write"}
    BY <1>8 DEF NS!NorthSetUp, NS!NorthCreateEpoll, NS!NorthStartIn,
                NS!NorthStartOut, NS!NorthAdd, NS!NorthWait, NS!NorthEvent,
                NS!NorthTimeout, NS!NorthWaitFails, NS!NorthRead,
                NS!NorthForget, NS!NorthConfirm, NS!NorthStep, NS!mainVars,
                loadVars, configVars
  <2>. QED
    BY <2>1, QuietBy DEF PushPc
<1>. QED
  BY <1>1, <1>2, <1>3, <1>4, <1>5, <1>6, <1>7, <1>8 DEF North

LEMMA OtherKinds ==
    ASSUME alive \in BOOLEAN, Others \/ UNCHANGED vars
    PROVE  Quiet
<1>1. /\ UNCHANGED <<pushVars, links, types, present, config, server, northPc>>
      /\ alive' = alive \/ alive' = FALSE
  BY DEF Others, NS!Sub, NS!SubTimer, NS!SubCheck, NS!SubSkip, NS!SubSend,
         NS!SubSendUnset, NS!SubStep, NS!Fcs, NS!FcsTell, NS!FcsAnswer,
         NS!mainVars, vars, northVars, loadVars, configVars
<1>2. PushPc' = PushPc /\ Loaded' = Loaded
  BY <1>1 DEF PushPc, Loaded
<1>3. IPP!Awaiting' = IPP!Awaiting
  BY <1>1, <1>2 DEF IPP!Awaiting, pushVars
<1>4. alive' \in BOOLEAN /\ (alive' => alive)
  <2>1. CASE alive' = alive
    BY <2>1, Zenon
  <2>2. CASE alive' = FALSE
    BY <2>2
  <2>. QED
    BY <1>1, <2>1, <2>2
<1>. QED
  BY <1>1, <1>2, <1>3, <1>4 DEF Quiet

LEMMA ClientKinds ==
    ASSUME NEW n \in Nodes, NEW v \in ClientValues, ClientWrite(n, v)
    PROVE  Pushing
<1>. v \in Numbers
  BY GatewayAssumption
<1>1. IPP!ClientWrite(n, v) /\ config' = config /\ mainPc = "serve"
  BY SamePush DEF ClientWrite, configVars
<1>. QED
  BY <1>1 DEF Pushing, IPP!Next, IPP!Client

LEMMA StepKinds ==
    ASSUME GInv, [Next]_vars
    PROVE  Quiet \/ Pushing \/ ConfigureLinks \/ Restart
<1>1. NSP!IInv /\ ConfigOrder /\ alive \in BOOLEAN
  BY DEF GInv, NSP!IInv, NSP!TypeOK
<1>. QED
  BY <1>1, MainKinds, NorthKinds, OtherKinds, ClientKinds DEF Next

\* The invariant of the whole is inductive.
LEMMA StepGInv == GInv /\ [Next]_vars => GInv'
<1>. SUFFICES ASSUME GInv, [Next]_vars PROVE GInv'
  OBVIOUS
<1>1. NSP!IInv' /\ ConfigOrder'
  BY NorthInvStep, ConfigStep DEF GInv
<1>2. MapsOrder'
  <2>1. CASE Restart
    BY <2>1, ItemPushHolds DEF Restart, MapsOrder, MapsFresh, IP!EmptyMap,
            IPP!EmptyMap, IP!Blank, IPP!Blank, IPP!ItemPushAssumption
  <2>2. CASE Pushing
    BY <1>1, <2>2, PushStep DEF GInv, Pushing
  <2>. QED
    BY <2>1, <2>2, StepKinds, QuietMaps, LinksStep DEF GInv
<1>. QED
  BY <1>1, <1>2 DEF GInv

\* The strengthened invariant holds of every reachable state.
THEOREM Invariance == Spec => []GInv
<1>. QED
  BY InitGInv, StepGInv, PTL DEF Spec

-----------------------------------------------------------------------------
(* The import, as module NodeSet says it goes, and when it is over.        *)

\* What the main thread does after the call of testNS finds it finished.
LoadOrder == mainPc \notin Early => loadPc = "serve"

LInv == LP!IInv /\ LoadOrder

LEMMA NodeSetHolds == LP!NodeSetAssumption
BY DEF LP!NodeSetAssumption

LEMMA SameLoad ==
    /\ L!Init = LP!Init /\ L!TreeNodes = LP!TreeNodes
    /\ L!ImportDone = LP!ImportDone /\ L!CheckResult = LP!CheckResult
    /\ \A n \in L!TreeNodes :
          /\ L!Begin(n) = LP!Begin(n) /\ L!BeginFails(n) = LP!BeginFails(n)
          /\ L!Finish(n) = LP!Finish(n) /\ L!FinishFails(n) = LP!FinishFails(n)
<1>1. L!TreeNodes = LP!TreeNodes /\ L!Count = LP!Count
  BY DEF L!TreeNodes, LP!TreeNodes, L!Count, LP!Count
<1>2. /\ L!Init = LP!Init
      /\ L!ImportDone = LP!ImportDone /\ L!CheckResult = LP!CheckResult
  BY <1>1 DEF L!Init, LP!Init, L!ImportDone, LP!ImportDone, L!CheckResult,
              LP!CheckResult, L!Accepted, LP!Accepted, L!Method, LP!Method,
              L!NoReply, LP!NoReply
<1>3. ASSUME NEW n \in L!TreeNodes
      PROVE  /\ L!Importing(n) = LP!Importing(n) /\ L!Parent(n) = LP!Parent(n)
             /\ L!Succeed = LP!Succeed /\ L!Fail = LP!Fail
             /\ L!Standard = LP!Standard /\ L!WithRule = LP!WithRule
  BY <1>1 DEF L!Importing, LP!Importing, L!NodeAt, LP!NodeAt, L!Parent, LP!Parent,
              L!Method, LP!Method, L!Standard, LP!Standard, L!Succeed, LP!Succeed,
              L!Fail, LP!Fail, L!FailureStatus, LP!FailureStatus, L!WithRule,
              LP!WithRule
<1>4. ASSUME NEW n \in L!TreeNodes
      PROVE  L!Subtree(n) = LP!Subtree(n)
  BY <1>1 DEF L!Subtree, LP!Subtree, L!Parent, LP!Parent, L!Method, LP!Method,
              L!Standard, LP!Standard
<1>5. ASSUME NEW n \in L!TreeNodes
      PROVE  /\ L!Begin(n) = LP!Begin(n) /\ L!BeginFails(n) = LP!BeginFails(n)
             /\ L!Finish(n) = LP!Finish(n) /\ L!FinishFails(n) = LP!FinishFails(n)
  BY <1>1, <1>3, <1>4
     DEF L!Begin, LP!Begin, L!BeginFails, LP!BeginFails, L!Finish, LP!Finish,
         L!FinishFails, LP!FinishFails
<1>. QED
  BY <1>1, <1>2, <1>5

LEMMA SameLoadState ==
    /\ L!TypeOK = LP!TypeOK /\ L!ParentsFirst = LP!ParentsFirst
    /\ L!ChildrenFinishedFirst = LP!ChildrenFinishedFirst
    /\ L!AllOrError = LP!AllOrError
    /\ L!CallbackIsDeclared = LP!CallbackIsDeclared
<1>1. L!TypeOK = LP!TypeOK
  BY DEF L!TypeOK, LP!TypeOK, L!TreeNodes, LP!TreeNodes, L!Count, LP!Count,
         L!Int32, LP!Int32
<1>2. L!ParentsFirst = LP!ParentsFirst
  BY DEF L!ParentsFirst, LP!ParentsFirst, L!Parent, LP!Parent, L!Method, LP!Method,
         L!Standard, LP!Standard, L!Count, LP!Count, L!NodeAt, LP!NodeAt
<1>3. L!ChildrenFinishedFirst = LP!ChildrenFinishedFirst
  BY DEF L!ChildrenFinishedFirst, LP!ChildrenFinishedFirst, L!TreeNodes,
         LP!TreeNodes, L!Count, LP!Count, L!Parent, LP!Parent, L!Method,
         LP!Method, L!Standard, LP!Standard
<1>4. /\ L!AllOrError = LP!AllOrError
      /\ L!CallbackIsDeclared = LP!CallbackIsDeclared
  BY DEF L!AllOrError, LP!AllOrError, L!CallbackIsDeclared, LP!CallbackIsDeclared,
         L!TreeNodes, LP!TreeNodes, L!Count, LP!Count, L!Method, LP!Method,
         L!Input, LP!Input, L!Output, LP!Output
<1>. QED
  BY <1>1, <1>2, <1>3, <1>4

LEMMA LoadStarts == LP!Init => LP!IInv
BY LP!InitInv, NodeSetHolds

LEMMA RestartLoads == Restart => LP!Init'
BY DEF Restart, LP!Init, LP!NoReply

LEMMA LoadKept == LP!IInv /\ UNCHANGED loadVars => LP!IInv'
BY DEF loadVars, LP!IInv, LP!TypeOK, LP!Progress, LP!Outcome,
       LP!ChildrenFinishedFirst

\* Only the import itself, the test of its result and a restart change it.
LEMMA LoadKinds ==
    ASSUME [Next]_vars
    PROVE  Import \/ MainLoad \/ Restart \/ UNCHANGED loadVars
BY DEF Next, Main, ConfigureLinks, Compose, Configuring, North, AdmitPush,
       FillMember, FillDone, Throws, WriteItem, WriteCrashes, WriteDone,
       Others, ClientWrite, vars

LEMMA StepLoad == LP!IInv /\ [Next]_vars => LP!IInv'
<1>. SUFFICES ASSUME LP!IInv, [Next]_vars PROVE LP!IInv'
  OBVIOUS
<1>1. CASE Import
  <2>1. ASSUME NEW n \in L!TreeNodes,
               L!Begin(n) \/ L!Finish(n) \/ L!BeginFails(n) \/ L!FinishFails(n)
        PROVE  LP!IInv'
    BY <2>1, SameLoad, NodeSetHolds, LP!BeginInv, LP!BeginFailsInv, LP!FinishInv,
       LP!FinishFailsInv
  <2>2. CASE L!ImportDone
    BY <2>2, SameLoad, NodeSetHolds, LP!ServerInv
  <2>. QED
    BY <1>1, <2>1, <2>2 DEF Import
<1>2. CASE MainLoad
  BY <1>2, SameLoad, NodeSetHolds, LP!ServerInv DEF MainLoad
<1>3. CASE Restart
  BY <1>3, RestartLoads, LoadStarts, PTL
<1>. QED
  BY <1>1, <1>2, <1>3, LoadKinds, LoadKept

LEMMA StepLoadOrder == LoadOrder /\ [Next]_vars => LoadOrder'
<1>. SUFFICES ASSUME LoadOrder, [Next]_vars PROVE LoadOrder'
  OBVIOUS
<1>1. CASE Import
  BY <1>1 DEF Import, northVars, LoadOrder, Early
<1>2. CASE MainLoad
  BY <1>2 DEF MainLoad, L!CheckResult, LoadOrder
<1>3. CASE Restart
  BY <1>3 DEF Restart, NS!Restart, LoadOrder, Early
<1>4. CASE (Main /\ ~Import /\ ~MainLoad) \/ UNCHANGED vars
  <2>1. mainPc' \notin Early => mainPc \notin Early
    BY <1>4 DEF Main, ConfigureLinks, Compose, Configuring, NS!MainSpawnNorth,
                NS!MainNewServer, NS!MainStartSub, NS!MainRun, NS!MainDelete,
                NS!MainStep, vars, northVars, Early
  <2>2. loadPc' = loadPc
    BY <1>4 DEF Main, ConfigureLinks, Compose, Configuring, vars, loadVars
  <2>. QED
    BY <2>1, <2>2 DEF LoadOrder
<1>5. CASE North
  BY <1>5 DEF North, AdmitPush, FillMember, FillDone, Throws, WriteItem,
              WriteCrashes, WriteDone, NS!NorthSetUp, NS!NorthCreateEpoll,
              NS!NorthStartIn, NS!NorthStartOut, NS!NorthAdd, NS!NorthWait,
              NS!NorthEvent, NS!NorthTimeout, NS!NorthWaitFails,
              NS!NorthRead, NS!NorthForget, NS!NorthConfirm,
              NS!NorthAdmitPush, NS!NorthFill, NS!NorthThrows,
              NS!NorthWrite, NS!mainVars, northVars, loadVars, LoadOrder
<1>6. CASE Others \/ \E n \in Nodes, v \in ClientValues : ClientWrite(n, v)
  BY <1>6 DEF Others, NS!Sub, NS!SubTimer, NS!SubCheck, NS!SubSkip,
              NS!SubSend, NS!SubSendUnset, NS!Fcs, NS!FcsTell, NS!FcsAnswer,
              NS!mainVars, ClientWrite, northVars, loadVars, LoadOrder
<1>. QED
  BY <1>1, <1>2, <1>3, <1>4, <1>5, <1>6 DEF Next

\* The invariant of NodeSet holds of the import in every reachable state.
THEOREM LoadInvariance == Spec => []LInv
<1>1. Init => LInv
  BY SameLoad, LoadStarts DEF Init, NS!Init, LInv, LoadOrder, Early
<1>. QED
  BY <1>1, StepLoad, StepLoadOrder, PTL DEF Spec, LInv

\* What NodeSet promises of the import and its result holds of the whole, in
\* which other threads run beside it and the process may end in the middle.
THEOREM ImportIsRight ==
    Spec => [](/\ L!ParentsFirst /\ L!ChildrenFinishedFirst
               /\ L!AllOrError /\ L!CallbackIsDeclared)
<1>1. LInv => /\ L!ParentsFirst /\ L!ChildrenFinishedFirst
              /\ L!AllOrError /\ L!CallbackIsDeclared
  BY SameLoadState, NodeSetHolds, LP!InvBeginOrder, LP!InvFinishOrder,
     LP!InvResultIsTrue, LP!InvCallbackSafe DEF LInv
<1>. QED
  BY <1>1, LoadInvariance, PTL

LEMMA ImportRefines ==
    ASSUME LP!IInv, LP!IInv', [Next]_vars
    PROVE  [LP!T!Next \/ LP!T!Init']_(LP!T!treeVars)
<1>1. ASSUME NEW n \in L!TreeNodes,
             L!Begin(n) \/ L!Finish(n) \/ L!BeginFails(n) \/ L!FinishFails(n)
      PROVE  LP!T!Next
  BY <1>1, SameLoad, NodeSetHolds, LP!BeginRefines, LP!FinishRefines, LP!FailRefines
<1>2. ASSUME L!ImportDone \/ L!CheckResult
      PROVE  LP!T!Next
  BY <1>2, SameLoad, NodeSetHolds, LP!ServerRefines
<1>3. CASE Restart
  BY <1>3, RestartLoads DEF LP!Init, LP!T!Init
<1>4. CASE UNCHANGED loadVars
  BY <1>4 DEF loadVars, LP!T!treeVars
<1>. QED
  BY <1>1, <1>2, <1>3, <1>4, LoadKinds DEF Import, MainLoad

\* Each start of the process imports the node set as module Hierarchy says: a
\* step of the whole is one of a tree that grows and is completed, or begins
\* anew.
THEOREM ImportsKeepHierarchy ==
    Spec => LP!T!Init /\ [][LP!T!Next \/ LP!T!Init']_(LP!T!treeVars)
<1>1. Init => LP!T!Init
  BY SameLoad DEF Init, LP!Init, LP!T!Init
<1>2. LInv => LP!IInv
  BY DEF LInv
<1>3. LP!IInv /\ LP!IInv' /\ [Next]_vars
        => [LP!T!Next \/ LP!T!Init']_(LP!T!treeVars)
  BY ImportRefines
<1>. QED
  BY <1>1, <1>2, <1>3, LoadInvariance, PTL DEF Spec

\* When testNS has returned success, every value that is let through finds its
\* node.
THEOREM NothingIsRefused == Spec => []NothingRefused
<1>1. GInv /\ LInv => NothingRefused
  <2>. SUFFICES ASSUME GInv, LInv, NS!UsesMaps, retVal = "good", server = "live"
                PROVE  Loaded = Nodes
    BY DEF NothingRefused
  <2>1. mainPc \notin Early
    BY UseIsLate DEF GInv, ConfigOrder
  <2>2. loadPc = "serve"
    BY <2>1 DEF LInv, LoadOrder
  <2>3. present = LP!TreeNodes
    BY <2>2 DEF LInv, LP!IInv, LP!Outcome
  <2>. QED
    BY <2>3, SameLoad, GatewayAssumption DEF Loaded
<1>. QED
  BY <1>1, Invariance, LoadInvariance, PTL

\* Every variable of the three components and of the configuration keeps its
\* type, the queues their bounds.
THEOREM TypeCorrect == Spec => []TypeOK
<1>1. GInv /\ L!TypeOK => TypeOK
  <2>. SUFFICES ASSUME GInv, L!TypeOK PROVE TypeOK
    OBVIOUS
  <2>1. NS!TypeOK
    BY SameState DEF GInv, NSP!IInv
  <2>2. IPP!TypeOK
    <3>1. CASE config = 0
      <4>1. /\ IPP!EmptyMap \in IPP!PartialMaps(Items, IPP!Texts)
            /\ IPP!EmptyMap \in IPP!PartialMaps(Items, Nodes \union {IPP!Blank})
            /\ IPP!EmptyMap \in IPP!PartialMaps(Nodes \union {IPP!Blank}, {"Double", IPP!Blank})
        BY IPP!EmptyMapFacts, ItemPushHolds
      <4>2. MapsFresh /\ alive \in BOOLEAN
        BY <3>1 DEF GInv, MapsOrder, NSP!IInv, NSP!TypeOK
      <4>3. /\ PushPc \in {"wait", "fill", "write"} /\ Loaded \in SUBSET Nodes
            /\ 0 \in 0..MaxMembers
        BY ItemPushHolds DEF PushPc, Loaded, IPP!ItemPushAssumption
      <4>. QED
        BY <4>1, <4>2, <4>3 DEF MapsFresh, IPP!TypeOK
    <3>2. CASE config >= 1
      BY <3>2 DEF GInv, MapsOrder, IPP!IInv
    <3>. QED
      BY <3>1, <3>2 DEF GInv, ConfigOrder
  <2>3. IPP!Linked \subseteq Items /\ Len(ConfigCalls) = 4
    BY ItemPushHolds DEF IPP!ItemPushAssumption, ConfigCalls
  <2>4. /\ config \in 0..Len(ConfigCalls)
        /\ addresses \in SUBSET Items /\ asks \in SUBSET Items
        /\ composed \in SUBSET NS!Functions
    BY <2>3 DEF GInv, ConfigOrder
  <2>. QED
    BY <2>1, <2>2, <2>4, SameState DEF TypeOK
<1>2. LInv => L!TypeOK
  BY SameLoadState DEF LInv, LP!IInv
<1>. QED
  BY <1>1, <1>2, Invariance, LoadInvariance, PTL

\* While the north thread uses the maps they hold what has been configured,
\* although no lock guards them.
THEOREM MapsAreReady == Spec => []MapsReady
<1>1. GInv => MapsReady
  BY UseIsLate, SameState DEF GInv, MapsReady, MapsOrder, IPP!IInv
<1>. QED
  BY <1>1, Invariance, PTL

\* The requesting thread never sends a request that has not been composed, nor
\* one that asks for other items than the linked ones.
THEOREM RequestsAreComplete == Spec => []RequestsComplete
<1>1. GInv => RequestsComplete
  <2>. SUFFICES ASSUME GInv, subPc \in NS!Functions
                PROVE  subPc \in composed /\ asks = IP!Linked
    BY DEF RequestsComplete
  <2>1. subPc # "none"
    BY DEF NS!Functions
  <2>2. config = 4
    BY <2>1 DEF GInv, NSP!IInv, NSP!GateOrder, ConfigOrder, Early
  <2>. QED
    BY <2>2, SameState DEF GInv, ConfigOrder, NS!Functions
<1>. QED
  BY <1>1, Invariance, PTL

-----------------------------------------------------------------------------
(* What NorthStack promises holds of the whole.                            *)

LEMMA SamePromises ==
    /\ NS!PushFollowsAcceptance = NSP!PushFollowsAcceptance
    /\ NS!LinkMapsQuiescent = NSP!LinkMapsQuiescent
    /\ NS!NoLostWakeup = NSP!NoLostWakeup
    /\ NS!AsksUntilAccepted = NSP!AsksUntilAccepted
    /\ NS!StaysAlive = NSP!StaysAlive
BY DEF NS!PushFollowsAcceptance, NSP!PushFollowsAcceptance, NS!LinkMapsQuiescent,
       NSP!LinkMapsQuiescent, NS!NoLostWakeup, NSP!NoLostWakeup,
       NS!AsksUntilAccepted, NSP!AsksUntilAccepted, NS!StaysAlive,
       NSP!StaysAlive, NS!UsesMaps, NSP!UsesMaps, NS!Functions, NSP!Functions

LEMMA SameHandshake ==
    /\ NSP!H!Init => NS!H!Init
    /\ [NSP!H!Next]_(NSP!H!hsVars) => [NS!H!Next]_(NS!H!hsVars)
BY DEF NS!H!Init, NSP!H!Init, NS!H!hsVars, NSP!H!hsVars, NS!H!Next, NSP!H!Next,
       NS!H!Accept, NSP!H!Accept, NS!H!Confirm, NSP!H!Confirm, NS!H!Complete,
       NSP!H!Complete, NS!H!Restart, NSP!H!Restart, NS!Functions, NSP!Functions

\* However the single steps of the import, the configuration and the writes come
\* between those of the other threads: pushes are let through only after FCS has
\* accepted everything, the maps are not read while they are written, the north
\* thread sleeps on messages only if FCS blocks in mq_send and they fill the
\* queue, the requesting thread does not give up, and the process ends by
\* itself only through what the findings name.
THEOREM ThreadsKeepOrder ==
    Spec => [](/\ NS!PushFollowsAcceptance /\ NS!LinkMapsQuiescent
               /\ NSP!AsleepOnlyWhenFull
               /\ "block" \notin Faults => NS!NoLostWakeup
               /\ NS!AsksUntilAccepted /\ NS!StaysAlive)
<1>1. NSP!IInv => /\ NS!PushFollowsAcceptance /\ NS!LinkMapsQuiescent
                  /\ NSP!AsleepOnlyWhenFull
                  /\ "block" \notin Faults => NS!NoLostWakeup
                  /\ NS!AsksUntilAccepted
  BY NorthStackHolds, NSP!InvPushes, NSP!InvMaps, NSP!InvAsleep, NSP!InvWakeup,
     NSP!InvAsks, SamePromises
<1>2. NSP!LInv => NS!StaysAlive
  BY SamePromises DEF NSP!LInv
<1>3. Init => NSP!LInv
  BY SameInit, NSP!InitLInv, NorthStackHolds DEF Init
<1>4. GInv /\ NSP!LInv /\ [Next]_vars => NSP!LInv'
  <2>1. [Next]_vars => [NSP!Next]_(NSP!vars)
    BY StepIsNorthStep, SameNext DEF NS!vars, NSP!vars
  <2>. QED
    BY <2>1, NSP!StepLInv, NorthStackHolds DEF GInv
<1>5. GInv => NSP!IInv
  BY DEF GInv
<1>. QED
  BY <1>1, <1>2, <1>3, <1>4, <1>5, Invariance, PTL DEF Spec

\* The whole implements the handshake with FCS.
THEOREM ImplementsHandshake == Spec => NS!RefinesHandshake
<1>1. Init => NS!H!Init
  BY DEF Init, NS!Init, NS!H!Init
<1>2. GInv /\ [Next]_vars => [NS!H!Next]_(NS!H!hsVars)
  <2>1. [Next]_vars => [NSP!Next]_(NSP!vars)
    BY StepIsNorthStep, SameNext DEF NS!vars, NSP!vars
  <2>. QED
    BY <2>1, NSP!StepRefines, NorthStackHolds, SameHandshake DEF GInv
<1>. QED
  BY <1>1, <1>2, Invariance, PTL DEF Spec, NS!H!Spec, NS!RefinesHandshake

-----------------------------------------------------------------------------
(* How far the findings about NorthStack reach in the whole.               *)

LEMMA SameLimits ==
    /\ NSP!SendsThroughAdapter => NS!SendsThroughAdapter
    /\ NSP!WritesToLiveServer => NS!WritesToLiveServer
BY DEF NS!SendsThroughAdapter, NSP!SendsThroughAdapter, NS!WritesToLiveServer,
       NSP!WritesToLiveServer, NS!Functions, NSP!Functions

LEMMA IsNorthStack == Spec => NSP!Spec
<1>1. Init => NSP!Init
  BY SameInit DEF Init
<1>2. [Next]_vars => [NSP!Next]_(NSP!vars)
  BY StepIsNorthStep, SameNext DEF NS!vars, NSP!vars
<1>. QED
  BY <1>1, <1>2, PTL DEF Spec, NSP!Spec

\* The whole sends through an adapter nobody has constructed only if a queue
\* does not open or the set-up outlasts the sleep.
THEOREM OpenQueuesSuffice ==
    ASSUME "open" \notin Faults, "slow" \notin Faults
    PROVE  Spec => []NS!SendsThroughAdapter
<1>1. NSP!Spec => []NSP!SendsThroughAdapter
  BY NSP!OpenQueuesSuffice, NorthStackHolds
<1>. QED
  BY <1>1, IsNorthStack, SameLimits, PTL

\* If UA_Server_run does not return, the server is there for every write, and
\* none ends the process.
THEOREM RunningServerSuffices ==
    ASSUME "run" \notin Faults
    PROVE  Spec => []NS!WritesToLiveServer /\ [][~WriteCrashes]_vars
<1>1. NSP!Spec => []NSP!WritesToLiveServer
  BY NSP!RunningServerSuffices, NorthStackHolds
<1>2. NS!WritesToLiveServer => [~WriteCrashes]_vars
  BY DEF NS!WritesToLiveServer, WriteCrashes, NS!NorthWrite, NS!NorthStep
<1>. QED
  BY <1>1, <1>2, IsNorthStack, SameLimits, PTL

\* Were both queues empty at every start, no flag would be cleared by an answer
\* to an earlier one.
THEOREM EmptiedQueuesSuffice ==
    Spec /\ NSP!QueuesEmptied => NSP!ConfirmedByOwnRequest
<1>1. NSP!Spec /\ NSP!QueuesEmptied => NSP!ConfirmedByOwnRequest
  BY NSP!EmptiedQueuesSuffice, NorthStackHolds
<1>. QED
  BY <1>1, IsNorthStack, PTL

\* The queues of the whole are what MqAdapterProofs shows agreed queues to be.
THEOREM QueuesAreFifo == Spec => NSP!In!KeptSpec /\ NSP!Out!KeptSpec
<1>1. NSP!Spec => NSP!In!KeptSpec /\ NSP!Out!KeptSpec
  BY NSP!QueuesAreFifo, NorthStackHolds
<1>. QED
  BY <1>1, IsNorthStack, PTL

-----------------------------------------------------------------------------
(* From the queue to the nodes.                                            *)

LEMMA SameDue == IP!Due = IPP!Due /\ IP!Due' = IPP!Due'
BY DEF IP!Due, IPP!Due, IP!Awaiting, IPP!Awaiting, IP!Linked, IPP!Linked,
       IP!StringToNum, IPP!StringToNum

LEMMA SameMirror ==
    ASSUME [IPP!M!Next]_(IPP!M!mirrorVars)
    PROVE  [IP!M!Next]_(IP!M!mirrorVars)
BY SameDue DEF IPP!M!Next, IP!M!Next, IPP!M!Learn, IP!M!Learn, IPP!M!Write,
     IP!M!Write, IPP!M!ClientWrite, IP!M!ClientWrite, IPP!M!Load, IP!M!Load,
     IPP!M!Restart, IP!M!Restart, IPP!M!NothingDue, IP!M!NothingDue,
     IPP!M!mirrorVars, IP!M!mirrorVars

\* Nothing is due while the item map is empty.
LEMMA FreshDue == MapsFresh => IPP!Due = IPP!M!NothingDue
<1>. SUFFICES ASSUME MapsFresh PROVE IPP!Due = IPP!M!NothingDue
  OBVIOUS
<1>1. IPP!Awaiting = {}
  BY DEF MapsFresh, IPP!EmptyMap, IPP!Awaiting
<1>. QED
  BY <1>1 DEF IPP!Due, IPP!M!NothingDue

LEMMA QuietMirror == MapsOrder /\ Quiet => [IPP!M!Next]_(IPP!M!mirrorVars)
<1>. SUFFICES ASSUME MapsOrder, Quiet PROVE IPP!M!Next
  OBVIOUS
<1>1. IPP!Due' = IPP!Due /\ node' = node
  BY IPP!DueUnchanged, ItemPushHolds DEF Quiet, pushVars
<1>2. Loaded' \subseteq Loaded \/ IPP!Due = IPP!M!NothingDue
  BY FreshDue DEF Quiet, MapsOrder
<1>3. IPP!M!Load(Loaded')
  BY <1>1, <1>2 DEF IPP!M!Load
<1>4. Loaded' \in SUBSET Nodes
  BY DEF Loaded
<1>. QED
  BY <1>3, <1>4 DEF IPP!M!Next

LEMMA RestartMirror == Restart => [IPP!M!Next]_(IPP!M!mirrorVars)
<1>. SUFFICES ASSUME Restart PROVE IPP!M!Restart
  BY DEF IPP!M!Next
<1>1. MapsFresh'
  BY ItemPushHolds DEF Restart, MapsFresh, IP!EmptyMap, IPP!EmptyMap, IP!Blank,
                       IPP!Blank, IPP!ItemPushAssumption
<1>2. IPP!Due' = IPP!M!NothingDue
  <2>1. (MapsFresh => IPP!Due = IPP!M!NothingDue)'
    BY FreshDue, PTL
  <2>. QED
    BY <1>1, <2>1 DEF IPP!M!NothingDue
<1>3. Loaded' = {}
  BY DEF Restart, NS!Restart, Loaded
<1>. QED
  BY <1>1, <1>2, <1>3 DEF IPP!M!Restart, MapsFresh

LEMMA LinksMirror ==
    GInv /\ ConfigureLinks => [IPP!M!Next]_(IPP!M!mirrorVars)
<1>. SUFFICES ASSUME GInv, ConfigureLinks PROVE UNCHANGED IPP!M!mirrorVars
  OBVIOUS
<1>1. UNCHANGED <<pushVars, northPc, server, present>>
  BY LinksStep DEF GInv
<1>2. Loaded' = Loaded /\ IPP!Awaiting' = IPP!Awaiting
  BY <1>1 DEF Loaded, IPP!Awaiting, PushPc, pushVars
<1>3. IPP!Due' = IPP!Due
  BY <1>1, <1>2, IPP!DueUnchanged, ItemPushHolds DEF pushVars
<1>. QED
  BY <1>1, <1>2, <1>3 DEF IPP!M!mirrorVars, pushVars

LEMMA StepMirror == GInv /\ GInv' /\ [Next]_vars => [IP!M!Next]_(IP!M!mirrorVars)
<1>. SUFFICES ASSUME GInv, GInv', [Next]_vars PROVE [IPP!M!Next]_(IPP!M!mirrorVars)
  BY SameMirror
<1>1. CASE Pushing
  <2>1. IPP!IInv
    BY <1>1, PushStep DEF GInv, Pushing
  <2>2. IPP!IInv'
    BY <1>1, <2>1, IPP!StepIInv, ItemPushHolds DEF Pushing
  <2>. QED
    BY <1>1, <2>1, <2>2, IPP!StepRefines, ItemPushHolds DEF Pushing
<1>. QED
  BY <1>1, StepKinds, QuietMirror, LinksMirror, RestartMirror DEF GInv

\* The gateway as a whole implements module ItemMirror: whatever is lost,
\* refused, not imported, left over or ended by a crash, each value that is let
\* through is written once to the node of its item, and no other node changes.
THEOREM ImplementsMirror == Spec => RefinesMirror
<1>1. Init => IP!M!Init
  <2>. SUFFICES ASSUME Init PROVE IP!M!Init
    OBVIOUS
  <2>1. MapsFresh
    BY InitGInv DEF Init, GInv, MapsOrder
  <2>2. IP!Due = IPP!M!NothingDue
    BY <2>1, FreshDue, SameDue
  <2>3. Loaded \in SUBSET Nodes
    BY DEF Loaded
  <2>. QED
    BY <2>1, <2>2, <2>3 DEF IP!M!Init, IP!M!NothingDue, IPP!M!NothingDue, MapsFresh
<1>. QED
  BY <1>1, StepMirror, Invariance, PTL
     DEF Spec, IP!M!Spec, IP!RefinesMirror, RefinesMirror
=============================================================================
