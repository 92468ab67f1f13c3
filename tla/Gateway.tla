------------------------------ MODULE Gateway -------------------------------
(***************************************************************************)
(* The gateway process as a whole: the threads of module NorthStack, the   *)
(* import of module NodeSet, which the main thread runs, and the item push *)
(* of module ItemPush, which the north thread runs, on the state they      *)
(* share; with the configuration of the items and the composition of the   *)
(* requests (ItemMqMsg), which sets up what the other two threads use.     *)
(*                                                                         *)
(* A step of a component is a step of the whole.  What NorthStack takes    *)
(* for one step, and another component or this module for several, is the  *)
(* last of these.                                                          *)
(***************************************************************************)
EXTENDS Naturals, Sequences

CONSTANTS InCap, OutCap, MaxLives, Faults,            \* see NorthStack
          Items, Nodes, NodeOf, Numbers, MaxMembers,  \* see ItemPush
          Position,  \* which node of the node set each of Nodes is
          MayFail,   \* calls of the chain in testNS that may fail
          Values,       \* Json values that FCS pushes
          ClientValues  \* numbers that clients write

VARIABLES
    alive, life, mainPc, server, northPc, adIn, adOut, epfd, watching,
    edge, buf, subPc, pending, success, inQ, outQ, accepted,
    blocked,                                                  \* NorthStack
    members, items, links, types, todo, node,                 \* ItemPush
    loadPc, pos, retVal, present, finished, callback,         \* NodeSet
    config,     \* calls made so far that configure item_mq_msg_
    addresses,  \* item_address_
    composed,   \* functions whose request text has been composed
    asks        \* the items in the text of the SubItem request

NS == INSTANCE NorthStack

\* The north thread, as ItemPush sees it.
PushPc == IF northPc \in {"fill", "write"} THEN northPc ELSE "wait"

\* The nodes of the items that the server has.
Loaded == IF server = "live" THEN {n \in Nodes : Position[n] \in present} ELSE {}

IP == INSTANCE ItemPush WITH pc <- PushPc, loaded <- Loaded

\* Calls of the method are left to NodeSet.
L == INSTANCE NodeSet WITH pc <- loadPc, Half <- 1,
                           reply <- [status |-> "none", value |-> 0]

ASSUME GatewayAssumption ==
    /\ NS!NorthStackAssumption /\ IP!ItemPushAssumption
    /\ Position \in [Nodes -> L!TreeNodes]
    /\ MayFail \subseteq 0..(2 * L!Count - 1)
    /\ Values \subseteq IP!Json
    /\ ClientValues \subseteq Numbers

northVars  == <<alive, life, mainPc, server, northPc, adIn, adOut, epfd,
                watching, edge, buf, subPc, pending, success, inQ, outQ,
                accepted, blocked>>
pushVars   == <<members, items, todo, node>>
loadVars   == <<loadPc, pos, retVal, present, finished, callback>>
configVars == <<config, addresses, composed, asks>>
vars == <<northVars, pushVars, links, types, loadVars, configVars>>

(* Slips a change to this code could make, next to what they would replace.*)
ComposedTooEarly == <<"SubItem", "links", "SetPushMethod", "Suspend">>
KeptOldTypes     == types

\* The calls of OpcUaServer::Start that configure item_mq_msg_.
ConfigCalls == <<"links", "SetPushMethod", "SubItem", "Suspend">>

\* The type map once the configured nodes have their types.
ConfiguredTypes == [n \in Nodes |-> "Double"]

Init ==
    /\ NS!Init /\ L!Init
    /\ members = 0 /\ items = IP!EmptyMap /\ todo = {}
    /\ links = IP!EmptyMap /\ types = IP!EmptyMap
    /\ node = [n \in Nodes |-> "0"]
    /\ config = 0 /\ addresses = {} /\ composed = {} /\ asks = {}

-----------------------------------------------------------------------------
(* The main thread.                                                        *)

\* One call of testNS.
Import ==
    /\ alive /\ mainPc = "load"
    /\ UNCHANGED <<northVars, pushVars, links, types, configVars>>
    /\ \/ \E n \in L!TreeNodes :
             \/ L!Begin(n) \/ L!Finish(n)
             \/ pos \in MayFail /\ (L!BeginFails(n) \/ L!FinishFails(n))
       \/ L!ImportDone

\* Its result is tested; the server goes on in any case.
MainLoad ==
    /\ NS!MainLoad
    /\ L!CheckResult
    /\ UNCHANGED <<pushVars, links, types, configVars>>

Configuring(call) ==
    /\ alive /\ mainPc = "items"
    /\ config < Len(ConfigCalls) /\ ConfigCalls[config + 1] = call
    /\ config' = config + 1
    /\ IF config' = Len(ConfigCalls) THEN NS!MainInitItems ELSE UNCHANGED northVars
    /\ UNCHANGED <<pushVars, loadVars>>

\* InitFboxLinkServerNode.
ConfigureLinks ==
    /\ Configuring("links")
    /\ links' = NodeOf
    /\ types' = ConfiguredTypes
    /\ addresses' = DOMAIN links'
    /\ UNCHANGED <<composed, asks>>

\* SetPushMethodConfig, SetSubItemConfig, SetSuspendConfig.
Compose(f) ==
    /\ Configuring(f)
    /\ composed' = composed \union {f}
    /\ asks' = IF f = "SubItem" THEN addresses ELSE asks
    /\ UNCHANGED <<links, types, addresses>>

\* The rest of the main thread does not touch the maps.
Main ==
    \/ Import \/ MainLoad \/ ConfigureLinks
    \/ \E f \in NS!Functions : Compose(f)
    \/ /\ NS!MainSpawnNorth \/ NS!MainNewServer \/ NS!MainStartSub
          \/ NS!MainRun \/ NS!MainDelete
       /\ UNCHANGED <<pushVars, links, types, loadVars, configVars>>

-----------------------------------------------------------------------------
(* The north thread.                                                       *)

\* ParseNorthMsg admits a push and the item map is cleared.
AdmitPush == NS!NorthAdmitPush /\ UNCHANGED <<loadVars, configVars>> /\ IP!TakePush

FillMember(i, j) ==
    /\ UNCHANGED <<northVars, loadVars, configVars>>
    /\ IP!FillMember(i, j)

FillDone == NS!NorthFill /\ UNCHANGED <<loadVars, configVars>> /\ IP!FillDone

\* A conversion throws, in the middle of filling the map or before.
Throws ==
    /\ NS!NorthThrows
    /\ northPc = "fill" => members < MaxMembers
    /\ UNCHANGED <<pushVars, links, types, loadVars, configVars>>

WriteItem(i) ==
    /\ UNCHANGED <<northVars, loadVars, configVars>>
    /\ IP!WriteItem(i)

\* A write to the deleted server ends the process.
WriteCrashes ==
    /\ todo # {} /\ NS!NorthWrite /\ ~alive'
    /\ UNCHANGED <<pushVars, links, types, loadVars, configVars>>

WriteDone ==
    /\ NS!NorthWrite /\ alive'
    /\ UNCHANGED <<loadVars, configVars>>
    /\ IP!WriteDone

North ==
    \/ AdmitPush \/ FillDone \/ Throws \/ WriteCrashes \/ WriteDone
    \/ \E i \in Items, j \in Values : FillMember(i, j)
    \/ \E i \in todo : WriteItem(i)
    \/ /\ NS!NorthSetUp \/ NS!NorthWait \/ NS!NorthRead
          \/ NS!NorthForget \/ NS!NorthConfirm
       /\ UNCHANGED <<pushVars, links, types, loadVars, configVars>>

-----------------------------------------------------------------------------
(* The requesting thread, FCS, and OPC UA clients.                         *)

Others ==
    /\ NS!Sub \/ NS!Fcs
    /\ UNCHANGED <<pushVars, links, types, loadVars, configVars>>

\* The server answers its clients only in its iterations.
ClientWrite(n, v) ==
    /\ mainPc = "serve"
    /\ UNCHANGED <<northVars, loadVars, configVars>>
    /\ IP!ClientWrite(n, v)

\* The process ends and is started again.
Restart ==
    /\ NS!Restart
    /\ loadPc' = "import" /\ pos' = 0 /\ retVal' = "good"
    /\ present' = {} /\ finished' = {} /\ callback' = FALSE
    /\ members' = 0 /\ items' = IP!EmptyMap /\ todo' = {}
    /\ links' = IP!EmptyMap /\ types' = IP!EmptyMap
    /\ node' = [n \in Nodes |-> "0"]
    /\ config' = 0 /\ addresses' = {} /\ composed' = {} /\ asks' = {}

Next ==
    \/ Main \/ North \/ Others \/ Restart
    \/ \E n \in Nodes, v \in ClientValues : ClientWrite(n, v)

Spec == Init /\ [][Next]_vars

-----------------------------------------------------------------------------
(* Properties.                                                             *)

TypeOK ==
    /\ NS!TypeOK /\ IP!TypeOK /\ L!TypeOK
    /\ config \in 0..Len(ConfigCalls)
    /\ addresses \in SUBSET Items /\ asks \in SUBSET Items
    /\ composed \in SUBSET NS!Functions

\* While the north thread uses the maps they hold what has been configured,
\* although neither they nor the messages between the threads are locked.
MapsReady == NS!UsesMaps => IP!ConfigKept

\* Whatever the requesting thread sends has been composed before, and asks for
\* the items that are linked, all of them and no others.
RequestsComplete ==
    subPc \in NS!Functions => subPc \in composed /\ asks = IP!Linked

\* If testNS has returned success, every value the north thread has to write
\* finds its node: the import is over before the first push is let through,
\* though the threads wait for each other only through FCS, and a good result
\* is that of a whole import.
NothingRefused ==
    NS!UsesMaps /\ retVal = "good" /\ server = "live" => Loaded = Nodes

\* From the queue to the nodes: whatever is lost, refused, not imported, left
\* over or ended by a crash, each value that is let through is written once to
\* the node of its item, if the import has left it one, and no other is.
RefinesMirror == IP!RefinesMirror
=============================================================================
