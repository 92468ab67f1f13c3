----------------------------- MODULE NorthStack -----------------------------
(***************************************************************************)
(* The gateway process: the thread that runs the OPC UA server, the north  *)
(* thread that reads what FCS sends, and the thread that asks FCS for the  *)
(* item values until all three requests are confirmed; with the two POSIX  *)
(* message queues to and from FCS, the edge-triggered epoll descriptor the *)
(* north thread sleeps on, and restarts of the process.                    *)
(*                                                                         *)
(* Each thread has a program counter.  A step ends where the code touches  *)
(* state another thread or FCS can see.  The threads share their flags     *)
(* without a lock, and so do the actions.  FCS is not part of the          *)
(* repository: its actions are all the answers and messages the code under *)
(* src/ is written to expect of it.                                        *)
(***************************************************************************)
EXTENDS Naturals, Sequences

CONSTANTS InCap,     \* messages the queue from FCS holds, and the one to it:
          OutCap,    \* 20 if the gateway creates them, else what FCS chose
          MaxLives,  \* bound: how often the process is started
          Faults     \* the failures that are considered, and how FCS sends

FaultKinds == {
    "open",   \* mq_open fails
    "epoll",  \* epoll_create1 or epoll_wait fails
    "run",    \* UA_Server_run returns: its start-up fails
    "slow",   \* the north thread is not set up when the 5 s are over
    "drop",   \* FCS drops a reply instead of waiting for room in the queue
    "block",  \* FCS waits for room inside mq_send, and not by trying again
    "types" } \* a message has members of other types than the code expects

ASSUME NorthStackAssumption ==
    /\ InCap \in Nat \ {0} /\ OutCap \in Nat \ {0}
    /\ MaxLives \in Nat \ {0}
    /\ Faults \subseteq FaultKinds

Functions == {"SubItem", "SetPushMethod", "Suspend"}
Lives     == 1..MaxLives

\* life is a ghost: which start of the process the request was made by.
Requests == [fn : Functions, life : Lives]
Replies  == [kind : {"reply"}, fn : Functions, ok : BOOLEAN, life : Lives]
Push     == [kind |-> "push"]
Junk     == [kind |-> "junk"]
NoMsg    == [kind |-> "none"]
Inbound  == Replies \union {Push, Junk}

VARIABLES
    alive,     \* the process has not crashed
    life,      \* number of the running start
    mainPc,    \* where the main thread is
    server,    \* what open62541_server_ points at: "null", "live", "deleted"
    northPc,   \* where the north thread is
    adIn,      \* mq_fcs_to_212_: "none" (not constructed), "failed", "open"
    adOut,     \* mq_212_to_fcs_, likewise
    epfd,      \* epoll_fd_ is a descriptor
    watching,  \* the inbound queue has been added to epoll_fd_
    edge,      \* the epoll instance has the inbound queue on its ready list
    buf,       \* the message the north thread holds
    subPc,     \* where the requesting thread is
    pending,   \* north_chat_*_semaphore_, by function
    success,   \* is_successful_request_fcs_send_item_semaphore_
    inQ,       \* FCS_TO_H212: kernel object, survives the process
    outQ,      \* H212_TO_FCS: likewise
    accepted,  \* functions FCS has accepted at some time
    blocked    \* the message FCS waits to send inside mq_send, if it does

mainVars  == <<mainPc, server>>
epollVars == <<epfd, watching>>
adVars    == <<adIn, adOut>>
flagVars  == <<pending, success>>
fcsVars   == <<outQ, accepted, blocked>>
vars == <<alive, life, mainPc, server, northPc, adIn, adOut, epfd, watching,
          edge, buf, subPc, pending, success, inQ, outQ, accepted, blocked>>

MainPcs  == {"boot", "sleep", "load", "items", "start_sub",
             "startup", "serve", "delete", "idle"}
NorthPcs == {"none", "epoll", "start_in", "start_out", "add",
             "wait", "read", "parse", "fill", "write", "stopped"}
SubPcs   == {"none", "timer", "check", "done"} \union Functions

(* Slips a change to this code could make, next to what they would replace *)
(* (PROJECT.json names the property that each of them breaks).             *)
FullQueueAccepts(q, cap) == Len(q) <= cap
NeverRearmed             == FALSE
ClearsOnAnyReply(m)      == pending[m.fn]
GateOnServerOnly         == server # "null"
DoneWithoutSuspend       == \A f \in Functions \ {"Suspend"} : ~pending[f]
NotArmedAgain            == "done"
NoSleep                  == TRUE

\* A non-blocking mq_send fails when the queue is full.
HasRoom(q, cap) == Len(q) < cap

\* mq_receive wakes the pollers of the queue, which puts a watched one on the
\* ready list again; but not when a sender waits for the room it has made.
Rearmed == watching /\ blocked = NoMsg

\* A reply with error code 200 clears the flag of its function.
Clears(m) == pending[m.fn] /\ m.ok

\* What lets pushed values through.
PushGate == server # "null" /\ success

\* All three requests are confirmed.
HandshakeDone == \A f \in Functions : ~pending[f]

\* sleep(5) lets the north thread set up its queues before there is a server.
SettingUp      == {"epoll", "start_in", "start_out", "add"}
SleepWasEnough == northPc \notin SettingUp \/ "slow" \in Faults

\* After one run of the timer handler without success it is armed again.
AfterFailedRound == "timer"

NextAfter(f) == CASE f = "SubItem"       -> "SetPushMethod"
                  [] f = "SetPushMethod" -> "Suspend"
                  [] f = "Suspend"       -> "check"

Init ==
    /\ alive = TRUE /\ life = 1
    /\ mainPc = "boot" /\ server = "null"
    /\ northPc = "none" /\ adIn = "none" /\ adOut = "none"
    /\ epfd = FALSE /\ watching = FALSE /\ edge = FALSE /\ buf = NoMsg
    /\ subPc = "none"
    /\ pending = [f \in Functions |-> TRUE] /\ success = FALSE
    /\ inQ = <<>> /\ outQ = <<>> /\ accepted = {} /\ blocked = NoMsg

-----------------------------------------------------------------------------
(* The main thread: OpcUaServerService::Start and OpcUaServer::Start.      *)

MainStep(from, to) == alive /\ mainPc = from /\ mainPc' = to

\* StartNorthComminute.
MainSpawnNorth ==
    /\ MainStep("boot", "sleep")
    /\ northPc' = "epoll"
    /\ UNCHANGED <<alive, life, server, adVars, epollVars, edge, buf, subPc,
                   flagVars, inQ, fcsVars>>

\* sleep(5) is over; the new server is published to the north thread.
MainNewServer ==
    /\ MainStep("sleep", "load")
    /\ SleepWasEnough
    /\ server' = "live"
    /\ UNCHANGED <<alive, life, northPc, adVars, epollVars, edge, buf, subPc,
                   flagVars, inQ, fcsVars>>

\* Port, node set and method callback; failures are only logged.
MainLoad ==
    /\ MainStep("load", "items")
    /\ UNCHANGED <<alive, life, server, northPc, adVars, epollVars, edge, buf,
                   subPc, flagVars, inQ, fcsVars>>

\* The link maps are filled and the three requests composed.
MainInitItems ==
    /\ MainStep("items", "start_sub")
    /\ UNCHANGED <<alive, life, server, northPc, adVars, epollVars, edge, buf,
                   subPc, flagVars, inQ, fcsVars>>

\* StartSubItemFromFcs.
MainStartSub ==
    /\ MainStep("start_sub", "startup")
    /\ subPc' = "timer"
    /\ UNCHANGED <<alive, life, server, northPc, adVars, epollVars, edge, buf,
                   flagVars, inQ, fcsVars>>

\* UA_Server_run: it returns from its start-up, or serves clients for good
\* (running_ is never cleared).
MainRun ==
    /\ \/ MainStep("startup", "serve")
       \/ "run" \in Faults /\ MainStep("startup", "delete")
    /\ UNCHANGED <<alive, life, server, northPc, adVars, epollVars, edge, buf,
                   subPc, flagVars, inQ, fcsVars>>

\* UA_Server_delete; the published pointer is kept.
MainDelete ==
    /\ MainStep("delete", "idle")
    /\ server' = "deleted"
    /\ UNCHANGED <<alive, life, northPc, adVars, epollVars, edge, buf, subPc,
                   flagVars, inQ, fcsVars>>

Main == MainSpawnNorth \/ MainNewServer \/ MainLoad \/ MainInitItems
        \/ MainStartSub \/ MainRun \/ MainDelete

-----------------------------------------------------------------------------
(* The north thread: NorthDataCommunicateStack::Start.                     *)

NorthStep(from, to) == alive /\ northPc = from /\ northPc' = to

NorthCreateEpoll ==
    /\ NorthStep("epoll", "start_in")
    /\ \/ epfd' = TRUE
       \/ "epoll" \in Faults /\ epfd' = FALSE
    /\ UNCHANGED <<alive, life, mainVars, adVars, watching, edge, buf, subPc,
                   flagVars, inQ, fcsVars>>

\* StartMqMsg, inbound queue; on failure it returns before the outbound one.
NorthStartIn ==
    /\ \/ NorthStep("start_in", "start_out") /\ adIn' = "open"
       \/ /\ "open" \in Faults
          /\ NorthStep("start_in", "add") /\ adIn' = "failed"
    /\ UNCHANGED <<alive, life, mainVars, adOut, epollVars, edge, buf, subPc,
                   flagVars, inQ, fcsVars>>

\* StartMqMsg, outbound queue; Run goes on whether it opens or not.
NorthStartOut ==
    /\ NorthStep("start_out", "add")
    /\ \/ adOut' = "open"
       \/ "open" \in Faults /\ adOut' = "failed"
    /\ UNCHANGED <<alive, life, mainVars, adIn, epollVars, edge, buf, subPc,
                   flagVars, inQ, fcsVars>>

\* EPOLL_CTL_ADD, whose result is ignored; a readable queue is ready at once.
NorthAdd ==
    /\ NorthStep("add", "wait")
    /\ watching' = (epfd /\ adIn = "open")
    /\ edge' = (epfd /\ adIn = "open" /\ inQ # <<>>)
    /\ UNCHANGED <<alive, life, mainVars, adVars, epfd, buf, subPc,
                   flagVars, inQ, fcsVars>>

\* epoll_wait reports the queue and takes it off the ready list, ...
NorthEvent ==
    /\ NorthStep("wait", "read")
    /\ epfd /\ edge /\ inQ # <<>>
    /\ edge' = FALSE
    /\ UNCHANGED <<alive, life, mainVars, adVars, epollVars, buf, subPc,
                   flagVars, inQ, fcsVars>>

\* ... or finds nothing to report for 100 ms, ...
NorthTimeout ==
    /\ NorthStep("wait", "wait")
    /\ epfd /\ ~(edge /\ inQ # <<>>)
    /\ edge' = FALSE
    /\ UNCHANGED <<alive, life, mainVars, adVars, epollVars, buf, subPc,
                   flagVars, inQ, fcsVars>>

\* ... or fails, and the thread returns.
NorthWaitFails ==
    /\ NorthStep("wait", "stopped")
    /\ ~epfd \/ "epoll" \in Faults
    /\ UNCHANGED <<alive, life, mainVars, adVars, epollVars, edge, buf, subPc,
                   flagVars, inQ, fcsVars>>

\* ReadMqMsg takes one message per event; that of a waiting sender follows it.
NorthRead ==
    /\ NorthStep("read", "parse")
    /\ inQ # <<>>
    /\ buf' = Head(inQ)
    /\ inQ' = IF blocked = NoMsg THEN Tail(inQ) ELSE Append(Tail(inQ), blocked)
    /\ blocked' = NoMsg
    /\ edge' = (edge \/ Rearmed)
    /\ UNCHANGED <<alive, life, mainVars, adVars, epollVars, subPc,
                   flagVars, outQ, accepted>>

\* ParseNorthMsg: a message that is not understood, a push that is not let
\* through and a reply that clears no flag are forgotten.
NorthForget ==
    /\ NorthStep("parse", "wait")
    /\ \/ buf.kind = "junk"
       \/ buf.kind = "push" /\ ~PushGate
       \/ buf.kind = "reply" /\ ~Clears(buf)
    /\ buf' = NoMsg
    /\ UNCHANGED <<alive, life, mainVars, adVars, epollVars, edge, subPc,
                   flagVars, inQ, fcsVars>>

NorthConfirm ==
    /\ NorthStep("parse", "wait")
    /\ buf.kind = "reply" /\ Clears(buf)
    /\ pending' = [pending EXCEPT ![buf.fn] = FALSE]
    /\ buf' = NoMsg
    /\ UNCHANGED <<alive, life, mainVars, adVars, epollVars, edge, subPc,
                   success, inQ, fcsVars>>

NorthAdmitPush ==
    /\ NorthStep("parse", "fill")
    /\ buf.kind = "push" /\ PushGate
    /\ buf' = NoMsg
    /\ UNCHANGED <<alive, life, mainVars, adVars, epollVars, edge, subPc,
                   flagVars, inQ, fcsVars>>

\* ParseNorthMsgItemVal.
NorthFill ==
    /\ NorthStep("fill", "write")
    /\ UNCHANGED <<alive, life, mainVars, adVars, epollVars, edge, buf, subPc,
                   flagVars, inQ, fcsVars>>

\* A conversion of the JSON library throws: in ParseNorthMsg before it looks at
\* the function of the message, or at an item value that is an object or an
\* array.  Nothing catches it.
NorthThrows ==
    /\ "types" \in Faults
    /\ alive
    /\ \/ northPc = "parse" /\ buf.kind = "junk"
       \/ northPc = "fill"
    /\ alive' = FALSE
    /\ UNCHANGED <<life, mainVars, northPc, adVars, epollVars, edge, buf, subPc,
                   flagVars, inQ, fcsVars>>

\* WriteItemValToOpcUaServerNode.  Writing to a server that has been deleted
\* is undefined: the process crashes or goes on.
NorthWrite ==
    /\ NorthStep("write", "wait")
    /\ \/ alive' = alive
       \/ server = "deleted" /\ alive' = FALSE
    /\ UNCHANGED <<life, mainVars, adVars, epollVars, edge, buf, subPc,
                   flagVars, inQ, fcsVars>>

NorthSetUp == NorthCreateEpoll \/ NorthStartIn \/ NorthStartOut \/ NorthAdd
NorthWait  == NorthEvent \/ NorthTimeout \/ NorthWaitFails
NorthParse == NorthForget \/ NorthConfirm \/ NorthAdmitPush
North == NorthSetUp \/ NorthWait \/ NorthRead \/ NorthParse
         \/ NorthFill \/ NorthThrows \/ NorthWrite

-----------------------------------------------------------------------------
(* The requesting thread: RunSubItemFromFcs, one timer round after another.*)

SubStep(from, to) == alive /\ subPc = from /\ subPc' = to

SubTimer ==
    /\ \/ ~success /\ SubStep("timer", "SubItem")
       \/ success /\ SubStep("timer", "done")
    /\ UNCHANGED <<alive, life, mainVars, northPc, adVars, epollVars, edge,
                   buf, flagVars, inQ, fcsVars>>

\* The request of a confirmed function is not repeated, ...
SubSkip(f) ==
    /\ ~pending[f]
    /\ SubStep(f, NextAfter(f))
    /\ UNCHANGED <<alive, life, mainVars, northPc, adVars, epollVars, edge,
                   buf, flagVars, inQ, fcsVars>>

\* ... any other is sent; that the queue is full or not open is ignored.
SubSend(f) ==
    /\ pending[f] /\ adOut # "none"
    /\ SubStep(f, NextAfter(f))
    /\ outQ' = IF adOut = "open" /\ HasRoom(outQ, OutCap)
                 THEN Append(outQ, [fn |-> f, life |-> life]) ELSE outQ
    /\ UNCHANGED <<alive, life, mainVars, northPc, adVars, epollVars, edge,
                   buf, flagVars, inQ, accepted, blocked>>

\* mq_212_to_fcs_ has not been set by anyone: the call is through a wild
\* pointer and ends the process.
SubSendUnset(f) ==
    /\ alive /\ subPc = f /\ pending[f] /\ adOut = "none"
    /\ alive' = FALSE
    /\ UNCHANGED <<life, mainVars, northPc, adVars, epollVars, edge,
                   buf, subPc, flagVars, inQ, fcsVars>>

SubCheck ==
    /\ \/ HandshakeDone /\ SubStep("check", "done") /\ success' = TRUE
       \/ ~HandshakeDone /\ SubStep("check", AfterFailedRound)
          /\ UNCHANGED success
    /\ UNCHANGED <<alive, life, mainVars, northPc, adVars, epollVars, edge,
                   buf, pending, inQ, fcsVars>>

Sub == SubTimer \/ SubCheck
       \/ \E f \in Functions : SubSkip(f) \/ SubSend(f) \/ SubSendUnset(f)

-----------------------------------------------------------------------------
(* FCS, one sender at the other end of the queues.                         *)

Deliver(m) ==
    /\ HasRoom(inQ, InCap)
    /\ inQ' = Append(inQ, m)
    /\ edge' = (edge \/ watching)
    /\ UNCHANGED blocked

\* While it is inside mq_send it does nothing else.
Block(m) ==
    /\ "block" \in Faults /\ ~HasRoom(inQ, InCap)
    /\ blocked' = m
    /\ UNCHANGED <<inQ, edge>>

Drop ==
    /\ "drop" \in Faults /\ ~HasRoom(inQ, InCap)
    /\ UNCHANGED <<inQ, edge, blocked>>

\* FCS takes the oldest request and answers it.
FcsAnswer(f, ok) ==
    /\ blocked = NoMsg /\ outQ # <<>> /\ Head(outQ).fn = f
    /\ outQ' = Tail(outQ)
    /\ accepted' = IF ok THEN accepted \union {f} ELSE accepted
    /\ LET reply == [kind |-> "reply", fn |-> f, ok |-> ok, life |-> Head(outQ).life]
       IN  Deliver(reply) \/ Block(reply) \/ Drop
    /\ UNCHANGED <<alive, life, mainVars, northPc, adVars, epollVars, buf,
                   subPc, flagVars>>

\* It pushes item values, or sends what the gateway does not understand.
FcsTell ==
    /\ blocked = NoMsg
    /\ \E m \in {Push, Junk} : Deliver(m) \/ Block(m)
    /\ UNCHANGED <<alive, life, mainVars, northPc, adVars, epollVars, buf,
                   subPc, flagVars, outQ, accepted>>

Fcs == FcsTell \/ \E f \in Functions, ok \in BOOLEAN : FcsAnswer(f, ok)

(* The process ends and is started again: the queues outlive it.           *)
Restart ==
    /\ life < MaxLives
    /\ life' = life + 1
    /\ alive' = TRUE
    /\ mainPc' = "boot" /\ server' = "null"
    /\ northPc' = "none" /\ adIn' = "none" /\ adOut' = "none"
    /\ epfd' = FALSE /\ watching' = FALSE /\ edge' = FALSE /\ buf' = NoMsg
    /\ subPc' = "none"
    /\ pending' = [f \in Functions |-> TRUE] /\ success' = FALSE
    /\ UNCHANGED <<inQ, fcsVars>>

Next == Main \/ North \/ Sub \/ Fcs \/ Restart

Spec == Init /\ [][Next]_vars

\* The operating system runs every thread; FCS answers what it is asked, and
\* does not refuse for ever a request that is made again and again.
Fairness ==
    /\ WF_vars(Main) /\ WF_vars(North) /\ WF_vars(Sub)
    /\ WF_vars(\E f \in Functions, ok \in BOOLEAN : FcsAnswer(f, ok))
    /\ \A f \in Functions : SF_vars(FcsAnswer(f, TRUE))

FairSpec == Spec /\ Fairness

-----------------------------------------------------------------------------
(* Properties.                                                             *)

TypeOK ==
    /\ alive \in BOOLEAN /\ life \in Lives
    /\ mainPc \in MainPcs /\ server \in {"null", "live", "deleted"}
    /\ northPc \in NorthPcs
    /\ adIn \in {"none", "failed", "open"} /\ adOut \in {"none", "failed", "open"}
    /\ epfd \in BOOLEAN /\ watching \in BOOLEAN /\ edge \in BOOLEAN
    /\ buf \in Inbound \union {NoMsg}
    /\ subPc \in SubPcs
    /\ pending \in [Functions -> BOOLEAN] /\ success \in BOOLEAN
    /\ inQ \in Seq(Inbound) /\ Len(inQ) <= InCap
    /\ outQ \in Seq(Requests) /\ Len(outQ) <= OutCap
    /\ accepted \in SUBSET Functions
    /\ blocked \in Inbound \union {NoMsg}

\* The north thread is using the item, link and type maps.
UsesMaps == northPc \in {"fill", "write"}

\* No pushed value reaches the item map or the server before FCS has accepted
\* all three requests, whatever replies were lost, repeated or left over from
\* an earlier start of the process (the gate of ParseNorthMsg).
PushFollowsAcceptance == UsesMaps => accepted = Functions

\* The main thread has written the link and type maps, which no lock guards,
\* before the north thread first reads them: only the handshake orders the two.
LinkMapsQuiescent ==
    UsesMaps => mainPc \notin {"boot", "sleep", "load", "items", "start_sub"}

\* Between events the edge-triggered epoll descriptor never sleeps on a
\* queue that has a message, if FCS does not block in mq_send: the north thread
\* reads once per event, and each read wakes it again.
NoLostWakeup == watching /\ northPc = "wait" /\ inQ # <<>> => edge

\* The requesting thread stops asking only when FCS has accepted everything it
\* asks for; no failure, lost reply or old message makes it give up before.
AsksUntilAccepted == subPc = "done" => success /\ accepted = Functions

\* Nothing but what the findings name ends the process: a queue that does not
\* open, a set-up longer than the sleep, a server that has returned, and the
\* exceptions of the JSON library.
StaysAlive == Faults \subseteq {"epoll", "drop", "block"} => alive

\* The gateway implements the handshake of module Handshake.
H == INSTANCE Handshake WITH confirmed <- {f \in Functions : ~pending[f]},
                             complete  <- success
RefinesHandshake == H!Spec

\* The handshake completes, however often FCS refuses or a queue is full, if
\* FCS does not block in mq_send.
HandshakeCompletes == <>[]success

\* When FCS does block there, nothing but that keeps the handshake from
\* completing: a thread that reads once per event may leave it blocked for ever.
HandshakeUnlessBlocked == <>[]success \/ <>[](blocked # NoMsg)

\* A message that FCS has sent is read, or its successor is, if FCS does not
\* block in mq_send.
InboundDrains == inQ # <<>> ~> northPc = "parse"

\* A flag is cleared by an answer to a request of the running process
\* ("send the request [...] then wait to the fcs reply").
ConfirmedByOwnRequest ==
    [][\A f \in Functions : pending[f] /\ ~pending'[f] => buf.life = life]_vars

\* The requesting thread sends through an adapter that has been constructed,
\* the one that reports "Mq not create." when its queue is not open.
SendsThroughAdapter ==
    subPc \in Functions /\ pending[subPc] => adOut # "none"

\* Admitted values are written to a server that exists ("Write the val to the
\* server node.").
WritesToLiveServer == northPc = "write" => server = "live"
=============================================================================
