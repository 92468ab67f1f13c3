----------------------------- MODULE MqAdapter ------------------------------
(***************************************************************************)
(* The class MqAdapter around POSIX message queues: the adapters that      *)
(* several processes hold, for queues in the kernel's name space that      *)
(* outlive all of them.  A call is a step from "idle" to its name, and one *)
(* or two steps of the kernel back: between the exclusive mq_open that     *)
(* finds the queue there and the mq_open that opens it, other processes go *)
(* on.  Any method may be called at any time.                              *)
(*                                                                         *)
(* mq_send and mq_receive are the kernel's: they keep a queue in order of  *)
(* priority and refuse what does not fit the sizes it was created with.    *)
(***************************************************************************)
EXTENDS Naturals, Sequences, FiniteSets

CONSTANTS Adapters,
          Names,      \* names of queues
          Objects,    \* bound: queues in the kernel at a time
          Msgs,       \* messages
          NameOf,     \* name_, of each adapter
          MsgNum,     \* mq_max_msg_num_ (20 where the caller says nothing)
          MsgSize     \* mq_msg_size_ (4096 where the caller says nothing)

NoName == "empty"
Closed == "closed"

\* A message of length 0 is received as no message is.
NoMsg  == [prio |-> 0, len |-> 0]

ASSUME MqAdapterAssumption ==
    /\ NameOf \in [Adapters -> Names \union {NoName}] /\ NoName \notin Names
    /\ Closed \notin Objects
    /\ Msgs \subseteq [prio : Nat, len : Nat \ {0}]
    /\ MsgNum \in [Adapters -> Nat \ {0}] /\ MsgSize \in [Adapters -> Nat \ {0}]

VARIABLES
    named,   \* the queue that each name refers to, or "closed": none
    queue,   \* queues: the sizes they were created with, and their messages
    id,      \* mq_id_: the queue an adapter has open, or "closed": -1
    waits,   \* the adapters that have opened it without O_NONBLOCK
    call,    \* the call an adapter is in; "none": no such object now
    buf      \* the message its caller sends, or has just received

vars == <<named, queue, id, waits, call, buf>>

Queues == [max : Nat, size : Nat, msgs : Seq(Msgs)]
Calls  == {"none", "idle", "create", "reopen", "send", "recv"}

IsOpen(a) == id[a] # Closed

(* Slips a change to this code could make, next to what they would replace.*)
TakenForOpen(a) == call[a] = "idle"
AttrSwapped(a)  == [max |-> MsgSize[a], size |-> MsgNum[a], msgs |-> <<>>]
SizeOfQueue(a)  == queue[id[a]].size
Blocking        == TRUE
NumForSize(a)   == MsgNum[a]

\* mq_attr of the queue that the exclusive mq_open creates.
Attr(a) == [max |-> MsgNum[a], size |-> MsgSize[a], msgs |-> <<>>]

CanCall(a) == call[a] = "idle" /\ IsOpen(a)

\* The room for a message that MqRecv tells the kernel its caller has.
RecvSize(a) == MsgSize[a]

\* Each of the two calls of mq_open passes O_NONBLOCK, so that mq_send and
\* mq_receive do not wait for the other end.
CreateWaits == FALSE
ReopenWaits == FALSE

\* No name refers to the queue and nobody has it open.
Unused(o) == (\A n \in Names : named[n] # o) /\ (\A a \in Adapters : id[a] # o)

Init ==
    /\ named = [n \in Names |-> Closed]
    /\ queue = [o \in Objects |-> [max |-> 0, size |-> 0, msgs |-> <<>>]]
    /\ id = [a \in Adapters |-> Closed] /\ waits = {}
    /\ call = [a \in Adapters |-> "none"]
    /\ buf = [a \in Adapters |-> NoMsg]

Step(a, from, to) == call[a] = from /\ call' = [call EXCEPT ![a] = to]
SetBuf(a, m)      == buf' = [buf EXCEPT ![a] = m]

SetId(a, o, w) ==
    /\ id' = [id EXCEPT ![a] = o]
    /\ waits' = IF w THEN waits \union {a} ELSE waits \ {a}

Construct(a) ==
    /\ Step(a, "none", "idle")
    /\ UNCHANGED <<named, queue, id, waits, buf>>

-----------------------------------------------------------------------------
(* CreateMq.                                                               *)

\* With an empty name it returns at once.
CreateMq(a) ==
    /\ Step(a, "idle", "create") /\ NameOf[a] # NoName
    /\ SetBuf(a, NoMsg)
    /\ UNCHANGED <<named, queue, id, waits>>

CreateNew(a, o) ==
    /\ Step(a, "create", "idle")
    /\ named[NameOf[a]] = Closed /\ Unused(o)
    /\ named' = [named EXCEPT ![NameOf[a]] = o]
    /\ queue' = [queue EXCEPT ![o] = Attr(a)]
    /\ SetId(a, o, CreateWaits)
    /\ UNCHANGED buf

\* EEXIST.
CreateExists(a) ==
    /\ Step(a, "create", "reopen")
    /\ named[NameOf[a]] # Closed
    /\ SetId(a, Closed, FALSE)
    /\ UNCHANGED <<named, queue, buf>>

\* The queue is opened as it is, with its sizes and its messages.
Reopen(a) ==
    /\ Step(a, "reopen", "idle")
    /\ named[NameOf[a]] # Closed
    /\ SetId(a, named[NameOf[a]], ReopenWaits)
    /\ UNCHANGED <<named, queue, buf>>

\* Either mq_open may fail for other reasons, the second one also because the
\* queue has been unlinked since.
OpenFails(a) ==
    /\ Step(a, "create", "idle") \/ Step(a, "reopen", "idle")
    /\ SetId(a, Closed, FALSE)
    /\ UNCHANGED <<named, queue, buf>>

-----------------------------------------------------------------------------
(* MqSend and MqRecv.  On an adapter that is not open they return at once. *)

MqSend(a, m) ==
    /\ Step(a, "idle", "send") /\ CanCall(a)
    /\ SetBuf(a, m)
    /\ UNCHANGED <<named, queue, id, waits>>

Fits(a)    == buf[a].len <= queue[id[a]].size
HasRoom(a) == Len(queue[id[a]].msgs) < queue[id[a]].max

\* The queue of each name, as those see it who open it.
SizeOf == [n \in Names |-> IF named[n] = Closed THEN 0
                             ELSE queue[named[n]].max]
BoxOf  == [n \in Names |-> IF named[n] = Closed THEN <<>>
                             ELSE queue[named[n]].msgs]

B == INSTANCE Mailbox WITH
        Sizes <- {MsgNum[a] : a \in Adapters}, size <- SizeOf, box <- BoxOf

Sent(a) ==
    /\ Step(a, "send", "idle") /\ Fits(a) /\ HasRoom(a)
    /\ queue' = [queue EXCEPT ![id[a]].msgs = B!Insert(@, buf[a])]
    /\ SetBuf(a, NoMsg)
    /\ UNCHANGED <<named, id, waits>>

\* EMSGSIZE, or EAGAIN.
NotSent(a) ==
    /\ Step(a, "send", "idle")
    /\ ~Fits(a) \/ (~HasRoom(a) /\ a \notin waits)
    /\ SetBuf(a, NoMsg)
    /\ UNCHANGED <<named, queue, id, waits>>

MqRecv(a) ==
    /\ Step(a, "idle", "recv") /\ CanCall(a)
    /\ SetBuf(a, NoMsg)
    /\ UNCHANGED <<named, queue, id, waits>>

Received(a) ==
    /\ Step(a, "recv", "idle")
    /\ RecvSize(a) >= queue[id[a]].size /\ queue[id[a]].msgs # <<>>
    /\ SetBuf(a, Head(queue[id[a]].msgs))
    /\ queue' = [queue EXCEPT ![id[a]].msgs = Tail(@)]
    /\ UNCHANGED <<named, id, waits>>

\* EMSGSIZE, or EAGAIN.
NotReceived(a) ==
    /\ Step(a, "recv", "idle")
    /\ \/ RecvSize(a) < queue[id[a]].size
       \/ queue[id[a]].msgs = <<>> /\ a \notin waits
    /\ UNCHANGED <<named, queue, id, waits, buf>>

-----------------------------------------------------------------------------
(* DeleteMq unlinks the name, whoever has the queue open and whether or    *)
(* not this adapter has; mq_id_ stays.  The destructor calls it.           *)

Unlink(a) == named' = IF NameOf[a] = NoName THEN named
                      ELSE [named EXCEPT ![NameOf[a]] = Closed]

DeleteMq(a) ==
    /\ Step(a, "idle", "idle")
    /\ Unlink(a)
    /\ SetBuf(a, NoMsg)
    /\ UNCHANGED <<queue, id, waits>>

Destroy(a) ==
    /\ Step(a, "idle", "none")
    /\ Unlink(a)
    /\ SetId(a, Closed, FALSE) /\ SetBuf(a, NoMsg)
    /\ UNCHANGED queue

\* The process of the adapter ends, at any time.
Exit(a) ==
    /\ call[a] # "none"
    /\ call' = [call EXCEPT ![a] = "none"]
    /\ SetId(a, Closed, FALSE) /\ SetBuf(a, NoMsg)
    /\ UNCHANGED <<named, queue>>

Kernel(a) ==
    \/ \E o \in Objects : CreateNew(a, o)
    \/ CreateExists(a) \/ Reopen(a) \/ OpenFails(a)
    \/ Sent(a) \/ NotSent(a) \/ Received(a) \/ NotReceived(a)

Next ==
    \E a \in Adapters :
        \/ Construct(a) \/ CreateMq(a) \/ MqRecv(a)
        \/ \E m \in Msgs : MqSend(a, m)
        \/ DeleteMq(a) \/ Destroy(a) \/ Exit(a)
        \/ Kernel(a)

Spec == Init /\ [][Next]_vars

\* The kernel carries out the calls that can go on.
FairSpec == Spec /\ \A a \in Adapters : WF_vars(Kernel(a))

-----------------------------------------------------------------------------
(* Properties.                                                             *)

TypeOK ==
    /\ named \in [Names -> Objects \union {Closed}]
    /\ queue \in [Objects -> Queues]
    /\ \A o \in Objects : Len(queue[o].msgs) <= queue[o].max
    /\ id \in [Adapters -> Objects \union {Closed}] /\ waits \subseteq Adapters
    /\ call \in [Adapters -> Calls]
    /\ \A a \in Adapters : call[a] \in {"send", "recv"} => IsOpen(a)
    /\ buf \in [Adapters -> Msgs \union {NoMsg}]

\* MqRecv never stores more than the size its adapter was constructed with,
\* which is what the caller's buffer has room for, although the queue may have
\* been created by another process with messages of any size.
ReceivedFits ==
    \A a \in Adapters : call[a] = "idle" => buf[a].len <= MsgSize[a]

\* The adapters whose processes may have created the queue that a has open.
Namesakes(a) == {b \in Adapters : NameOf[b] = NameOf[a]}

\* CreateMq is content with a queue of any sizes.  Nevertheless MqRecv comes
\* back without a message from a queue that has one only if some adapter of the
\* name has longer messages, and MqSend does not send into a queue with room
\* only if some adapter of the name has shorter ones than it was given.
RefusedForCause ==
    [][\A a \in Adapters : call'[a] = "idle" =>
          /\ call[a] = "recv" =>
                \/ queue[id[a]].msgs = <<>>
                \/ buf'[a] = Head(queue[id[a]].msgs)
                \/ \E b \in Namesakes(a) : MsgSize[b] > MsgSize[a]
          /\ call[a] = "send" =>
                \/ ~HasRoom(a)
                \/ queue'[id[a]].msgs # queue[id[a]].msgs
                \/ \E b \in Namesakes(a) : MsgSize[b] < buf[a].len]_vars

\* The adapters of a name, in whatever order they create, open and delete it,
\* share one queue (module Mailbox): two that create it at the same time end
\* up with the same one, an existing one keeps its messages and its sizes, and
\* those left with a deleted one disturb nobody.
RefinesMailbox == B!Spec

\* No call waits for the process at the other end.
CallsReturn ==
    \A a \in Adapters :
        call[a] \in {"create", "reopen", "send", "recv"} ~> call[a] \in {"idle", "none"}
=============================================================================
