# A TLA+ model of the FCS to OPC UA gateway

The repository builds a small gateway. **FCS**, a process of its own that is
not part of the repository, knows the values of monitored items; the gateway
asks FCS over two POSIX message queues to push those values, and publishes
them as nodes of an OPC UA server. A second program is an OPC UA client. This
directory holds TLA+ modules of the gateway, TLC configurations that check
them on small instances, and TLAPS proofs of what matters most for instances
of every size.

Paths below are relative to the repository (`src/server/...`); in
`PROJECT.json` they carry one more leading `src/`.

## The system

| Part | State | Operations | Talks to |
|---|---|---|---|
| Server service `src/server/opcua_server_service.cpp` | thread handles | start the north thread, sleep 5 s, start the server | north stack, server |
| OPC UA server `src/server/opcua_server.cpp` | the `UA_Server`, `running_` | `Start`: new server, publish its pointer, port, node set, method callback, item configuration, requesting thread, run, delete | north stack (pointer, item messages), open62541 |
| North stack `src/server/north_data_communicate_stack.cpp` | epoll descriptor, two queue adapters, three request flags, success flag, server pointer | north thread: create queues, wait, read one message, parse, fill the item map, write nodes; requesting thread: timer round every 5 s | FCS (queues), server (writes), shared data |
| Queue adapter `src/server/mqadapter.cpp` | descriptor | create or open, send, receive, unlink, attributes | kernel |
| FCS messages `src/server/item_mq_msg.cpp` | link and type maps, the three request texts | configure, compose | shared data |
| Shared data `opcua_server_data_share.*` | item map, link map, type map, thread handles | plain `std::map`s; two mutexes are declared beside them and never locked | all threads |
| Conversions `include/common/opcua_tool.hpp` | none | text to number, `"ns:id"` to node | north stack |
| Node set `src/server/testNS.c` (generated) | none | 24 nodes: begin each, finish each in reverse | open62541 |
| Client `src/client/*` | `client_`, connection description | connect, browse, subscribe, read, write, call, add nodes | a server on port 4840 |
| `opcua_server_{alarms,event,historicaldata,method,monitoredItem,object_node}` | none | empty classes | nobody |
| `libs/`, `include/server/open62541.h`, `demo/build` | | third-party and generated | |

How they interact: the main thread starts the north thread and, five seconds
later, the server; just before it runs the server it starts the requesting
thread. The requesting thread sends the requests `SubItem`, `SetPushMethod` and
`Suspend` until the north thread has seen a good reply to each. From then on
the north thread lets pushed values through: it clears and fills the item map
and writes each value to the node linked to the item, while the main thread is
inside `UA_Server_run`. No lock guards the flags, the maps or the server.

The client program is a process of its own. It connects to a server on port
4840, which is not the gateway (that one listens on 15121), and calls it one
service after the other; several clients may run at a time.

What is hard: three threads that share plain variables; requests and replies
lost at full queues; queues that outlive the process, hold replies to an
earlier start, and may have been made by either side with its own sizes; a name
that is unlinked while others use its queue; an edge-triggered descriptor with
one read per event; a start-up order that rests on a sleep; failures that are
logged and then ignored, and exceptions that nobody catches; maps that grow
when they are read; a generated node set whose order of calls has to
suit its hierarchy; clients that read a value and write it back in separate
calls, next to each other. `PROJECT.json` lists every such place under
`hazards`, at its line, with the properties that watch it.

What makes each part correct:

- *North stack*: every message FCS sends is read; requests are repeated until
  each is confirmed; nothing pushed gets through before; the maps shared
  between threads are written before they are used.
- *Item push*: each pushed value reaches the node of its item, once, and no
  other node; the configuration survives its lookups.
- *Node set and server*: parents before children, children finished before
  parents, a result that tells a whole import from a partial one, and a method
  callback that only sees the arguments it expects.
- *Queue adapter*: the adapters of a name share one bounded queue, whoever
  created it and with whatever sizes, nobody receives more than it has room
  for, and no call waits for another process.
- *FCS messages*: a request is composed before it is sent, and `SubItem` asks
  for exactly the linked items.
- *The gateway*: all of this still holds when the parts run together, with
  nodes missing after a partial import, and with the process ending anywhere.
- *Client*: what clients do to a shared node next to each other stays within
  bounds; what a call reports is what has happened.

## Modules

| Module | Lines | What it is |
|---|---|---|
| `Handshake` | 48 | abstract: what the start-up handshake promises |
| `NorthStack` | 495 | the gateway's three threads, both queues, epoll, exceptions, restarts, and FCS |
| `NorthStackProofs` | 614 | its theorems |
| `NorthStackLimits` | 426 | more theorems: how far the findings reach, and what its queues are |
| `ItemMirror` | 62 | abstract: what becomes of a pushed value |
| `ItemPush` | 203 | filling the item map and writing the nodes, next to client writes |
| `ItemPushProofs` | 495 | its theorems |
| `Hierarchy` | 62 | abstract: what an import of a node set promises |
| `NodeSet` | 191 | import of the node set, method callback, method call |
| `NodeSetProofs` | 436 | its theorems |
| `Mailbox` | 59 | abstract: a bounded queue per name, in order of priority |
| `Fifo` | 33 | abstract: a bounded queue, first in first out |
| `MqAdapter` | 270 | adapters of several processes over the kernel's queues |
| `MqAdapterProofs` | 1425 | its theorems |
| `Gateway` | 225 | composes NorthStack, NodeSet and ItemPush; configuration and requests |
| `GatewayProofs` | 1094 | its theorems |
| `OpcUaClient` | 225 | client programs side by side against one server |
| `OpcUaClientProofs` | 647 | its theorems |
| `MCNorthStack`, `MCItemPush`, `MCMqAdapter`, `MCGateway`, `MCOpcUaClient` | 47 | values of the constants, symmetry |

Near the top of each component's module there is a short section of *slips*:
one-line variants of a definition (a test dropped, an off-by-one, an order
swapped). The specification does not use them. `PROJECT.json` ("mutants") says
which definition each one replaces and which property then fails; it shows that
the property depends on that piece of code.

### NorthStack

*State to code.* `mainPc`, `northPc` and `subPc` are where the three threads
are in `OpcUaServerService::Start`/`OpcUaServer::Start`,
`NorthDataCommunicateStack::Start` and `RunSubItemFromFcs`. `server` is what
`open62541_server_` points at; `pending` the three `north_chat_*_semaphore_`
flags; `success` is `is_successful_request_fcs_send_item_semaphore_`; `adIn`
and `adOut` are the two `MqAdapter` pointers (not constructed, failed, open);
`epfd` and `watching` the epoll descriptor and what has been added to it. `inQ` and
`outQ` are the kernel's queues, which outlive the process; `edge` is the ready
list of the epoll instance. `accepted` and the field `life` of messages are
ghosts: what FCS has accepted, and which start of the process a request is of.

*Actions.* `Main*`: start the north thread; sleep and publish the new server;
load port, node set and callback; fill the maps; start the requesting thread;
`UA_Server_run`, which serves for good or returns from its start-up; delete. `North*`: create the epoll descriptor; open the inbound queue,
then the outbound one (not reached if the first fails); add the queue to epoll
with `EPOLLIN | EPOLLRDHUP | EPOLLET`; wait (event, timeout, failure); read *one* message;
parse it (forget, confirm, admit, or throw); fill; write. `Sub*`: the timer; per function
skip or send; check whether all are confirmed. `FcsAnswer` and `FcsTell` are
FCS, `Restart` a stop and start of the process at any moment, a crash included.
What FCS does when the inbound queue is full is not in the repository, and there
are three ways to send: it tries again until there is room (`Deliver` when there
is), it drops its answer ("drop" in `Faults`), or it waits inside `mq_send`
("block": `blocked` holds its message, and it does nothing else until the kernel
has taken it). FCS is one sender: one message at most is waiting.

A step ends where a thread touches something another one can see. The flags
are plain booleans: each is written by one thread only, and the model gives
them one value at a time.

*Exceptions.* `asString`, `asUInt` and the conversions throw on members of
other types and nothing catches: `NorthThrows` ends the process while it
parses or fills, with the message gone from the queue and the queues kept.

*Readiness.* The message queue descriptor is watched edge-triggered, and
`ReadMqMsg` reads one message per event. Under the contract of epoll(7) alone
that loses wake-ups. On Linux a receive wakes the pollers of the queue, so that a
watched queue goes back on the ready list, but only when no sender is waiting
for room: else the kernel puts the waiting message into the queue and wakes that
sender alone. `Rearmed` says both, and `NorthRead` lets the waiting message in. So
whether the north thread can sleep on messages depends on how FCS sends:

- If FCS does not block in `mq_send` (no "block"), no wake-up is lost:
  `NoLostWakeup`, `InboundDrains` and `HandshakeCompletes` are stated, checked and,
  the first of them, proved under this assumption, which only FCS can meet. With
  `NeverRearmed` in place of `Rearmed` the first two fail, so the code depends on it.
- If it does, the thread can be left asleep on a full queue with FCS blocked on it
  and nothing to wake either, and the handshake need never complete. It is the
  only way in which it can fail (`HandshakeUnlessBlocked`), and a sleep on a queue
  that has a message and room is excluded (`SleepsOnFullQueueOnly`).

*Abstracted.* A message is its kind, function and error code: what
`ParseNorthMsg` distinguishes. The JSON layout is left out, and messages it
cannot use are `Junk`. All messages are sent with one priority, so a queue is FIFO
(`KeptQueueIsFifo` in `MqAdapterProofs`, `QueuesAreFifo` in `NorthStackLimits`); both ends are taken to use the
default sizes, so that every message fits. The maps, read and written in `fill` and `write`,
are ItemPush's subject; Gateway puts the two together.

### ItemPush

`items`, `links` and `types` are the maps of the shared data
(`minor_item_data_val_`, `fbox_minor_item_link_server_node_identifier_map_`,
`server_node_value_type_map_`), partial functions with `operator[]` as
`Touched`/`Lookup`: an absent key is added with an empty text. `TakePush`
clears the item map; `FillMember` is one member of the message's array,
`FillThrows` a compound value, on which `asString` throws;
`FillDone` and `WriteItem` are the loop of `WriteItemValToOpcUaServerNode`,
with the type test, the way from the text `ns:id` to a node (`Denotes`: a blank
text leaves the identifier uninitialised, and any node may be meant) and
`WriteVariableValue` to a server that refuses a node it has not got. `loaded`
is the part of the linked nodes that the server has: any part, fixed here, the
import's outcome in Gateway. `ClientWrite` is any client, at any point, since all these nodes
are writable.

`StringToNum` returns the *set* of outcomes: the number, 0 for a text that is
no number, and any number for the empty text, which leaves `num` uninitialised.

Abstracted: a text is the number it denotes, or no number, or empty (the round
trip of a double through its decimal text is taken for exact); the loop over
the map takes any order.

### NodeSet and Hierarchy

The 24 nodes of `testNS.c` with the parents named there. `Begin` and `Finish`
are the calls of the chain, one action each at position `pos`; `BeginFails`
and `FinishFails` end it, the latter leaving the node, removing it, or removing
it with its children. `CheckResult` is `OpcUaServer::Start` after the import;
`Call(x)` a client calling the method, with `MyNodeCallBack`'s reading of the
declared `UInt32` as `UA_Int32`, and its sum in integers of fixed width.

`Hierarchy` is the import without its list of calls, for any tree: nodes are
added under a parent that is there and completed when all their children are;
it succeeds when all are complete; it may give up at any time, with any part
of the tree left, but no node complete above one that is not; methods are
offered after success only. `there`, `complete` and `callable` are NodeSet's
`present`, `finished` and `callback`.

### MqAdapter and Mailbox

Any number of adapters, each with its `name_`, sizes and `mq_id_`, over a
kernel in which `named` says which queue a name refers to and `queue` what each
queue holds and was created with. A queue lives as long as it has a name or
somebody has it open. A method is a step from `idle` to its name and the
kernel's answer: `CreateMq` is an exclusive `mq_open`, which makes the
queue (`CreateNew`) or finds it there (`CreateExists`), and then, in a second
system call, an `mq_open` of whatever the name refers to by that time
(`Reopen`), or of nothing (`OpenFails`). `MqSend` and `MqRecv` test `IsOpen`
and put or take a message in order of priority, or fail for want of room
(`HasRoom`), of size (`Fits`) or of a message. `DeleteMq` and the destructor
unlink the name and keep `mq_id_`. `Exit` is the end of a process. `Kernel(a)`
answers the call that `a` is in. `CreateWaits` and `ReopenWaits` are the flags of
the two `mq_open` calls, both with `O_NONBLOCK`; an adapter that opens its queue
without it is in `waits`, and its `mq_send` and `mq_receive` do not come back from
a full or empty queue.

`Mailbox` is the abstract view of one name's queue: created empty with the size
of its creator, filled up to it, taken from in order, removed. The mapping
takes the size and the messages of the queue that the name refers to; one that
has lost its name does not show.

### Gateway

The composition: `NS == INSTANCE NorthStack`, `L == INSTANCE NodeSet WITH pc <-
loadPc`, `IP == INSTANCE ItemPush WITH pc <- PushPc, loaded <- Loaded`. The
mapped values say how the parts hang together: the north thread is in the
push exactly when it is in NorthStack's `fill` or `write`, and the server
has those linked nodes that the import has left in it.

What NorthStack takes in one step is here what the code does: `MainLoad` comes
after the 48 calls of the import, any of which may fail if the
instance says so; `MainInitItems` is the four calls of `OpcUaServer::Start` on
`item_mq_msg_` (`config` counts them): the links and types are filled in and
their addresses kept, then the three requests composed, `SubItem` from these
addresses; `NorthFill` and `NorthWrite` are the loops of
ItemPush, one member and one item at a time, while the other threads, FCS and
clients go on. `composed` and `asks` are what the request texts hold, as
far as it matters.

### OpcUaClient

A step is one service call of `OpcUaClient::Start` and what the code does with
its result. The server is external: the node `the.answer` (there or not), the
types and objects the clients add. `lossy`, chosen once, says whether requests
and replies may be lost. `written` and `start` are ghosts. `value++` wraps
around as it does in the builds of the client. The uninitialised
`write_storageType` may abort the process in `WriteRequest`, before it has
returned anything. `Results` is what `SetNodeValueByRequest` may return for a
request that was served or lost; `claimed` are the clients to which it has
returned true.

## What the runs show

Times are for two workers. Deadlock is checked unless stated.

| Run | Instance | States | Shows |
|---|---|---|---|
| `ns_safe` | both queues 1, two starts, every failure; FCS retries or drops | 0.70 M | `TypeOK`, `LinkMapsQuiescent`, `PushFollowsAcceptance`, `AsksUntilAccepted`, `RefinesHandshake` |
| `ns_live` | `InCap` 2, `OutCap` 1, no failure, FCS retries, fairness | 0.21 M, 1 min | `StaysAlive`, `NoLostWakeup`, `HandshakeCompletes`, `InboundDrains` |
| `ns_block` | both 1, no failure, FCS blocks in `mq_send`, fairness | 0.30 M, 1 min | `HandshakeUnlessBlocked` |
| `ns_stale` | both 1, two starts, no failure | | violates `ConfirmedByOwnRequest` |
| `ns_unset` | both 1, a queue may not open | | violates `SendsThroughAdapter` |
| `ns_deleted` | both 1, `UA_Server_run` may return | | violates `WritesToLiveServer` |
| `item_safe` | 3 items, 2 linked, any part of the nodes loaded; pushes of 3 members; fairness | 0.14 M | `TypeOK`, `ConfigKept`, `RefinesMirror`, `DueIsWritten` |
| `item_definite` | the same, one member | | violates `DueIsDefinite` |
| `nodeset_safe` | all 24 nodes, 8-bit integers | 556 | five invariants, `RefinesHierarchy` |
| `mq_safe` | two adapters of different sizes on one name, three queues in the kernel, fairness of the kernel | 0.29 M | `TypeOK`, `ReceivedFits`, `RefusedForCause`, `RefinesMailbox`, `CallsReturn` |
| `gateway_safe` | both queues 1, two starts, two linked items and one that is not, pushes of two members; clients write 0; the import may fail at the second node; exceptions, and a server that returns | 0.97 M, 1 min | `TypeOK`, `MapsReady`, `RequestsComplete`, `NothingRefused`, `RefinesMirror` |
| `client_safe` | two clients, integers of -8..7, losses or none | 0.43 M | `TypeOK`, `AnswerBounded`, `AnswerAdvances`, `EveryoneGetsAnObject`, `ReportedWritesDone` |

### The properties

- `NoLostWakeup`: the thread never sleeps on a queue that holds a message its
  epoll instance does not report. `InboundDrains` is the liveness side of it. Both
  hold of an FCS that does not block in `mq_send`.
- `LinkMapsQuiescent`: the unlocked maps are read only after the main thread
  has written them. No lock says so: it follows from the requesting thread being
  started after the maps are written, and pushes waiting for that thread.
- `PushFollowsAcceptance` and `RefinesHandshake`: whatever is lost, refused,
  repeated or left over from an earlier start, a push gets through only when
  FCS has at some time accepted all three functions, and the flags go through
  exactly the life `Handshake` describes (confirmed only if accepted, complete
  only if all confirmed, forgotten only by a restart).
- `AsksUntilAccepted`: the requesting thread ends only with success, and only when
  FCS has accepted all three requests in the end: there is no order of lost requests,
  late and repeated answers in which it gives up before.
- `StaysAlive`: with none of the failures behind the findings, the process
  never ends by itself. The queues are set up on one thread and used on
  another with nothing but `sleep(5)` in between; without it the requesting
  thread calls through an unset pointer in the end.
- `HandshakeCompletes`: although the requesting thread ignores that a send has
  failed, and three requests per round do not fit the queue, it gets through, if
  FCS does not block in `mq_send`. `HandshakeUnlessBlocked`: if FCS does, it gets
  through unless FCS stays blocked for ever; requests that are lost, refused or
  repeated never keep it from completing, nor does a wait that ends.
- `RefinesMirror`: each pushed value of a linked item is written once with
  a value it stands for, nothing else is, and what clients write stays until
  the item is pushed again. `DueIsWritten`: that write comes.
  `ConfigKept`: `operator[]` adds entries, and never alters a configured one.
- `ParentsFirst`, `ChildrenFinishedFirst`, `AllOrError`, `CallbackIsDeclared`:
  the generated list of 48 calls suits the tree, also when it breaks off
  anywhere, and the callback is only set on a method whose declarations are whole.
  `RefinesHierarchy` says the same as one promise, of steps as well as of states.
- `RefinesMailbox`: through every race of `CreateMq`, `DeleteMq` and ends of
  processes, the adapters share queues that keep their sizes, take no more than they
  hold and give back what was put in, in order. `ReceivedFits`: whoever made
  the queue, with whatever message length, nobody gets more than fits
  its buffer. `RefusedForCause`: `CreateMq` is content with a queue of any sizes,
  but a receive that finds a message, and a send that finds room, fail only
  where adapters of the name were constructed with different lengths.
  `CallsReturn`: every call comes back whatever the other process
  does; it needs `O_NONBLOCK` in each of the two calls of `mq_open` (the mutant
  drops it from the second one alone).
- `MapsReady`: with the import, the configuration and the push in their single
  steps, the north thread finds the whole configuration whenever it uses the
  maps. `RequestsComplete`: the requesting thread never sends a text not yet
  composed, and what it asks for is what is linked. `NothingRefused`: if
  `testNS` returned success, all values let through find their nodes; the
  north thread never looks at that result, and gets to write only by way of FCS.
  Gateway's `RefinesMirror`: the same promise as ItemPush's, now from the queue
  to the nodes, with the real start-up, partial imports, exceptions and restarts.
- `AnswerBounded`, `AnswerAdvances`: clients lose updates of each other, but
  the answer never runs ahead by more than two for each client that has read
  it, and without losses it goes forward by two at least.
  `EveryoneGetsAnObject`: the object types have fixed ids, so all clients but
  one are refused; their objects depend on it all the same.
  `ReportedWritesDone`: with the node there, `SetNodeValueByRequest` reports only
  writes the server has done. Without the node it may report one that was
  refused, since it looks at the result of the service and not at the write's.

### Why the bounds are enough

- `InCap`: a wake-up is lost when a message is left behind after a read, so two
  must fit where `NoLostWakeup` and `InboundDrains` are checked (`ns_live`). With
  one, as in `ns_safe`, `ns_block` and `gateway_safe`, the inbound queue is full whenever it
  is not empty, and FCS retries, drops or blocks. `OutCap` = 1 makes "the queue is full"
  happen in every round of three requests. The real size is 20, if the gateway
  is the one that creates the queue; if not, it is what FCS chose: the theorems
  hold for every size, over every failure and any number of starts.
- `MaxLives` = 2: a stale message is one from the start before. With one start the
  process may still crash for good.
- Items: one linked to a node that is there, one linked to a node that is not,
  one that nobody linked; three members allow all of them, or one item twice, in a push.
  Numbers: 0 and 1, which booleans and null become, and another.
- `mq_safe`: an adapter whose queue is unlinked and another one created by the
  other adapter make two queues in the kernel, and a third may be named then; of the two
  adapters each has the longer messages or the longer queue, and messages of two
  lengths and two priorities are sent.
- `gateway_safe`: node 22 is the node of the second item, so that one item is
  left without a node and the other is not; other places of failure are
  `nodeset_safe`'s. A third item is linked by nobody, so that its lookup adds an
  entry to the maps. Two members are a push in which one write is refused and one is not.
  Nodes start at 0, pushes write 1 and clients 0, so that no one's write passes
  for another's; that clients write anything is `item_safe`'s.
- `Half` = 8: small, so that wrap-around is reached (every start value is tried),
  and large enough that the bound of `AnswerBounded` after both clients have read
  (4, from a start of 0 or less) is well below the greatest integer, 7.
- Two clients are the least that lose each other's updates. They are
  interchangeable, and the run checks invariants only, so symmetry is sound.

`CHECK_DEADLOCK FALSE` stands only where the program may come to an end: the process
may crash (`ns_safe`, `ns_unset`, `ns_deleted`, `gateway_safe`, the item runs, in which
an exception ends it) or end its work (the clients).

### Fairness

- Every thread that can move does: WF on `Main`, `North` and `Sub` (the
  scheduler runs each; the thread loops do not block except in the waits the
  model has).
- FCS answers what it is asked (WF), and does not refuse for ever a request made again
  and again (SF on the good answer, per function). Nothing is
  assumed of its pushes and of what the gateway does not understand. Without
  "drop" and "block" it keeps its answer until there is room, outside `mq_send`: this
  is an assumption on FCS, on which all of `ns_live` rests. With "block" (`ns_block`)
  it is inside `mq_send` until the kernel takes the message.
- In ItemPush: WF on the loop of the north thread from the end of filling on. Clients
  and FCS are under no fairness.
- In MqAdapter: WF on the kernel's answer to the call an adapter is in, when it
  has one. Whether anybody calls is left open.

Time passes by the order of steps only: the 100 ms of `epoll_wait` is a
timeout that may come at any time there is nothing to report; the five
seconds of the timer are a step; the five seconds of sleep suffice for the north thread
to set itself up unless "slow" is among the faults.

## What differs from what the code says

Each has a violation run and an entry under `findings`.

- *`ns_stale`*: after a restart a reply to a request of the earlier start,
  still in the queue, clears a flag of the new one; the comment says the
  thread sends the request and waits for its reply. (Acceptance itself is not at
  risk: `PushFollowsAcceptance` holds across restarts.)
- *`ns_unset`*: when the inbound queue does not open, the outbound adapter is
  never constructed, and the requesting thread calls through its unset pointer.
- *`ns_deleted`*: when `UA_Server_run` returns at once, the server is deleted
  and its pointer is kept; a later push is written to it.
- *`item_definite`*: an item pushed as the empty string has an uninitialised
  number written to its node.

Noted while reading, without a run of its own:

- The north thread reads one message per edge-triggered event
  (`north_data_communicate_stack.cpp:94-98`). If FCS sends with a blocking
  `mq_send`, a read from a full queue lets its message in and raises no event: the
  thread sleeps on a full queue, FCS stays blocked, and neither the handshake nor a
  push gets on. Nothing in the repository says how FCS sends, so this is an
  assumption of the properties above and not a finding. Reading until the queue is
  empty would do away with it.
- `SetNodeValueByRequest` (`opcua_client.cpp:534`) tests the result of the service
  and not `results[0]`: it logs the new value and returns true also when the
  server has refused to write the node ("Set node value by use the request to
  server.", line 499). `ReportedWritesDone` says where its report can be trusted.
- The north thread writes nodes while the main thread runs the server; the
  header marks the call thread-safe, but the library is built with
  `UA_MULTITHREADING 0`, in which its locks are empty. The models make each
  write and each iteration one step, and say nothing of what a race could do.
- `CreateMq` reports success for a queue that the other side made with longer
  messages than the adapter's; `MqRecv` then never receives anything
  (`RefusedForCause` says that this is the only way).
- `testNS.c` (line 113) declares the method's output a `UInt32`, while
  `MyNodeCallBack` returns an `Int32`.
- The comment at `opcua_client.cpp:417` says the first publish returns the
  initial value, which is not so when the monitored item was refused.
- `GetNodeValue`'s failure is ignored, so that 1 and 2 overwrite the answer (why
  `AnswerBounded` counts from 0 where the start is negative).

## What is proved

All theorems are checked by TLAPS from the assumptions named in the modules
(`NorthStackAssumption`, `ItemPushAssumption`, `NodeSetAssumption`,
`MqAdapterAssumption`, `GatewayAssumption`, `OpcUaClientAssumption`) and nothing
else. Every invariant, every refinement and every safety property of steps that
a passing run checks is proved, `NoLostWakeup` under the assumption on FCS that the
run makes too. For each of the findings it is also proved how
far it reaches: what the code must meet for the property to fail.

**NorthStack**, for every queue size, number of starts and set of faults:
`TypeCorrect`, `PushesFollowAcceptance`, `MapsQuiescent`, `SleepsOnFullQueueOnly`,
`NeverGivesUp`, `ImplementsHandshake`; and `WakeupNotLost` for every set of faults
without "block". None of these is inductive: that nothing
gets through before acceptance says nothing of a reply still in a queue. `IInv`
adds four conjuncts. *AcceptanceKnown*: whatever says "accepted" is about a
function FCS did accept, be it a reply at any place in the queue, one that
waits to be sent, the one being parsed, or a cleared flag; a restart keeps the queue, and so the fact.
*GateOrder*: `success` implies all flags cleared and the requesting thread
started, which the main thread does after writing the maps, and a requesting
thread that has ended implies `success`. *SenderWaits*: FCS is inside
`mq_send` only on a full queue, and only with "block". *ReadyListed*: outside the
interval from an event to its read, a watched queue that has a message is on the
ready list, or full with "block". Refinement then is step by step: a confirmation maps to `Confirm` by
AcceptanceKnown, the check to `Complete`, an answer to `Accept`, the rest to
stuttering.

`NorthStackLimits` goes on from there, with *SetUpOrder*: how far the north
thread is in its set-up determines which adapters are constructed and open, and
the main thread is past the sleep only if it is through, or "slow". That gives
`OnlyFindingsEndIt` (`StaysAlive`), and the limits of three findings:
`OpenQueuesSuffice` (the unset pointer is reached only if `mq_open` fails or the
set-up outlasts the sleep), `RunningServerSuffices` (the deleted server is
written to only if `UA_Server_run` returns), and `EmptiedQueuesSuffice`: were
the queues empty at each start (*QueuesEmptied*, a condition on behaviours,
which the code would meet if it unlinked both names before it opens them), no
flag would be cleared by an answer to an earlier start; *OnlyOwn* (all messages
that carry a start carry the running one) is inductive then. The hypotheses on
`Faults` are about a constant that instances choose freely; `ns_unset` and
`ns_deleted` show the properties violated with "open" and "run" in it.
`QueuesAreFifo`: each queue implements `Fifo`'s `KeptSpec`, over all failures and
restarts (its `Pass` is a read that lets the message of a waiting sender in). `ReadsFindAMessage`: what an event has reported is still there when the
north thread reads, since it alone takes from that queue.

**ItemPush**, for every set of items and links, every part of the nodes loaded
and pushes of every length: `TypeCorrect`, `ConfigIsKept`, `ImplementsMirror`.
`IInv` adds *LoopOrder*: what is left to visit is in the map, and nothing is
left outside the loop. Links are injective by assumption, so that a write due to
a node is of one item; the step from filling to writing keeps what is due, since
filling counts the whole map and writing what is left of it.
`DefiniteIfNoneEmpty` is the limit of the finding: unless the push has an item
with an empty text, at most one number is due to each node.

**NodeSet**, for integers of every width: `TypeCorrect`, `BeginOrder`,
`FinishOrder`, `ResultIsTrue`, `CallbackSafe`, `ImplementsHierarchy`. `IInv` adds *Progress* (while no
call has failed, the position determines what is begun and what is finished) and
*Outcome* (what is known after the end: a good result means everything, and
after a bad one the first node is not finished). The steps from `IInv` to each
property are lemmas of their own, which Gateway cites. For the refinement, *Progress*
makes each `Begin` an `Add`, since the parent of the next node has been begun,
and each `Finish` a `Complete`; a failing call is a `GiveUp` (the node it leaves,
or the subtree it takes away, breaks no completed parent), the end of the chain a
`Succeed`, the server's look at the result an `Offer`.

**MqAdapter**, for every number of processes, names and queues and all sizes:
`TypeCorrect`, `ReceivedMessagesFit`, `ImplementsMailbox`. That what is received
fits needs *Stored* (a queue holds no message longer than its own size) and the
kernel's refusal to receive from a queue whose size is more than the caller's.
*OneName*: no queue has two names, so that a message put into one does not show
in another; `Named`: only an adapter with a name gets to `mq_open`. Sends and
receives on a queue that has lost its name map to stuttering, `CreateNew` to
`Create`, unlinking to `Remove`, the second `mq_open` to stuttering: that is why
the window before it is harmless. *Provenance*: a queue, named or only open, has
the sizes of an adapter of the name it was created for, which is that of the
adapter that has it open, so `FailuresHaveCause` (`RefusedForCause`).
`AgreedQueueIsFifo`: where the adapters of a name agree on its length (20 where
nobody says otherwise) and messages have one priority, all that happens to the
queue that bears the name is a behaviour of `Fifo`; it rests on
`OnePriorityIsFifo`, about insertion by priority alone. In general
`HighestPriorityFirst` holds: a queue stays in order of priority, a new message
behind its equals (*PlaceSplits*, by cardinality).

`Fifo` lets a name be unlinked (`Lose`). The gateway neither calls `DeleteMq` nor
destroys an adapter, which `NeverUnlinks(n)` says as a condition on behaviours;
processes may still end and start at any time. Under it, *Shared* is inductive
(who has a queue of the name open has the one the name refers to), hence
`EndsShareOneQueue`; then nothing is ever lost, `KeptQueueIsFifo`, which is
what `QueuesAreFifo` shows of NorthStack's queues; and `AgreedCallsAreFifo` says it
of the calls: where the sizes agree too, each `MqRecv` that returns has taken
the first message or found the queue empty, each `MqSend` has added the last
or found it full. NorthStack makes one step of such a call, and that is why it may.

**Gateway**, for all of these parameters at once and any calls of the import
failing. `ImplementsNorthStack`: the single steps are stuttering to NorthStack
but for the last of each kind, so its theorems hold of the whole:
`ThreadsKeepOrder` states the invariants (`NoLostWakeup` without "block" only, and in
general that the thread sleeps on no queue that has a message and room) and `ImplementsHandshake` the
refinement; `OpenQueuesSuffice`, `RunningServerSuffices` (with the crash of a
write excluded too), `EmptiedQueuesSuffice` and `QueuesAreFifo` carry over what
`NorthStackLimits` proves. `LoadInvariance` carries NodeSet's `IInv` over in the same way, with
*LoadOrder* (what the main thread does after the call of `testNS` finds it
finished): `ImportIsRight` states NodeSet's four properties of the whole,
`ImportsKeepHierarchy` the refinement (each start is an import of its own: a
restart goes back to the initial state of `Hierarchy`). With *GInv* it also
gives `NothingIsRefused`. `Invariance` then takes `IInv` of
NorthStack from there, and adds *ConfigOrder* (how many of the four calls are
made, what they have left, and that the requesting thread is started after the
fourth) and *MapsOrder* (before the first call the maps are as new; from it on,
ItemPush's `IInv` holds). From `LinkMapsQuiescent` the north thread is in the
push only after the fourth call: `MapsAreReady`; from ConfigOrder,
`RequestsAreComplete`. `ImplementsMirror` repeats ItemPush's refinement with
these facts for its `Init`, takes the steps of the import and of the server's
end for `Load`, and a restart for `Restart`. Since a definition reached through
two instances counts as two for the prover, lemmas `Same*` first show the copies
equal.

**OpcUaClient**, for every number of clients and width of integers:
`TypeCorrect`, `AnswerIsBounded`, `AnswerMovesOn`, `ObjectsForEveryone`,
`ReportsAreTrue`. The bound is not inductive; `IInv` adds that what each client is about to write
keeps within it (*PlannedBounded*), one less if it has two writes before it. A
read raises the bound by two for the client that has read, which is what it may
add. *Advance* is the same for both sides when nothing is lost: between the
start and the bound there is room, so no planned value has wrapped around, each
second write is two above the start at least, and the write that comes last is a
second one of some client. *ObjectsKept* follows the object type from the client
that adds it to those that need it. `ReportsAreTrue` is inductive as it
stands: a request is claimed in the step in which it was served. The assumption that there is a client at all is for Advance.

Only model-checked: liveness (`HandshakeCompletes`, `HandshakeUnlessBlocked`,
`InboundDrains`, `DueIsWritten`, `CallsReturn`), which is out of reach of the installed provers,
and the violation runs. Induction over data is out of reach too; nothing here
needs it, as queues are related step by step. No module uses `RECURSIVE`.

## Not modelled

- `SendMqMsg`, `AddFdToEpoll`, `RemoveFdFromEpoll`, `DeleteEpoll`,
  `ConnectByCertificated`, `DeleteSubscription`, `AddVariable`: nothing in the
  repository calls them. (`AddVariable`, as it stands, declares a variable of an
  Int16 value as `UINT16`.) The getters of the queue adapter change no state.
- The layout of the request texts and set-up of logging: formatting.
- Where the text of a message ends: `ReadMqMsg` takes its buffer of 4096 characters
  for a terminated text. Contents of messages are abstracted to their kinds.
- The attributes of the nodes in `testNS.c`: only their hierarchy matters.
- Monitored items and notifications: after `Start` the client never iterates.
- The empty classes, and boost, glog, jsoncpp and open62541 as such. These
  vendored sources, with the open62541 amalgamation in `include/server`, are nearly all
  of the lines in the repository; the program's own code is some 5 000 lines, so the share of
  all lines that the models cover stays small.

## Plan

Built, in this order: NorthStack with Handshake, ItemPush with ItemMirror,
NodeSet with Hierarchy, OpcUaClient, MqAdapter with Mailbox and Fifo, Gateway with
the requests; each
with its proofs.

What is left, by what it would add:

1. NorthStack over MqAdapter in one module: the gateway's two queues as adapters
   that meet the sizes FCS chose. As it is, NorthStack takes the sizes to agree,
   and what happens when they do not is known from MqAdapter alone. The two
   halves of the argument are proved (`KeptQueueIsFifo` and `AgreedCallsAreFifo`,
   `QueuesAreFifo`); the composition would join them.
2. Liveness of the whole Gateway, with the fairness of its parts: so far it is
   checked part by part (`ns_live`, `item_safe`, `mq_safe`), since the
   composition with fairness is larger than a short run allows.
3. An abstract specification of the client.
4. The uncalled operations above, should a caller appear.
