---------------------------- MODULE OpcUaClient ----------------------------
(***************************************************************************)
(* Runs of the client program, side by side against one server on port     *)
(* 4840: OpcUaClient::Start from the connection to the endless loop at its *)
(* end.  The server is not part of the repository (the gateway listens on  *)
(* another port); it serves one request at a time.  What matters of it is  *)
(* the node "the.answer", which the clients read and write back            *)
(* incremented, and the nodes they add.                                    *)
(*                                                                         *)
(* A step is one service call, with what the code does with its result     *)
(* up to the next call.                                                    *)
(***************************************************************************)
EXTENDS Integers, FiniteSets

CONSTANTS Clients,
          Half     \* 2^31: an Int32 is in -Half..Half-1

ASSUME OpcUaClientAssumption ==
    IsFiniteSet(Clients) /\ Clients # {} /\ Half \in Nat \ {0, 1, 2}

Int32 == (-Half)..(Half - 1)

VARIABLES
    pc,       \* the next service call of each client
    client,   \* client_: "null", "connected" or "deleted"
    value,    \* the local variable of Start
    claimed,  \* clients whose SetNodeValueByRequest has returned true
    lossy,    \* requests and their replies may be lost
    kind,     \* the.answer is an "int32", or the server has "none" such
    answer,   \* the value of the.answer
    start,    \* ghost: its value at the start
    written,  \* ghost: clients whose write request the server has done
    types,    \* of "NewReference" (12133) and "NewObjectType" (12134), those the
              \* server has
    objects   \* clients whose object the server has

serverVars == <<lossy, kind, answer, start, types, objects>>
vars == <<pc, client, value, claimed, written, serverVars>>

Pcs == {"connect", "browse", "subscribe", "monitor", "publish", "read",
        "request", "highlevel", "call", "reftype", "objtype", "object",
        "variable", "idle", "returned", "aborted"}

(* Slips a change to this code could make, next to what they would replace.*)
IncrementedTwice(v)   == IF v >= Half - 2 THEN -Half ELSE v + 2
NotIncremented(v)     == v
RefusedSkipsObject(c) == "variable"
TakenUnwrapped(v)     == v + 1
AlwaysTrue(served)    == {TRUE}

\* value++, which wraps around in the builds of the client.
Incremented(v) == IF v = Half - 1 THEN -Half ELSE v + 1

\* Whether the object type was added or refused makes no difference to Start.
AfterRefusedType(c) == "object"

Init ==
    /\ pc = [c \in Clients |-> "connect"]
    /\ client = [c \in Clients |-> "null"]
    /\ value = [c \in Clients |-> 0]
    /\ claimed = {} /\ written = {}
    /\ lossy \in BOOLEAN /\ kind \in {"int32", "none"}
    /\ answer \in Int32 /\ start = answer
    /\ types = {} /\ objects = {}

Goes(c, from, to) == pc[c] = from /\ pc' = [pc EXCEPT ![c] = to]

\* Init and ConnectByAnonymous; a client that cannot connect is deleted.
Connect(c) ==
    /\ \/ /\ Goes(c, "connect", "browse")
          /\ client' = [client EXCEPT ![c] = "connected"]
       \/ /\ Goes(c, "connect", "returned")
          /\ client' = [client EXCEPT ![c] = "deleted"]
    /\ UNCHANGED <<value, claimed, written, serverVars>>

\* BrowseObjectsNode and BrowseObjectsNodeByIterator; the results are printed.
Browse(c) ==
    /\ Goes(c, "browse", "subscribe")
    /\ UNCHANGED <<client, value, claimed, written, serverVars>>

\* CreateSubscription: the subscription.
Subscribe(c) ==
    /\ \/ Goes(c, "subscribe", "monitor")
       \/ Goes(c, "subscribe", "returned")
    /\ UNCHANGED <<client, value, claimed, written, serverVars>>

\* CreateSubscription: the monitored item.  Whether the server has created it
\* is logged and no more.
Monitor(c) ==
    /\ Goes(c, "monitor", "publish")
    /\ UNCHANGED <<client, value, claimed, written, serverVars>>

\* CreateSubscription: UA_Client_run_iterate waits a second at most for the
\* first value, and fails only if the connection does.
Publish(c) ==
    /\ \/ Goes(c, "publish", "read")
       \/ lossy /\ Goes(c, "publish", "returned")
    /\ UNCHANGED <<client, value, claimed, written, serverVars>>

\* GetNodeValue; when it fails, value keeps its 0.  Then value++.
Read(c) ==
    /\ Goes(c, "read", "request")
    /\ \/ kind = "int32" /\ value' = [value EXCEPT ![c] = Incremented(answer)]
       \/ (kind = "none" \/ lossy) /\ value' = [value EXCEPT ![c] = Incremented(0)]
    /\ UNCHANGED <<client, claimed, written, serverVars>>

\* The server does a write or, without the node, refuses it; or the request
\* is lost.
Done(c) == kind = "int32" /\ answer' = value[c]
Refused == kind = "none" /\ UNCHANGED answer
LostOut == lossy /\ UNCHANGED answer

\* The result of the service is good if the server has served the request and
\* the reply is not lost.
Results(served) == {served} \union (IF lossy THEN {FALSE} ELSE {})

\* SetNodeValueByRequest looks at the result of the service, not at that of
\* the one node it wrote, and returns whether it is good; then value++.  But
\* write_storageType is uninitialised: if it happens to be UA_VARIANT_DATA,
\* clearing the request frees the address of value, which is on the stack, and
\* the process aborts.
WriteRequest(c) ==
    /\ \E served \in BOOLEAN :
          /\ \/ served /\ Done(c) /\ written' = written \union {c}
             \/ served /\ Refused /\ UNCHANGED written
             \/ ~served /\ LostOut /\ UNCHANGED written
          /\ \/ /\ Goes(c, "request", "highlevel")
                /\ \E good \in Results(served) :
                      claimed' = IF good THEN claimed \union {c} ELSE claimed
             \/ Goes(c, "request", "aborted") /\ UNCHANGED claimed
    /\ value' = [value EXCEPT ![c] = Incremented(@)]
    /\ UNCHANGED <<client, lossy, kind, start, types, objects>>

\* SetNodeValueByHighlevel.
WriteHighlevel(c) ==
    /\ Goes(c, "highlevel", "call")
    /\ Done(c) \/ Refused \/ LostOut
    /\ UNCHANGED <<client, value, claimed, written,
                   lossy, kind, start, types, objects>>

\* CallRemoteSeverMethod; the outcome is logged.
CallMethod(c) ==
    /\ Goes(c, "call", "reftype")
    /\ UNCHANGED <<client, value, claimed, written, serverVars>>

Added(set, x) == set' = set \union {x} \/ (lossy /\ set' = set)

\* The server refuses an id it has.  Its refusals are logged and ignored.
AddNewReferenceType(c) ==
    /\ Goes(c, "reftype", "objtype")
    /\ Added(types, "NewReference")
    /\ UNCHANGED <<client, value, claimed, written,
                   lossy, kind, answer, start, objects>>

AddNewObjectType(c) ==
    /\ IF "NewObjectType" \in types THEN Goes(c, "objtype", AfterRefusedType(c))
                          ELSE Goes(c, "objtype", "object")
    /\ Added(types, "NewObjectType")
    /\ UNCHANGED <<client, value, claimed, written,
                   lossy, kind, answer, start, objects>>

\* An object needs its type, whichever client has added that.
AddNewObject(c) ==
    /\ Goes(c, "object", "variable")
    /\ \/ "NewObjectType" \in types /\ Added(objects, c)
       \/ "NewObjectType" \notin types /\ UNCHANGED objects
    /\ UNCHANGED <<client, value, claimed, written,
                   lossy, kind, answer, start, types>>

\* The variable gets an id of its own; nothing depends on it.  After that the
\* client sleeps for ever.
AddNewIntegerVariable(c) ==
    /\ Goes(c, "variable", "idle")
    /\ UNCHANGED <<client, value, claimed, written, serverVars>>

Start(c) ==
    \/ Connect(c) \/ Browse(c) \/ Subscribe(c) \/ Monitor(c) \/ Publish(c)
    \/ Read(c) \/ WriteRequest(c) \/ WriteHighlevel(c) \/ CallMethod(c)
    \/ AddNewReferenceType(c) \/ AddNewObjectType(c) \/ AddNewObject(c)
    \/ AddNewIntegerVariable(c)

Next == \E c \in Clients : Start(c)

Spec == Init /\ [][Next]_vars

-----------------------------------------------------------------------------
(* Properties.                                                             *)

TypeOK ==
    /\ pc \in [Clients -> Pcs]
    /\ client \in [Clients -> {"null", "connected", "deleted"}]
    /\ value \in [Clients -> Int32]
    /\ claimed \subseteq Clients /\ written \subseteq Clients
    /\ lossy \in BOOLEAN /\ kind \in {"int32", "none"}
    /\ answer \in Int32 /\ start \in Int32
    /\ types \subseteq {"NewReference", "NewObjectType"} /\ objects \subseteq Clients

\* Clients that have read the answer; those that returned had not.
Before  == {"connect", "browse", "subscribe", "monitor", "publish", "read",
            "returned"}
Reached == {c \in Clients : pc[c] \notin Before}

\* However reads and writes of the clients interleave and whatever is lost,
\* the answer grows by at most two for each client that has read it.
AnswerBounded ==
    answer <= (IF start > 0 THEN start ELSE 0) + 2 * Cardinality(Reached)

\* Updates may be lost, but not all of them: if nothing fails and nothing wraps
\* around, the clients that have come to the end have moved the answer forward
\* by two at least.
AnswerAdvances ==
    /\ ~lossy /\ kind = "int32" /\ \A c \in Clients : pc[c] = "idle"
    /\ start + 2 * Cardinality(Clients) < Half
    => answer \in (start + 2)..(start + 2 * Cardinality(Clients))

\* A client whose object type was refused, because another one has added it,
\* still gets its object.
EveryoneGetsAnObject ==
    ~lossy => \A c \in Clients : pc[c] \in {"variable", "idle"} => c \in objects

\* If the server has the node, SetNodeValueByRequest returns true only for a
\* write that has been done, whatever is lost; without the node it may return
\* true for a write that was refused.
ReportedWritesDone == kind = "int32" => claimed \subseteq written
=============================================================================
