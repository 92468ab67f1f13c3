------------------------------ MODULE ItemPush ------------------------------
(***************************************************************************)
(* What the north thread does with an admitted push: it fills the item map *)
(* from the array of the message (ParseNorthMsgItemVal), then writes the   *)
(* value of each item to the node linked to it                             *)
(* (WriteItemValToOpcUaServerNode), one write after the other.  In between *)
(* the server lets its clients write to the same nodes.                    *)
(*                                                                         *)
(* A text and the number it denotes are written alike: "7" is both.  Other *)
(* texts are "word", which is no number, and "empty", the text without     *)
(* characters.  The text "ns:id" of a node is the node.                    *)
(***************************************************************************)
EXTENDS Naturals

CONSTANTS Items,       \* item names FCS pushes, linked to a node or not
          Nodes,       \* "2:6005" ... "2:6009" in the code
          NodeOf,      \* the configured links: a partial function on Items
          Numbers,     \* doubles, as their decimal texts
          MaxMembers   \* bound: members of a push

Linked == DOMAIN NodeOf
Blank  == "empty"
Texts  == Numbers \union {"word", "empty"}

ASSUME ItemPushAssumption ==
    /\ Linked \subseteq Items
    /\ NodeOf \in [Linked -> Nodes]
    /\ \A i, j \in Linked : NodeOf[i] = NodeOf[j] => i = j
    /\ Blank \notin Nodes
    /\ {"0", "1"} \subseteq Numbers /\ {"word", "empty"} \cap Numbers = {}
    /\ MaxMembers \in Nat

\* Json values by type; an integer and a real behave alike.
Json == [type : {"string"}, val : Texts] \union [type : {"number"}, val : Numbers]
        \union [type : {"bool"}, val : {"true", "false"}]
        \union [type : {"null", "compound"}, val : {"empty"}]

VARIABLES
    alive,    \* no exception has ended the process
    pc,       \* the north thread: "wait", "fill" or "write"
    members,  \* members of the push taken so far
    items,    \* minor_item_data_val_: item name to text
    links,    \* fbox_minor_item_link_server_node_identifier_map_
    types,    \* server_node_value_type_map_
    todo,     \* items the loop over minor_item_data_val_ has yet to visit
    node,     \* the values of the nodes in the address space
    loaded    \* the nodes that testNS has created in the address space

mapVars == <<links, types>>
vars == <<alive, pc, members, items, links, types, todo, node, loaded>>

EmptyMap == [k \in {} |-> Blank]

(* Slips a change to this code could make, next to what they would replace.*)
KeepsOldItems     == items
AsStringOfBool(j) == IF j.type = "null" THEN "0" ELSE j.val

\* A std::map is cleared; an item is assigned; operator[] of a key that is not
\* there yet yields the empty text and leaves it in the map.
Cleared          == EmptyMap
Assigned(map, k, v) == [x \in DOMAIN map \union {k} |->
                            IF x = k THEN v ELSE map[x]]
Lookup(map, k)   == IF k \in DOMAIN map THEN map[k] ELSE Blank
ClearsEntry(map, k) == Assigned(map, k, Blank)
Touched(map, k)  == Assigned(map, k, Lookup(map, k))

\* The text an item's value becomes in minor_item_data_val_.
AsText(j) == CASE j.type \in {"string", "number"} -> j.val
               [] j.type = "bool" -> IF j.val = "true" THEN "1" ELSE "0"
               [] j.type = "null" -> "0"

\* StringToNum<UA_Double>: reading an empty text leaves num as it was, that is
\* uninitialised; reading a text that is no number makes it 0.
StringToNum(text) == CASE text \in Numbers -> {text}
                       [] text = "word" -> {"0"}
                       [] text = "empty" -> Numbers

\* The node that splitting "ns:id" at its colon and reading both numbers
\* yields: with nothing to split both stay uninitialised, any node at all.
Denotes(text) == IF text = Blank THEN Nodes ELSE {text}

NotAdvanced(i) == todo

\* Items left for the loop after it has visited i.
Remaining(i) == todo \ {i}

Init ==
    /\ alive = TRUE /\ pc = "wait" /\ members = 0
    /\ items = EmptyMap /\ todo = {}
    /\ links = NodeOf
    /\ types = [n \in Nodes |-> "Double"]
    /\ node \in [Nodes -> Numbers] /\ loaded \in SUBSET Nodes

Step(from, to) == alive /\ pc = from /\ pc' = to

\* ParseNorthMsg admits a push; minor_item_data_val_ is cleared.
TakePush ==
    /\ Step("wait", "fill")
    /\ members' = 0
    /\ items' = Cleared
    /\ UNCHANGED <<alive, mapVars, todo, node, loaded>>

\* One member of an object of the array.
FillMember(i, j) ==
    /\ Step("fill", "fill") /\ members < MaxMembers /\ j.type # "compound"
    /\ members' = members + 1
    /\ items' = Assigned(items, i, AsText(j))
    /\ UNCHANGED <<alive, mapVars, todo, node, loaded>>

\* asString of an object or an array throws, and nothing catches it.
FillThrows(j) ==
    /\ alive /\ pc = "fill" /\ members < MaxMembers /\ j.type = "compound"
    /\ alive' = FALSE
    /\ UNCHANGED <<pc, members, items, mapVars, todo, node, loaded>>

FillDone ==
    /\ Step("fill", "write")
    /\ todo' = DOMAIN items
    /\ UNCHANGED <<alive, members, items, mapVars, node, loaded>>

\* WriteVariableValue: the server refuses a node that it does not have.
WriteVariableValue(n, v) ==
    node' = IF n \in loaded THEN [node EXCEPT ![n] = v] ELSE node

\* One turn of the loop over minor_item_data_val_.  Only a node whose type is
\* "Double" is split off its text and written.
WriteItem(i) ==
    /\ Step("write", "write") /\ i \in todo
    /\ LET id == Lookup(links, i) IN
         /\ links' = Touched(links, i)
         /\ types' = Touched(types, id)
         /\ \/ /\ Lookup(types, id) = "Double"
               /\ \E n \in Denotes(id), v \in StringToNum(items[i]) :
                      WriteVariableValue(n, v)
            \/ Lookup(types, id) # "Double" /\ UNCHANGED node
    /\ todo' = Remaining(i)
    /\ UNCHANGED <<alive, members, items, loaded>>

WriteDone ==
    /\ Step("write", "wait") /\ todo = {}
    /\ UNCHANGED <<alive, members, items, mapVars, todo, node, loaded>>

North ==
    \/ TakePush \/ FillDone \/ WriteDone
    \/ \E i \in Items, j \in Json : FillMember(i, j)
    \/ \E j \in Json : FillThrows(j)
    \/ \E i \in todo : WriteItem(i)

\* A client writes to a node, all of which have access level 3.
ClientWrite(n, v) ==
    /\ alive /\ n \in loaded
    /\ node' = [node EXCEPT ![n] = v]
    /\ UNCHANGED <<alive, pc, members, items, mapVars, todo, loaded>>

Client == \E n \in Nodes, v \in Numbers : ClientWrite(n, v)

Next == North \/ Client

Spec == Init /\ [][Next]_vars

\* The north thread runs.
FairSpec == Spec /\ WF_vars(FillDone \/ WriteDone \/ \E i \in todo : WriteItem(i))

-----------------------------------------------------------------------------
(* Properties.                                                             *)

PartialMaps(K, V) == UNION {[D -> V] : D \in SUBSET K}

TypeOK ==
    /\ alive \in BOOLEAN /\ pc \in {"wait", "fill", "write"}
    /\ members \in 0..MaxMembers
    /\ items \in PartialMaps(Items, Texts)
    /\ links \in PartialMaps(Items, Nodes \union {Blank})
    /\ types \in PartialMaps(Nodes \union {Blank}, {"Double", Blank})
    /\ todo \in SUBSET Items
    /\ node \in [Nodes -> Numbers] /\ loaded \in SUBSET Nodes

\* operator[] on the link and type maps adds blank entries for items nobody
\* configured, but never changes or hides a configured link or type.
ConfigKept ==
    /\ Linked \subseteq DOMAIN links /\ Nodes \subseteq DOMAIN types
    /\ \A i \in DOMAIN links : links[i] = IF i \in Linked THEN NodeOf[i] ELSE Blank
    /\ \A n \in DOMAIN types : types[n] = IF n \in Nodes THEN "Double" ELSE Blank

\* Items of the current push whose write is due.
Awaiting == IF pc = "fill" THEN DOMAIN items ELSE todo

Due == [n \in Nodes |-> {v \in Numbers : \E i \in Awaiting \cap Linked :
                            NodeOf[i] = n /\ v \in StringToNum(items[i])}]

\* The gateway implements module ItemMirror: each pushed value of a linked
\* item is written once, with a value it stands for, and no other node changes.
M == INSTANCE ItemMirror WITH due <- Due
RefinesMirror == M!Spec

\* The value a push gives an item is written to the item's node in the end,
\* whatever the clients do in between.
DueIsWritten == \A n \in Nodes : Due[n] # {} /\ pc = "write" ~> Due[n] = {}

\* What is to be written is determined by the push ("Write the val to the
\* server node.").
DueIsDefinite == \A n \in Nodes : \A v, w \in Due[n] : v = w
=============================================================================
