--------------------------- MODULE ItemPushProofs ---------------------------
(***************************************************************************)
(* What ItemPush promises, for every configuration of links, every part of *)
(* the nodes being loaded, and pushes of every length.                     *)
(***************************************************************************)
EXTENDS ItemPush, TLAPS

\* The loop visits items of the map, and only while it runs are any left (or
\* when the process has ended in it).
LoopOrder ==
    /\ todo \subseteq DOMAIN items
    /\ alive /\ pc # "write" => todo = {}

IInv == TypeOK /\ ConfigKept /\ LoopOrder

-----------------------------------------------------------------------------
(* Maps.                                                                   *)

\* A member of PartialMaps is a function on some of the keys, and conversely.
LEMMA PartialMapsDef ==
    ASSUME NEW K, NEW V, NEW m
    PROVE  m \in PartialMaps(K, V)
             <=> \E D \in SUBSET K : m \in [D -> V]
BY DEF PartialMaps

LEMMA PartialMapsUse ==
    ASSUME NEW K, NEW V, NEW m \in PartialMaps(K, V)
    PROVE  /\ DOMAIN m \subseteq K
           /\ m = [x \in DOMAIN m |-> m[x]]
           /\ \A x \in DOMAIN m : m[x] \in V
BY PartialMapsDef

\* Assigning a key keeps a map a map, and changes that key only.
LEMMA AssignedMap ==
    ASSUME NEW K, NEW V, NEW m \in PartialMaps(K, V), NEW k \in K, NEW v \in V
    PROVE  /\ Assigned(m, k, v) \in PartialMaps(K, V)
           /\ DOMAIN Assigned(m, k, v) = DOMAIN m \union {k}
           /\ Assigned(m, k, v)[k] = v
           /\ \A x \in DOMAIN m : x # k => Assigned(m, k, v)[x] = m[x]
<1>. DEFINE D == DOMAIN m \union {k}
<1>1. D \in SUBSET K /\ \A x \in DOMAIN m : m[x] \in V
  BY PartialMapsUse
<1>2. Assigned(m, k, v) \in [D -> V]
  BY <1>1 DEF Assigned
<1>3. Assigned(m, k, v) \in PartialMaps(K, V)
  BY <1>1, <1>2, PartialMapsDef
<1>. QED
  BY <1>3 DEF Assigned

\* operator[] leaves every entry as it is.
LEMMA TouchedMap ==
    ASSUME NEW K, NEW V, NEW m \in PartialMaps(K, V), NEW k \in K, Blank \in V
    PROVE  /\ Lookup(m, k) \in V
           /\ Touched(m, k) \in PartialMaps(K, V)
           /\ DOMAIN Touched(m, k) = DOMAIN m \union {k}
           /\ Touched(m, k)[k] = Lookup(m, k)
           /\ \A x \in DOMAIN m : Touched(m, k)[x] = m[x]
<1>1. Lookup(m, k) \in V
  BY PartialMapsUse DEF Lookup
<1>2. k \in DOMAIN m => Lookup(m, k) = m[k]
  BY DEF Lookup
<1>3. /\ Touched(m, k) \in PartialMaps(K, V)
      /\ DOMAIN Touched(m, k) = DOMAIN m \union {k}
      /\ Touched(m, k)[k] = Lookup(m, k)
      /\ \A x \in DOMAIN m : x # k => Touched(m, k)[x] = m[x]
  <2>1. /\ DOMAIN m \union {k} \in SUBSET K
        /\ Touched(m, k) \in [DOMAIN m \union {k} -> V]
    BY <1>1, PartialMapsUse DEF Touched, Assigned
  <2>2. Touched(m, k) \in PartialMaps(K, V)
    BY <2>1, PartialMapsDef
  <2>. QED
    BY <2>2 DEF Touched, Assigned
<1>4. \A x \in DOMAIN m : Touched(m, k)[x] = m[x]
  BY <1>2, <1>3
<1>. QED
  BY <1>1, <1>3, <1>4

\* The empty map.
LEMMA EmptyMapFacts ==
    ASSUME NEW K, NEW V
    PROVE  EmptyMap \in PartialMaps(K, V) /\ DOMAIN EmptyMap = {}
<1>1. {} \in SUBSET K /\ EmptyMap \in [{} -> V]
  BY DEF EmptyMap
<1>2. EmptyMap \in PartialMaps(K, V)
  BY <1>1, PartialMapsDef
<1>. QED
  BY <1>2 DEF EmptyMap

\* A total function on the keys is a map.
LEMMA TotalMap ==
    ASSUME NEW K, NEW V, NEW D \in SUBSET K, NEW m \in [D -> V]
    PROVE  m \in PartialMaps(K, V)
BY PartialMapsDef

\* Reading a text yields one of the numbers, and some number it can yield.
LEMMA StringToNumType ==
    ASSUME NEW t \in Texts
    PROVE  StringToNum(t) \in (SUBSET Numbers) \ {{}}
BY ItemPushAssumption DEF Texts, StringToNum

\* Every value but a compound one becomes a text.
LEMMA AsTextType ==
    ASSUME NEW j \in Json, j.type # "compound"
    PROVE  AsText(j) \in Texts
<1>1. CASE j \in [type : {"string"}, val : Texts] \union [type : {"number"}, val : Numbers]
  BY <1>1 DEF AsText, Texts
<1>2. CASE j \in [type : {"bool"}, val : {"true", "false"}]
               \union [type : {"null", "compound"}, val : {"empty"}]
  <2>1. j.type = "bool" \/ j.type = "null"
    BY <1>2
  <2>. QED
    BY <2>1, ItemPushAssumption DEF AsText, Texts
<1>. QED
  BY <1>1, <1>2 DEF Json

-----------------------------------------------------------------------------
(* The invariant is inductive.                                             *)

LEMMA InitIInv == Init => IInv
<1>. SUFFICES ASSUME Init PROVE IInv
  OBVIOUS
<1>1. items \in PartialMaps(Items, Texts) /\ DOMAIN items = {}
  BY EmptyMapFacts DEF Init
<1>2. links \in PartialMaps(Items, Nodes \union {Blank})
  <2>1. NodeOf \in [Linked -> Nodes \union {Blank}] /\ Linked \in SUBSET Items
    BY ItemPushAssumption
  <2>. QED
    BY <2>1, TotalMap DEF Init
<1>3. types \in [Nodes -> {"Double", Blank}]
  BY DEF Init
<1>4. types \in PartialMaps(Nodes \union {Blank}, {"Double", Blank})
  BY <1>3, TotalMap
<1>5. node \in [Nodes -> Numbers] /\ loaded \in SUBSET Nodes /\ members \in 0..MaxMembers
  BY ItemPushAssumption DEF Init
<1>6. TypeOK
  BY <1>1, <1>2, <1>4, <1>5 DEF Init, TypeOK
<1>7. ConfigKept
  BY ItemPushAssumption DEF Init, ConfigKept, Linked
<1>8. LoopOrder
  BY DEF Init, LoopOrder
<1>. QED
  BY <1>6, <1>7, <1>8 DEF IInv

LEMMA FillIInv ==
    ASSUME IInv, NEW i \in Items, NEW j \in Json, FillMember(i, j)
    PROVE  IInv'
<1>. USE DEF FillMember, Step, mapVars, IInv
<1>1. /\ items' \in PartialMaps(Items, Texts)
      /\ DOMAIN items' = DOMAIN items \union {i}
  BY AsTextType, AssignedMap DEF TypeOK
<1>2. TypeOK'
  BY <1>1, ItemPushAssumption DEF TypeOK
<1>3. ConfigKept' /\ LoopOrder'
  BY <1>1 DEF ConfigKept, LoopOrder
<1>. QED
  BY <1>2, <1>3

LEMMA WriteIInv ==
    ASSUME IInv, NEW i \in todo, WriteItem(i)
    PROVE  IInv'
<1>. DEFINE id == Lookup(links, i)
<1>. USE DEF IInv
<1>1. i \in Items /\ i \in DOMAIN items
  BY DEF TypeOK, LoopOrder
<1>2. /\ id \in Nodes \union {Blank}
      /\ links' \in PartialMaps(Items, Nodes \union {Blank})
      /\ DOMAIN links' = DOMAIN links \union {i}
      /\ links'[i] = id
      /\ \A x \in DOMAIN links : links'[x] = links[x]
  <2>1. links' = Touched(links, i)
    BY DEF WriteItem
  <2>2. links \in PartialMaps(Items, Nodes \union {Blank})
    BY DEF TypeOK
  <2>. QED
    BY <1>1, <2>1, <2>2, TouchedMap
<1>3. /\ types' \in PartialMaps(Nodes \union {Blank}, {"Double", Blank})
      /\ DOMAIN types' = DOMAIN types \union {id}
      /\ types'[id] = Lookup(types, id)
      /\ \A x \in DOMAIN types : types'[x] = types[x]
  <2>1. types' = Touched(types, id)
    BY DEF WriteItem
  <2>2. types \in PartialMaps(Nodes \union {Blank}, {"Double", Blank})
    BY DEF TypeOK
  <2>. HIDE DEF id
  <2>. QED
    BY <1>2, <2>1, <2>2, TouchedMap
<1>4. node' \in [Nodes -> Numbers]
  <2>1. StringToNum(items[i]) \subseteq Numbers
    BY <1>1, PartialMapsUse, StringToNumType DEF TypeOK
  <2>. QED
    BY <2>1 DEF WriteItem, WriteVariableValue, TypeOK
<1>5. TypeOK'
  BY <1>2, <1>3, <1>4 DEF TypeOK, WriteItem, Step, Remaining
<1>6. ConfigKept'
  <2>1. Linked \subseteq DOMAIN links' /\ Nodes \subseteq DOMAIN types'
    BY <1>2, <1>3 DEF ConfigKept
  <2>2. ASSUME NEW x \in DOMAIN links'
        PROVE  links'[x] = IF x \in Linked THEN NodeOf[x] ELSE Blank
    BY <1>2 DEF ConfigKept, Lookup
  <2>3. ASSUME NEW n \in DOMAIN types'
        PROVE  types'[n] = IF n \in Nodes THEN "Double" ELSE Blank
    BY <1>3 DEF ConfigKept, Lookup
  <2>. QED
    BY <2>1, <2>2, <2>3 DEF ConfigKept
<1>7. LoopOrder'
  BY DEF LoopOrder, WriteItem, Step, Remaining
<1>. QED
  BY <1>5, <1>6, <1>7

LEMMA StepIInv == IInv /\ [Next]_vars => IInv'
<1>. SUFFICES ASSUME IInv, [Next]_vars PROVE IInv'
  OBVIOUS
<1>. USE DEF IInv
<1>1. CASE TakePush
  <2>1. items' \in PartialMaps(Items, Texts) /\ DOMAIN items' = {}
    BY <1>1, EmptyMapFacts DEF TakePush, Cleared
  <2>2. TypeOK'
    BY <1>1, <2>1, ItemPushAssumption DEF TakePush, Step, mapVars, TypeOK
  <2>3. ConfigKept' /\ LoopOrder'
    BY <1>1 DEF TakePush, Step, mapVars, ConfigKept, LoopOrder
  <2>. QED
    BY <2>2, <2>3
<1>2. ASSUME NEW i \in Items, NEW j \in Json, FillMember(i, j)
      PROVE  IInv'
  BY <1>2, FillIInv
<1>3. ASSUME NEW j \in Json, FillThrows(j)
      PROVE  IInv'
  BY <1>3 DEF FillThrows, mapVars, TypeOK, ConfigKept, LoopOrder
<1>4. CASE FillDone
  <2>1. DOMAIN items \subseteq Items
    BY PartialMapsUse DEF TypeOK
  <2>. QED
    BY <1>4, <2>1 DEF FillDone, Step, mapVars, TypeOK, ConfigKept, LoopOrder
<1>5. ASSUME NEW i \in todo, WriteItem(i)
      PROVE  IInv'
  BY <1>5, WriteIInv
<1>6. CASE WriteDone
  BY <1>6 DEF WriteDone, Step, mapVars, TypeOK, ConfigKept, LoopOrder
<1>7. ASSUME NEW n \in Nodes, NEW v \in Numbers, ClientWrite(n, v)
      PROVE  IInv'
  BY <1>7 DEF ClientWrite, mapVars, TypeOK, ConfigKept, LoopOrder
<1>8. CASE UNCHANGED vars
  BY <1>8 DEF vars, mapVars, TypeOK, ConfigKept, LoopOrder
<1>. QED
  BY <1>1, <1>2, <1>3, <1>4, <1>5, <1>6, <1>7, <1>8 DEF Next, North, Client

\* The strengthened invariant holds of every reachable state.
THEOREM Invariance == Spec => []IInv
<1>. QED
  BY InitIInv, StepIInv, PTL DEF Spec

\* The maps stay maps from items to texts, from items to nodes and from nodes
\* to types, whatever FCS pushes.
THEOREM TypeCorrect == Spec => []TypeOK
<1>1. IInv => TypeOK
  BY DEF IInv
<1>. QED
  BY <1>1, Invariance, PTL

\* No configured link or type is ever changed or hidden by the blank entries
\* that operator[] adds for items nobody configured.
THEOREM ConfigIsKept == Spec => []ConfigKept
<1>1. IInv => ConfigKept
  BY DEF IInv
<1>. QED
  BY <1>1, Invariance, PTL

-----------------------------------------------------------------------------
(* Refinement.                                                             *)

\* What is due to a node: nothing unless the item linked to it is awaited.
LEMMA DueOfLinked ==
    ASSUME NEW i \in Linked, IInv
    PROVE  /\ NodeOf[i] \in Nodes
           /\ i \in Awaiting => Due[NodeOf[i]] = StringToNum(items[i])
           /\ i \notin Awaiting => Due[NodeOf[i]] = {}
<1>1. NodeOf[i] \in Nodes /\ \A k \in Linked : NodeOf[k] = NodeOf[i] => k = i
  BY ItemPushAssumption
<1>2. CASE i \in Awaiting
  <2>1. i \in DOMAIN items
    BY <1>2 DEF Awaiting, IInv, LoopOrder
  <2>2. StringToNum(items[i]) \subseteq Numbers
    BY <2>1, PartialMapsUse, StringToNumType DEF IInv, TypeOK
  <2>. QED
    BY <1>1, <1>2, <2>2 DEF Due
<1>3. CASE i \notin Awaiting
  BY <1>1, <1>3 DEF Due
<1>. QED
  BY <1>1, <1>2, <1>3

\* The abstract state depends on the items awaited and their texts only.
LEMMA DueUnchanged ==
    ASSUME Awaiting' \cap Linked = Awaiting \cap Linked,
           \A k \in Awaiting \cap Linked : items'[k] = items[k]
    PROVE  Due' = Due
BY DEF Due, StringToNum

\* A step that disturbs the entry of one linked item disturbs one node's.
LEMMA DueExcept ==
    ASSUME NEW i \in Linked, NEW S, IInv,
           \A k \in Linked \ {i} : (k \in Awaiting' <=> k \in Awaiting),
           \A k \in (Awaiting \cap Linked) \ {i} : items'[k] = items[k],
           Due'[NodeOf[i]] = S
    PROVE  Due' = [Due EXCEPT ![NodeOf[i]] = S]
<1>. DEFINE Rhs == [Due EXCEPT ![NodeOf[i]] = S]
<1>1. NodeOf[i] \in Nodes /\ \A k \in Linked : NodeOf[k] = NodeOf[i] => k = i
  BY ItemPushAssumption
<1>2. ASSUME NEW n \in Nodes, n # NodeOf[i]
      PROVE  Due'[n] = Due[n]
  BY <1>2 DEF Due, StringToNum
<1>3. Due' = [n \in Nodes |-> Due'[n]] /\ Rhs = [n \in Nodes |-> Rhs[n]]
  BY DEF Due
<1>4. \A n \in Nodes : Due'[n] = Rhs[n]
  BY <1>1, <1>2 DEF Due
<1>. QED
  BY <1>3, <1>4

\* Taking a member of a push makes a write due, or none if nothing is linked.
LEMMA FillRefines ==
    ASSUME IInv, IInv', NEW i \in Items, NEW j \in Json, FillMember(i, j)
    PROVE  [M!Next]_(M!mirrorVars)
<1>1. /\ pc = "fill" /\ pc' = "fill" /\ node' = node /\ loaded' = loaded
      /\ items' = Assigned(items, i, AsText(j)) /\ AsText(j) \in Texts
  BY AsTextType DEF FillMember, Step
<1>2. /\ DOMAIN items' = DOMAIN items \union {i} /\ items'[i] = AsText(j)
      /\ \A k \in DOMAIN items : k # i => items'[k] = items[k]
  BY <1>1 DEF Assigned
<1>3. Awaiting = DOMAIN items /\ Awaiting' = DOMAIN items'
  BY <1>1 DEF Awaiting
<1>4. CASE i \in Linked
  <2>. DEFINE vals == StringToNum(AsText(j))
  <2>1. vals \in (SUBSET Numbers) \ {{}}
    BY <1>1, StringToNumType
  <2>2. NodeOf[i] \in Nodes
    BY <1>4, ItemPushAssumption
  <2>3. Due'[NodeOf[i]] = vals
    <3>1. \A k \in Linked : NodeOf[k] = NodeOf[i] => k = i
      BY <1>4, ItemPushAssumption
    <3>2. i \in Awaiting'
      BY <1>2, <1>3
    <3>. QED
      BY <1>2, <1>4, <2>1, <2>2, <3>1, <3>2 DEF Due, StringToNum
  <2>4. Due' = [Due EXCEPT ![NodeOf[i]] = vals]
    BY <1>2, <1>3, <1>4, <2>3, DueExcept
  <2>5. M!Learn(NodeOf[i], vals)
    BY <1>1, <2>4 DEF M!Learn
  <2>. QED
    BY <2>1, <2>2, <2>5 DEF M!Next
<1>5. CASE i \notin Linked
  <2>1. Due' = Due
    BY <1>2, <1>3, <1>5, DueUnchanged
  <2>. QED
    BY <1>1, <2>1 DEF M!mirrorVars
<1>. QED
  BY <1>4, <1>5

\* A turn of the loop does the write that is due to the item's node.
LEMMA WriteRefines ==
    ASSUME IInv, IInv', NEW i \in todo, WriteItem(i)
    PROVE  [M!Next]_(M!mirrorVars)
<1>. DEFINE id == Lookup(links, i)
<1>1. /\ pc = "write" /\ pc' = "write" /\ todo' = todo \ {i} /\ items' = items
      /\ Awaiting = todo /\ Awaiting' = todo \ {i}
  BY DEF WriteItem, Step, Remaining, Awaiting
<1>2. id = (IF i \in Linked THEN NodeOf[i] ELSE Blank)
  BY DEF IInv, ConfigKept, Lookup
<1>3. CASE i \in Linked
  <2>1. id = NodeOf[i] /\ id \in Nodes
    BY <1>2, <1>3, ItemPushAssumption
  <2>2. Lookup(types, id) = "Double"
    BY <2>1 DEF IInv, ConfigKept, Lookup
  <2>3. Due[id] = StringToNum(items[i])
    BY <1>1, <1>3, <2>1, DueOfLinked
  <2>4. Due'[id] = {}
    <3>1. \A k \in Linked : NodeOf[k] = id => k = i
      BY <1>3, <2>1, ItemPushAssumption
    <3>. QED
      BY <1>1, <2>1, <3>1 DEF Due
  <2>5. Due' = [Due EXCEPT ![id] = {}]
    BY <1>1, <1>3, <2>1, <2>4, DueExcept
  <2>6. M!Write(id)
    <3>1. Denotes(id) = {id}
      BY <2>1, ItemPushAssumption DEF Denotes
    <3>2. PICK v \in StringToNum(items[i]) : WriteVariableValue(id, v)
      BY <2>2, <3>1 DEF WriteItem
    <3>3. loaded' = loaded
      BY DEF WriteItem
    <3>4. CASE id \in loaded
      BY <2>3, <2>5, <3>2, <3>3, <3>4 DEF WriteVariableValue, M!Write
    <3>5. CASE id \notin loaded
      BY <2>5, <3>2, <3>3, <3>5 DEF WriteVariableValue, M!Write
    <3>. QED
      BY <3>4, <3>5
  <2>. QED
    BY <2>1, <2>6 DEF M!Next
<1>4. CASE i \notin Linked
  <2>1. Lookup(types, id) # "Double"
    BY <1>2, <1>4, ItemPushAssumption DEF IInv, ConfigKept, Lookup, Blank
  <2>2. node' = node /\ loaded' = loaded
    BY <2>1 DEF WriteItem
  <2>3. Due' = Due
    BY <1>1, <1>4, DueUnchanged
  <2>. QED
    BY <2>2, <2>3 DEF M!mirrorVars
<1>. QED
  BY <1>3, <1>4

LEMMA StepRefines == IInv /\ IInv' /\ [Next]_vars => [M!Next]_(M!mirrorVars)
<1>. SUFFICES ASSUME IInv, IInv', [Next]_vars PROVE [M!Next]_(M!mirrorVars)
  OBVIOUS
<1>1. CASE TakePush
  <2>1. Awaiting = {} /\ Awaiting' = {} /\ node' = node /\ loaded' = loaded
    BY <1>1, EmptyMapFacts DEF TakePush, Step, Cleared, Awaiting, IInv, LoopOrder
  <2>2. Due' = Due
    BY <2>1, DueUnchanged
  <2>. QED
    BY <2>1, <2>2 DEF M!mirrorVars
<1>2. CASE FillDone \/ WriteDone \/ (\E j \in Json : FillThrows(j)) \/ UNCHANGED vars
  <2>1. /\ Awaiting' = Awaiting /\ items' = items
        /\ node' = node /\ loaded' = loaded
    BY <1>2 DEF FillDone, WriteDone, FillThrows, Step, Awaiting, vars, mapVars,
                IInv, LoopOrder
  <2>2. Due' = Due
    BY <2>1, DueUnchanged
  <2>. QED
    BY <2>1, <2>2 DEF M!mirrorVars
<1>3. ASSUME NEW n \in Nodes, NEW v \in Numbers, ClientWrite(n, v)
      PROVE  M!Next
  <2>1. Awaiting' = Awaiting /\ items' = items
    BY <1>3 DEF ClientWrite, Awaiting
  <2>2. Due' = Due
    BY <2>1, DueUnchanged
  <2>3. M!ClientWrite(n, v)
    BY <1>3, <2>2 DEF ClientWrite, M!ClientWrite
  <2>. QED
    BY <2>3 DEF M!Next
<1>. QED
  BY <1>1, <1>2, <1>3, FillRefines, WriteRefines DEF Next, North, Client

\* Filling the item map and writing its values, with what clients write in
\* between, implements module ItemMirror.
THEOREM ImplementsMirror == Spec => RefinesMirror
<1>1. Init /\ IInv => M!Init
  <2>. SUFFICES ASSUME Init, IInv PROVE M!Init
    OBVIOUS
  <2>1. Awaiting = {}
    BY DEF Init, Awaiting
  <2>2. Due = [n \in Nodes |-> {}]
    BY <2>1 DEF Due
  <2>. QED
    BY <2>2 DEF M!Init, M!NothingDue, IInv, TypeOK
<1>. QED
  BY <1>1, InitIInv, StepRefines, Invariance, PTL DEF Spec, M!Spec, RefinesMirror
-----------------------------------------------------------------------------
(* Definite values.                                                        *)

\* The push has given each awaited item a text to read.
NoTextIsEmpty == \A i \in DOMAIN items : items[i] # Blank

\* A text with characters denotes one number.
LEMMA OneNumber ==
    ASSUME NEW t \in Texts, t # Blank
    PROVE  \A v, w \in StringToNum(t) : v = w
<1>1. CASE t \in Numbers
  BY <1>1, ItemPushAssumption DEF StringToNum
<1>2. CASE t = "word"
  BY <1>2, ItemPushAssumption DEF StringToNum
<1>. QED
  BY <1>1, <1>2 DEF Texts, Blank

\* What is written is not determined by the push when it has an item without
\* characters ("Write the val to the server node."), and only then: with every
\* other push, one number at most is due to a node.
THEOREM DefiniteIfNoneEmpty == Spec => [](NoTextIsEmpty => DueIsDefinite)
<1>1. IInv /\ NoTextIsEmpty => DueIsDefinite
  <2>. SUFFICES ASSUME IInv, NoTextIsEmpty,
                       NEW n \in Nodes, NEW v \in Due[n], NEW w \in Due[n]
                PROVE  v = w
    BY DEF DueIsDefinite
  <2>1. PICK i \in Awaiting \cap Linked : NodeOf[i] = n /\ v \in StringToNum(items[i])
    BY DEF Due
  <2>2. PICK k \in Awaiting \cap Linked : NodeOf[k] = n /\ w \in StringToNum(items[k])
    BY DEF Due
  <2>3. k = i
    BY <2>1, <2>2, ItemPushAssumption
  <2>4. i \in DOMAIN items
    BY DEF Awaiting, IInv, LoopOrder
  <2>5. items[i] \in Texts /\ items[i] # Blank
    BY <2>4, PartialMapsUse DEF IInv, TypeOK, NoTextIsEmpty
  <2>. QED
    BY <2>1, <2>2, <2>3, <2>5, OneNumber
<1>. QED
  BY <1>1, Invariance, PTL

=============================================================================
