-------------------------- MODULE OpcUaClientProofs --------------------------
(***************************************************************************)
(* Proofs about the client program, for any number of clients and integers *)
(* of any width: the answer grows by at most two for each client that has  *)
(* read it.  The bound alone is not inductive; that the values the clients *)
(* are about to write keep within it is.  Without losses the answer also   *)
(* moves forward, and every client gets its object.                        *)
(***************************************************************************)
EXTENDS OpcUaClient, FiniteSetTheorems, TLAPS

Base  == IF start > 0 THEN start ELSE 0
Bound == Base + 2 * Cardinality(Reached)

\* A client about to send its first write may send a second one, greater by
\* one; what it has still to write stays within the bound.
PlannedBounded ==
    \A c \in Clients : /\ pc[c] = "request" => value[c] <= Bound - 1
                       /\ pc[c] = "highlevel" => value[c] <= Bound

IInv == TypeOK /\ answer <= Bound /\ PlannedBounded

\* Incrementing stays within Int32, and never adds more than one.
LEMMA IncrementedType ==
    \A v \in Int32 : Incremented(v) \in Int32 /\ Incremented(v) <= v + 1
  BY OpcUaClientAssumption DEF Int32, Incremented

\* The number of clients that have read is a natural number.
LEMMA ReachedType ==
    /\ IsFiniteSet(Reached) /\ Cardinality(Reached) \in Nat
    /\ IsFiniteSet(Reached') /\ Cardinality(Reached') \in Nat
  <1>1. Reached \subseteq Clients /\ Reached' \subseteq Clients
    BY DEF Reached
  <1>2. IsFiniteSet(Reached) /\ IsFiniteSet(Reached')
    BY <1>1, OpcUaClientAssumption, FS_Subset
  <1> QED BY <1>2, FS_CardinalityType

LEMMA BoundType == TypeOK => Bound \in Int /\ Bound >= 0
  <1>1. TypeOK => start \in Int
    BY OpcUaClientAssumption DEF TypeOK, Int32
  <1> QED BY <1>1, ReachedType DEF Bound, Base

\* The initial states satisfy the invariant.
LEMMA InitInv == Init => IInv
  <1> SUFFICES ASSUME Init PROVE IInv
    OBVIOUS
  <1>1. 0 \in Int32
    BY OpcUaClientAssumption DEF Int32
  <1>2. TypeOK
    BY <1>1 DEF Init, TypeOK, Pcs
  <1>3. answer <= Bound
    <2>1. answer \in Int /\ start = answer
      BY OpcUaClientAssumption DEF Init, Int32
    <2> QED BY <2>1, ReachedType DEF Bound, Base
  <1>4. PlannedBounded
    BY DEF Init, PlannedBounded
  <1> QED BY <1>2, <1>3, <1>4 DEF IInv

\* A step of a client that is neither the read nor a write changes neither
\* the answer nor a value, and does not take a client past the read.
LEMMA OtherStepInv ==
    ASSUME IInv, NEW c \in Clients,
           UNCHANGED <<value, answer, start>>,
           TypeOK',
           NEW from \in Pcs, NEW to \in Pcs, Goes(c, from, to),
           to \notin {"request", "highlevel"},
           from \in Before <=> to \in Before
    PROVE  IInv'
  <1>1. /\ TypeOK /\ answer <= Bound /\ PlannedBounded
        /\ pc \in [Clients -> Pcs] /\ pc[c] = from /\ pc' = [pc EXCEPT ![c] = to]
    BY DEF IInv, TypeOK, Goes
  <1>2. Reached' = Reached
    BY <1>1 DEF Reached
  <1>3. Bound' = Bound
    BY <1>2 DEF Bound, Base
  <1>4. PlannedBounded'
    BY <1>1, <1>3 DEF PlannedBounded
  <1> QED BY <1>1, <1>3, <1>4 DEF IInv

\* The read makes room for the two increments that follow it.
LEMMA ReadInv == ASSUME IInv, NEW c \in Clients, Read(c) PROVE IInv'
  <1>1. /\ TypeOK /\ answer <= Bound /\ PlannedBounded
        /\ pc \in [Clients -> Pcs] /\ value \in [Clients -> Int32]
        /\ answer \in Int32 /\ start \in Int32
    BY DEF IInv, TypeOK
  <1>2. /\ pc[c] = "read" /\ pc' = [pc EXCEPT ![c] = "request"]
        /\ UNCHANGED <<client, claimed, written,
                       lossy, kind, answer, start, types, objects>>
    BY DEF Read, Goes, serverVars
  <1>3. PICK v \in {answer, 0} : value' = [value EXCEPT ![c] = Incremented(v)]
    BY DEF Read
  <1>4. v \in Int32 /\ Incremented(v) \in Int32 /\ Incremented(v) <= v + 1
    BY <1>1, OpcUaClientAssumption, IncrementedType DEF Int32
  <1>5. TypeOK'
    BY <1>1, <1>2, <1>3, <1>4 DEF TypeOK, Pcs
  <1>6. Reached' = Reached \union {c} /\ c \notin Reached
    BY <1>1, <1>2 DEF Reached, Before
  <1>7. Cardinality(Reached') = Cardinality(Reached) + 1
    BY <1>6, ReachedType, FS_AddElement
  <1>8. Bound' = Bound + 2 /\ Bound \in Int /\ Bound >= 0
    <2>1. Base' = Base /\ Base \in Int
      BY <1>1, <1>2, OpcUaClientAssumption DEF Base, Int32
    <2> QED BY <1>1, <1>7, <2>1, ReachedType, BoundType DEF Bound
  <1>9. answer' <= Bound'
    BY <1>1, <1>2, <1>8, OpcUaClientAssumption DEF Int32
  <1>10. PlannedBounded'
    <2> SUFFICES ASSUME NEW d \in Clients
                 PROVE  /\ pc'[d] = "request" => value'[d] <= Bound' - 1
                        /\ pc'[d] = "highlevel" => value'[d] <= Bound'
      BY DEF PlannedBounded
    <2>1. CASE d = c
      <3>1. pc'[d] = "request" /\ value'[d] = Incremented(v)
        BY <1>1, <1>2, <1>3, <2>1
      <3>2. v <= Bound /\ v \in Int /\ Incremented(v) \in Int
        BY <1>1, <1>4, <1>8, OpcUaClientAssumption DEF Int32
      <3> QED BY <3>1, <3>2, <1>4, <1>8
    <2>2. CASE d # c
      <3>1. pc'[d] = pc[d] /\ value'[d] = value[d] /\ value[d] \in Int
        BY <1>1, <1>2, <1>3, <2>2, OpcUaClientAssumption DEF Int32
      <3> QED BY <1>1, <3>1, <1>8 DEF PlannedBounded
    <2> QED BY <2>1, <2>2
  <1> QED BY <1>5, <1>9, <1>10 DEF IInv

\* A write writes what was planned; the first one plans the second.
LEMMA WriteRequestInv == ASSUME IInv, NEW c \in Clients, WriteRequest(c) PROVE IInv'
  <1>1. /\ TypeOK /\ answer <= Bound /\ PlannedBounded
        /\ pc \in [Clients -> Pcs] /\ value \in [Clients -> Int32]
        /\ answer \in Int32 /\ start \in Int32
    BY DEF IInv, TypeOK
  <1>2. PICK to \in {"highlevel", "aborted"} :
            pc[c] = "request" /\ pc' = [pc EXCEPT ![c] = to]
    BY DEF WriteRequest, Goes
  <1>3. /\ answer' \in {answer, value[c]}
        /\ value' = [value EXCEPT ![c] = Incremented(value[c])]
        /\ UNCHANGED <<client, lossy, kind, start, types, objects>>
    BY DEF WriteRequest, Done, Refused, LostOut
  <1>4. written' \subseteq Clients /\ claimed' \subseteq Clients
    BY <1>1 DEF WriteRequest, TypeOK
  <1>5. value[c] \in Int32 /\ Incremented(value[c]) \in Int32
        /\ Incremented(value[c]) <= value[c] + 1
    BY <1>1, IncrementedType
  <1>6. TypeOK'
    BY <1>1, <1>2, <1>3, <1>4, <1>5 DEF TypeOK, Pcs
  <1>7. Reached' = Reached
    BY <1>1, <1>2 DEF Reached, Before
  <1>8. Bound' = Bound /\ Bound \in Int
    BY <1>1, <1>3, <1>7, BoundType DEF Bound, Base
  <1>9. value[c] <= Bound - 1 /\ value[c] \in Int /\ Incremented(value[c]) \in Int
    BY <1>1, <1>2, <1>5, OpcUaClientAssumption DEF PlannedBounded, Int32
  <1>10. answer' <= Bound'
    BY <1>1, <1>3, <1>8, <1>9
  <1>11. PlannedBounded'
    <2> SUFFICES ASSUME NEW d \in Clients
                 PROVE  /\ pc'[d] = "request" => value'[d] <= Bound' - 1
                        /\ pc'[d] = "highlevel" => value'[d] <= Bound'
      BY DEF PlannedBounded
    <2>1. CASE d = c
      <3>1. pc'[d] # "request" /\ value'[d] = Incremented(value[c])
        BY <1>1, <1>2, <1>3, <2>1
      <3> QED BY <3>1, <1>5, <1>8, <1>9
    <2>2. CASE d # c
      <3>1. pc'[d] = pc[d] /\ value'[d] = value[d]
        BY <1>1, <1>2, <1>3, <2>2
      <3> QED BY <1>1, <3>1, <1>8 DEF PlannedBounded
    <2> QED BY <2>1, <2>2
  <1> QED BY <1>6, <1>10, <1>11 DEF IInv

LEMMA WriteHighlevelInv ==
    ASSUME IInv, NEW c \in Clients, WriteHighlevel(c) PROVE IInv'
  <1>1. /\ TypeOK /\ answer <= Bound /\ PlannedBounded
        /\ pc \in [Clients -> Pcs] /\ value \in [Clients -> Int32]
        /\ answer \in Int32 /\ start \in Int32
    BY DEF IInv, TypeOK
  <1>2. /\ pc[c] = "highlevel" /\ pc' = [pc EXCEPT ![c] = "call"]
        /\ answer' \in {answer, value[c]}
        /\ UNCHANGED <<client, value, claimed, written,
                       lossy, kind, start, types, objects>>
    BY DEF WriteHighlevel, Goes, Done, Refused, LostOut
  <1>3. TypeOK'
    BY <1>1, <1>2 DEF TypeOK, Pcs
  <1>4. Reached' = Reached
    BY <1>1, <1>2 DEF Reached, Before
  <1>5. Bound' = Bound
    BY <1>2, <1>4 DEF Bound, Base
  <1>6. answer' <= Bound'
    BY <1>1, <1>2, <1>5 DEF PlannedBounded
  <1>7. PlannedBounded'
    BY <1>1, <1>2, <1>5 DEF PlannedBounded
  <1> QED BY <1>3, <1>6, <1>7 DEF IInv

\* The steps before the read and those after the writes.
LEMMA RestInv ==
    ASSUME IInv, NEW c \in Clients,
           \/ Connect(c) \/ Browse(c) \/ Subscribe(c) \/ Monitor(c) \/ Publish(c)
           \/ CallMethod(c) \/ AddNewReferenceType(c) \/ AddNewObjectType(c)
           \/ AddNewObject(c) \/ AddNewIntegerVariable(c)
    PROVE  IInv'
  <1>1. TypeOK /\ pc \in [Clients -> Pcs]
    BY DEF IInv, TypeOK
  <1>2. CASE Connect(c)
    <2>1. UNCHANGED <<value, answer, start>>
      BY <1>2 DEF Connect, serverVars
    <2>2. TypeOK'
      BY <1>1, <1>2 DEF TypeOK, Connect, Goes, Pcs, serverVars
    <2>3. \/ Goes(c, "connect", "browse")
          \/ Goes(c, "connect", "returned")
      BY <1>2 DEF Connect
    <2> QED BY <2>1, <2>2, <2>3, OtherStepInv DEF Pcs, Before
  <1>3. CASE Browse(c)
    <2>1. UNCHANGED <<value, answer, start>>
      BY <1>3 DEF Browse, serverVars
    <2>2. TypeOK'
      BY <1>1, <1>3 DEF TypeOK, Browse, Goes, Pcs, serverVars
    <2>3. Goes(c, "browse", "subscribe")
      BY <1>3 DEF Browse
    <2> QED BY <2>1, <2>2, <2>3, OtherStepInv DEF Pcs, Before
  <1>4. CASE Subscribe(c)
    <2>1. UNCHANGED <<value, answer, start>>
      BY <1>4 DEF Subscribe, serverVars
    <2>2. TypeOK'
      BY <1>1, <1>4 DEF TypeOK, Subscribe, Goes, Pcs, serverVars
    <2>3. \/ Goes(c, "subscribe", "monitor")
          \/ Goes(c, "subscribe", "returned")
      BY <1>4 DEF Subscribe
    <2> QED BY <2>1, <2>2, <2>3, OtherStepInv DEF Pcs, Before
  <1>5. CASE Monitor(c)
    <2>1. UNCHANGED <<value, answer, start>>
      BY <1>5 DEF Monitor, serverVars
    <2>2. TypeOK'
      BY <1>1, <1>5 DEF TypeOK, Monitor, Goes, Pcs, serverVars
    <2>3. Goes(c, "monitor", "publish")
      BY <1>5 DEF Monitor
    <2> QED BY <2>1, <2>2, <2>3, OtherStepInv DEF Pcs, Before
  <1>6. CASE Publish(c)
    <2>1. UNCHANGED <<value, answer, start>>
      BY <1>6 DEF Publish, serverVars
    <2>2. TypeOK'
      BY <1>1, <1>6 DEF TypeOK, Publish, Goes, Pcs, serverVars
    <2>3. \/ Goes(c, "publish", "read")
          \/ Goes(c, "publish", "returned")
      BY <1>6 DEF Publish
    <2> QED BY <2>1, <2>2, <2>3, OtherStepInv DEF Pcs, Before
  <1>7. CASE CallMethod(c)
    <2>1. UNCHANGED <<value, answer, start>>
      BY <1>7 DEF CallMethod, serverVars
    <2>2. TypeOK'
      BY <1>1, <1>7 DEF TypeOK, CallMethod, Goes, Pcs, serverVars
    <2>3. Goes(c, "call", "reftype")
      BY <1>7 DEF CallMethod
    <2> QED BY <2>1, <2>2, <2>3, OtherStepInv DEF Pcs, Before
  <1>8. CASE AddNewReferenceType(c)
    <2>1. UNCHANGED <<value, answer, start>>
      BY <1>8 DEF AddNewReferenceType, serverVars
    <2>2. TypeOK'
      <3>1. types' = types \union {"NewReference"} \/ types' = types
        BY <1>8 DEF AddNewReferenceType, Added
      <3>2. types \subseteq {"NewReference", "NewObjectType"}
        BY <1>1 DEF TypeOK
      <3>3. types' \subseteq {"NewReference", "NewObjectType"}
        BY <3>1, <3>2
      <3>4. pc' \in [Clients -> Pcs]
        BY <1>1, <1>8 DEF AddNewReferenceType, Goes, Pcs
      <3>5. UNCHANGED <<client, value, claimed, written,
                        lossy, kind, answer, start, objects>>
        BY <1>8 DEF AddNewReferenceType
      <3> QED BY <1>1, <3>3, <3>4, <3>5 DEF TypeOK
    <2>3. Goes(c, "reftype", "objtype")
      BY <1>8 DEF AddNewReferenceType, Added
    <2> QED BY <2>1, <2>2, <2>3, OtherStepInv DEF Pcs, Before
  <1>9. CASE AddNewObjectType(c)
    <2>1. UNCHANGED <<value, answer, start>>
      BY <1>9 DEF AddNewObjectType, serverVars
    <2>2. TypeOK'
      <3>1. types' = types \union {"NewObjectType"} \/ types' = types
        BY <1>9 DEF AddNewObjectType, Added
      <3>2. types \subseteq {"NewReference", "NewObjectType"}
        BY <1>1 DEF TypeOK
      <3>3. types' \subseteq {"NewReference", "NewObjectType"}
        BY <3>1, <3>2
      <3>4. pc' \in [Clients -> Pcs]
        BY <1>1, <1>9 DEF AddNewObjectType, Goes, Pcs, AfterRefusedType
      <3>5. UNCHANGED <<client, value, claimed, written,
                        lossy, kind, answer, start, objects>>
        BY <1>9 DEF AddNewObjectType
      <3> QED BY <1>1, <3>3, <3>4, <3>5 DEF TypeOK
    <2>3. Goes(c, "objtype", "object")
      BY <1>9 DEF AddNewObjectType, Added, AfterRefusedType
    <2> QED BY <2>1, <2>2, <2>3, OtherStepInv DEF Pcs, Before
  <1>10. CASE AddNewObject(c)
    <2>1. UNCHANGED <<value, answer, start>>
      BY <1>10 DEF AddNewObject, serverVars
    <2>2. TypeOK'
      BY <1>1, <1>10 DEF TypeOK, AddNewObject, Goes, Pcs, serverVars, Added
    <2>3. Goes(c, "object", "variable")
      BY <1>10 DEF AddNewObject, Added
    <2> QED BY <2>1, <2>2, <2>3, OtherStepInv DEF Pcs, Before
  <1>11. CASE AddNewIntegerVariable(c)
    <2>1. UNCHANGED <<value, answer, start>>
      BY <1>11 DEF AddNewIntegerVariable, serverVars
    <2>2. TypeOK'
      BY <1>1, <1>11 DEF TypeOK, AddNewIntegerVariable, Goes, Pcs, serverVars
    <2>3. Goes(c, "variable", "idle")
      BY <1>11 DEF AddNewIntegerVariable
    <2> QED BY <2>1, <2>2, <2>3, OtherStepInv DEF Pcs, Before
  <1> QED BY <1>2, <1>3, <1>4, <1>5, <1>6, <1>7, <1>8, <1>9, <1>10, <1>11

-----------------------------------------------------------------------------

\* The invariant holds however the clients interleave.
THEOREM Invariance == Spec => []IInv
  <1>1. IInv /\ [Next]_vars => IInv'
    <2> SUFFICES ASSUME IInv, [Next]_vars PROVE IInv'
      OBVIOUS
    <2>1. ASSUME NEW c \in Clients, Start(c) PROVE IInv'
      BY <2>1, RestInv, ReadInv, WriteRequestInv, WriteHighlevelInv DEF Start
    <2>2. CASE UNCHANGED vars
      BY <2>2 DEF vars, serverVars, IInv, TypeOK, PlannedBounded, Bound, Base, Reached
    <2> QED BY <2>1, <2>2 DEF Next
  <1> QED BY InitInv, <1>1, PTL DEF Spec

\* Types, and the wrap-around of value++ in Start, stay within Int32.
THEOREM TypeCorrect == Spec => []TypeOK
  <1>1. IInv => TypeOK
    BY DEF IInv
  <1> QED BY Invariance, <1>1, PTL

\* The read-modify-write of Start, which nothing guards, adds at most two for
\* each client.
THEOREM AnswerIsBounded == Spec => []AnswerBounded
  <1>1. IInv => AnswerBounded
    BY DEF IInv, AnswerBounded, Bound, Base
  <1> QED BY Invariance, <1>1, PTL

-----------------------------------------------------------------------------

\* Without losses, a client at its object finds the type there, and one past
\* it has its object.
ObjectsKept ==
    ~lossy => \A c \in Clients :
        /\ pc[c] = "object" => "NewObjectType" \in types
        /\ pc[c] \in {"variable", "idle"} => c \in objects

\* Every client that gets past its object has one, though the server takes
\* the object type, whose id is fixed, from one of them only.
THEOREM ObjectsForEveryone == Spec => []EveryoneGetsAnObject
  <1>1. Init => ObjectsKept
    BY DEF Init, ObjectsKept
  <1>2. ASSUME TypeOK, ObjectsKept, [Next]_vars PROVE ObjectsKept'
    <2>1. pc \in [Clients -> Pcs]
      BY <1>2 DEF TypeOK
    <2>2. CASE UNCHANGED vars
      BY <1>2, <2>2 DEF vars, serverVars, ObjectsKept
    <2>3. ASSUME NEW c \in Clients, Start(c) PROVE ObjectsKept'
      <3>1. CASE Connect(c) \/ Browse(c) \/ Subscribe(c) \/ Monitor(c)
        BY <1>2, <2>1, <3>1 DEF ObjectsKept, Connect, Browse, Subscribe, Monitor,
                                Goes, serverVars
      <3>2. CASE Publish(c) \/ Read(c) \/ CallMethod(c)
        BY <1>2, <2>1, <3>2 DEF ObjectsKept, Publish, Read, CallMethod, Goes,
                                serverVars
      <3>3. CASE WriteRequest(c) \/ WriteHighlevel(c)
        BY <1>2, <2>1, <3>3 DEF ObjectsKept, WriteRequest, WriteHighlevel, Goes
      <3>4. CASE AddNewReferenceType(c)
        BY <1>2, <2>1, <3>4 DEF ObjectsKept, AddNewReferenceType, Added, Goes
      <3>5. CASE AddNewObjectType(c)
        BY <1>2, <2>1, <3>5 DEF ObjectsKept, AddNewObjectType, AfterRefusedType,
                                Added, Goes
      <3>6. CASE AddNewObject(c)
        BY <1>2, <2>1, <3>6 DEF ObjectsKept, AddNewObject, Added, Goes
      <3>7. CASE AddNewIntegerVariable(c)
        BY <1>2, <2>1, <3>7 DEF ObjectsKept, AddNewIntegerVariable, Goes, serverVars
      <3> QED BY <2>3, <3>1, <3>2, <3>3, <3>4, <3>5, <3>6, <3>7 DEF Start
    <2> QED BY <1>2, <2>2, <2>3 DEF Next
  <1>3. ObjectsKept => EveryoneGetsAnObject
    BY DEF ObjectsKept, EveryoneGetsAnObject
  <1> QED BY <1>1, <1>2, <1>3, TypeCorrect, PTL DEF Spec

-----------------------------------------------------------------------------

\* Nothing is lost, the answer is there, and there is room above its start.
Quiet == ~lossy /\ kind = "int32" /\ start + 2 * Cardinality(Clients) < Half
Top   == start + 2 * Cardinality(Reached)

\* Clients that have written twice.
Past == {"call", "reftype", "objtype", "object", "variable", "idle"}

\* What the clients are about to write is above what the answer was at the
\* start, and it is not above the bound, so that it has not wrapped around;
\* the client that writes last leaves the second of its values.
Planned(c) ==
    /\ pc[c] = "request"   => start + 1 <= value[c] /\ value[c] <= Top - 1
    /\ pc[c] = "highlevel" => start + 2 <= value[c] /\ value[c] <= Top

Advance ==
    Quiet => /\ start <= answer /\ answer <= Top
             /\ \A c \in Clients : Planned(c)
             /\ (\A c \in Clients : pc[c] \in Past) => start + 2 <= answer

\* The bound never exceeds what the integers hold.
LEMMA TopType ==
    ASSUME TypeOK
    PROVE  /\ start \in Int /\ answer \in Int /\ Half \in Int /\ Top \in Int
           /\ Cardinality(Clients) \in Nat
           /\ Quiet => Top < Half
  <1>1. start \in Int /\ answer \in Int /\ Half \in Int
    BY OpcUaClientAssumption DEF TypeOK, Int32
  <1>2. Reached \subseteq Clients
    BY DEF Reached
  <1>3. /\ Cardinality(Clients) \in Nat /\ Cardinality(Reached) \in Nat
        /\ Cardinality(Reached) <= Cardinality(Clients)
    BY <1>2, OpcUaClientAssumption, FS_Subset, FS_CardinalityType
  <1> QED BY <1>1, <1>3 DEF Top, Quiet

\* An increment below the greatest Int32 adds one.
LEMMA IncrementedInRange ==
    \A v \in Int32 : v < Half - 1 => Incremented(v) = v + 1
  BY OpcUaClientAssumption DEF Int32, Incremented

LEMMA ReadAdvance ==
    ASSUME TypeOK, TypeOK', Advance, NEW c \in Clients, Read(c)
    PROVE  Advance'
  <1>1. /\ pc[c] = "read" /\ pc' = [pc EXCEPT ![c] = "request"]
        /\ UNCHANGED <<lossy, kind, answer, start>>
    BY DEF Read, Goes, serverVars
  <1>2. /\ pc \in [Clients -> Pcs] /\ value \in [Clients -> Int32]
        /\ answer \in Int32
    BY DEF TypeOK
  <1>3. Reached' = Reached \union {c} /\ c \notin Reached
    BY <1>1, <1>2 DEF Reached, Before
  <1>4. Cardinality(Reached') = Cardinality(Reached) + 1
    BY <1>3, ReachedType, FS_AddElement
  <1>5. Top' = Top + 2
    BY <1>1, <1>4, TopType, ReachedType DEF Top
  <1>6. SUFFICES ASSUME Quiet
                 PROVE  /\ start <= answer /\ answer <= Top'
                        /\ \A d \in Clients : Planned(d)'
                        /\ (\A d \in Clients : pc'[d] \in Past) => start + 2 <= answer
    BY <1>1 DEF Advance, Quiet
  <1>7. start <= answer /\ answer <= Top /\ \A d \in Clients : Planned(d)
    BY <1>6 DEF Advance
  <1>8. Top' < Half
    <2>1. Reached' \subseteq Clients
      BY DEF Reached
    <2>2. Cardinality(Reached') <= Cardinality(Clients)
      BY <2>1, OpcUaClientAssumption, FS_Subset
    <2> QED BY <1>1, <1>6, <2>2, TopType, ReachedType DEF Quiet, Top
  <1>9. value' = [value EXCEPT ![c] = answer + 1]
    <2>1. value' = [value EXCEPT ![c] = Incremented(answer)]
      BY <1>6 DEF Read, Quiet
    <2>2. Incremented(answer) = answer + 1
      BY <1>2, <1>5, <1>7, <1>8, TopType, IncrementedInRange
    <2> QED BY <2>1, <2>2
  <1>10. \A d \in Clients : Planned(d)'
    <2>1. Planned(c)'
      <3>1. pc'[c] = "request" /\ value'[c] = answer + 1
        BY <1>1, <1>2, <1>9
      <3> QED BY <1>1, <1>5, <1>7, <3>1, TopType DEF Planned
    <2>2. ASSUME NEW d \in Clients, d # c PROVE Planned(d)'
      <3>1. pc'[d] = pc[d] /\ value'[d] = value[d] /\ value[d] \in Int
        BY <1>1, <1>2, <1>9, <2>2, OpcUaClientAssumption DEF Int32
      <3> QED BY <1>1, <1>5, <1>7, <3>1, TopType DEF Planned
    <2> QED BY <2>1, <2>2
  <1>11. pc'[c] \notin Past
    BY <1>1, <1>2 DEF Past
  <1> QED BY <1>5, <1>7, <1>10, <1>11, TopType

LEMMA WriteAdvance ==
    ASSUME TypeOK, TypeOK', Advance, NEW c \in Clients,
           WriteRequest(c) \/ WriteHighlevel(c)
    PROVE  Advance'
  <1>1. /\ pc \in [Clients -> Pcs] /\ value \in [Clients -> Int32]
        /\ value[c] \in Int32 /\ value[c] \in Int
    BY OpcUaClientAssumption DEF TypeOK, Int32
  <1>2. UNCHANGED <<lossy, kind, start>>
    BY DEF WriteRequest, WriteHighlevel
  <1>3. PICK to \in {"highlevel", "aborted", "call"} :
            /\ pc' = [pc EXCEPT ![c] = to]
            /\ \/ pc[c] = "request" /\ to # "call"
                  /\ value' = [value EXCEPT ![c] = Incremented(value[c])]
               \/ pc[c] = "highlevel" /\ to = "call" /\ value' = value
    BY DEF WriteRequest, WriteHighlevel, Goes
  <1>4. Reached' = Reached
    BY <1>1, <1>3 DEF Reached, Before
  <1>5. Top' = Top
    BY <1>2, <1>4 DEF Top
  <1>6. SUFFICES ASSUME Quiet
                 PROVE  /\ start <= answer' /\ answer' <= Top
                        /\ \A d \in Clients : Planned(d)'
                        /\ (\A d \in Clients : pc'[d] \in Past) => start + 2 <= answer'
    BY <1>2, <1>5 DEF Advance, Quiet
  <1>7. Top < Half /\ Planned(c) /\ \A d \in Clients : Planned(d)
    BY <1>6, TopType DEF Advance
  <1>8. answer' = value[c]
    BY <1>6 DEF WriteRequest, WriteHighlevel, Done, Refused, LostOut, Quiet
  <1>9. \A d \in Clients : Planned(d)'
    <2>1. ASSUME NEW d \in Clients, d # c PROVE Planned(d)'
      <3>1. pc'[d] = pc[d] /\ value'[d] = value[d]
        BY <1>1, <1>3, <2>1
      <3> QED BY <1>2, <1>5, <1>7, <3>1 DEF Planned
    <2>2. Planned(c)'
      <3>1. CASE pc[c] = "request"
        <4>1. pc'[c] # "request" /\ value'[c] = value[c] + 1
          BY <1>1, <1>3, <1>7, <3>1, TopType, IncrementedInRange DEF Planned
        <4> QED BY <1>1, <1>2, <1>5, <1>7, <3>1, <4>1, TopType DEF Planned
      <3>2. CASE pc[c] = "highlevel"
        BY <1>1, <1>3, <3>2 DEF Planned
      <3> QED BY <1>3, <3>1, <3>2
    <2> QED BY <2>1, <2>2
  <1>10. (\A d \in Clients : pc'[d] \in Past) => start + 2 <= answer'
    <2>1. CASE pc[c] = "request"
      BY <1>1, <1>3, <2>1 DEF Past
    <2>2. CASE pc[c] = "highlevel"
      BY <1>7, <1>8, <2>2 DEF Planned
    <2> QED BY <1>3, <2>1, <2>2
  <1> QED BY <1>3, <1>7, <1>8, <1>9, <1>10, <1>1, TopType DEF Planned

\* Before the read and after the writes, a client goes on without touching
\* the answer, and comes to the end only past its writes.
LEMMA RestAdvance ==
    ASSUME TypeOK, Advance, NEW c \in Clients,
           UNCHANGED <<value, lossy, kind, answer, start>>,
           NEW from \in Pcs, NEW to \in Pcs, Goes(c, from, to),
           to \notin {"request", "highlevel"},
           from \in Before <=> to \in Before, from \in Past <=> to \in Past
    PROVE  Advance'
  <1>1. /\ pc \in [Clients -> Pcs] /\ pc[c] = from
        /\ pc' = [pc EXCEPT ![c] = to]
    BY DEF TypeOK, Goes
  <1>2. Reached' = Reached
    BY <1>1 DEF Reached
  <1>3. Top' = Top /\ (Quiet' <=> Quiet)
    BY <1>2 DEF Top, Quiet
  <1>4. \A d \in Clients : Planned(d) => Planned(d)'
    BY <1>1, <1>3 DEF Planned
  <1>5. \A d \in Clients : pc'[d] \in Past => pc[d] \in Past
    BY <1>1
  <1> QED BY <1>3, <1>4, <1>5 DEF Advance

\* Clients overwrite each other's updates, but while nothing is lost or wraps
\* around, the read-modify-write of Start moves the answer forward.
THEOREM AnswerMovesOn == Spec => []AnswerAdvances
  <1>1. ASSUME Init PROVE Advance
    <2>1. TypeOK
      BY <1>1, InitInv DEF IInv
    <2>2. pc = [c \in Clients |-> "connect"] /\ start = answer
      BY <1>1 DEF Init
    <2>3. Reached = {}
      BY <2>2 DEF Reached, Before
    <2>4. Top = start
      BY <2>1, <2>3, TopType, FS_EmptySet DEF Top
    <2>5. \A c \in Clients : Planned(c) /\ pc[c] \notin Past
      BY <2>2 DEF Planned, Past
    <2> QED BY <2>1, <2>2, <2>4, <2>5, TopType, OpcUaClientAssumption DEF Advance
  <1>2. TypeOK /\ Advance /\ [Next]_vars /\ TypeOK' => Advance'
    <2> SUFFICES ASSUME TypeOK, TypeOK', Advance, [Next]_vars PROVE Advance'
      OBVIOUS
    <2>1. CASE UNCHANGED vars
      BY <2>1 DEF vars, serverVars, Advance, Quiet, Top, Reached, Planned
    <2>2. ASSUME NEW c \in Clients, Start(c) PROVE Advance'
      <3>1. CASE Read(c)
        BY <3>1, ReadAdvance
      <3>2. CASE WriteRequest(c) \/ WriteHighlevel(c)
        BY <3>2, WriteAdvance
      <3>3. ASSUME ~(Read(c) \/ WriteRequest(c) \/ WriteHighlevel(c))
            PROVE  Advance'
        <4>1. UNCHANGED <<value, lossy, kind, answer, start>>
          BY <2>2, <3>3 DEF Start, Connect, Browse, Subscribe, Monitor, Publish,
             CallMethod, AddNewReferenceType, AddNewObjectType, AddNewObject,
             AddNewIntegerVariable, serverVars
        <4>2. \/ \E to \in {"browse", "returned"} : Goes(c, "connect", to)
              \/ Goes(c, "browse", "subscribe")
              \/ \E to \in {"monitor", "returned"} : Goes(c, "subscribe", to)
              \/ Goes(c, "monitor", "publish")
              \/ \E to \in {"read", "returned"} : Goes(c, "publish", to)
              \/ Goes(c, "call", "reftype") \/ Goes(c, "reftype", "objtype")
              \/ Goes(c, "objtype", "object") \/ Goes(c, "object", "variable")
              \/ Goes(c, "variable", "idle")
          BY <2>2, <3>3 DEF Start, Connect, Browse, Subscribe, Monitor, Publish,
             CallMethod, AddNewReferenceType, AddNewObjectType, AfterRefusedType,
             AddNewObject, AddNewIntegerVariable
        <4>3. \E from, to \in Pcs :
                 /\ Goes(c, from, to)
                 /\ to \notin {"request", "highlevel"}
                 /\ from \in Before <=> to \in Before
                 /\ from \in Past <=> to \in Past
          BY <4>2 DEF Pcs, Before, Past
        <4> QED BY <4>1, <4>3, RestAdvance
      <3> QED BY <3>1, <3>2, <3>3
    <2> QED BY <2>1, <2>2 DEF Next
  <1>3. TypeOK /\ Advance => AnswerAdvances
    <2> SUFFICES ASSUME TypeOK, Advance, ~lossy, kind = "int32",
                        \A c \in Clients : pc[c] = "idle",
                        start + 2 * Cardinality(Clients) < Half
                 PROVE  answer \in (start + 2)..(start + 2 * Cardinality(Clients))
      BY DEF AnswerAdvances
    <2>1. Reached = Clients
      BY DEF Reached, Before
    <2>2. start + 2 <= answer /\ answer <= Top
      BY DEF Advance, Quiet, Past
    <2> QED BY <2>1, <2>2, TopType DEF Top
  <1> QED BY <1>1, <1>2, <1>3, TypeCorrect, PTL DEF Spec

-----------------------------------------------------------------------------

\* What SetNodeValueByRequest reports: a lost request is never taken for a
\* write that has been done, and only a node the server does not have is.
THEOREM ReportsAreTrue == Spec => []ReportedWritesDone
  <1>1. Init => ReportedWritesDone
    BY DEF Init, ReportedWritesDone
  <1>2. ReportedWritesDone /\ [Next]_vars => ReportedWritesDone'
    <2> SUFFICES ASSUME ReportedWritesDone, [Next]_vars PROVE ReportedWritesDone'
      OBVIOUS
    <2> USE DEF ReportedWritesDone
    <2>1. ASSUME NEW c \in Clients, WriteRequest(c) PROVE ReportedWritesDone'
      <3>1. PICK served \in BOOLEAN :
              /\ \/ served /\ written' = written \union {c}
                 \/ served /\ kind = "none"
                 \/ ~served /\ written' = written
              /\ \/ \E good \in Results(served) :
                       claimed' = IF good THEN claimed \union {c} ELSE claimed
                 \/ claimed' = claimed
        BY <2>1 DEF WriteRequest, Refused
      <3>2. kind' = kind
        BY <2>1 DEF WriteRequest
      <3>3. claimed' = claimed \/ claimed' = claimed \union {c}
        BY <3>1
      <3>4. CASE served
        BY <3>1, <3>2, <3>3, <3>4
      <3>5. CASE ~served
        <4>1. Results(served) = {FALSE}
          <5>1. served = FALSE
            BY <3>5
          <5> QED BY <5>1 DEF Results
        <4>2. claimed' = claimed
          BY <3>1, <4>1
        <4> QED BY <3>1, <3>2, <3>5, <4>2
      <3> QED BY <3>4, <3>5
    <2>2. ASSUME NEW c \in Clients, Start(c), ~WriteRequest(c)
          PROVE  ReportedWritesDone'
      <3>1. UNCHANGED <<kind, claimed, written>>
        BY <2>2 DEF Start, Connect, Browse, Subscribe, Monitor, Publish, Read,
           WriteHighlevel, CallMethod, AddNewReferenceType, AddNewObjectType,
           AddNewObject, AddNewIntegerVariable, serverVars
      <3> QED BY <3>1
    <2>3. CASE UNCHANGED vars
      BY <2>3 DEF vars, serverVars
    <2> QED BY <2>1, <2>2, <2>3 DEF Next
  <1> QED BY <1>1, <1>2, PTL DEF Spec
=============================================================================
