------------------------ MODULE MappingManagerProofs ------------------------
(***************************************************************************)
(* Proofs about MappingManager for any records, any room in the map, and   *)
(* any faults of the flash and losses of power: numbers are fresh, what a  *)
(* client was told is durable, the copy in RAM is the store, and a restart *)
(* has room for what it finds.                                             *)
(***************************************************************************)
EXTENDS MappingManager, FiniteSetTheorems, TLAPS

USE CrudAssumption, MaxMappingsAssumption

-----------------------------------------------------------------------------
(* The invariants *)

Creating(at) == call.op = "create" /\ call.at \in at

(* Each operation is at one of its own calls; create has the number after  *)
(* the last until it saves it, and an operation that is past its write has *)
(* its data in the store.                                                  *)
CallOK ==
    /\ call.op = "none" => call.at = "none" /\ call.id = 0
    /\ call.op = "create" =>
          /\ call.at \in {"getLast", "setBlob", "setLast", "commit", "ok", "failed"}
          /\ call.data \in Data
          /\ call.at = "getLast" => call.id = 0 /\ store.last < MaxId
          /\ call.at \in {"setBlob", "setLast"} => call.id = store.last + 1 /\ call.id \in Ids
          /\ call.at \in {"commit", "ok"} => call.id = store.last /\ call.id \in Ids
    /\ call.op = "update" =>
          call.at \in {"setBlob", "commit", "ok", "failed"} /\ call.id \in Ids /\ call.data \in Data
    /\ call.op = "destroy" =>
          call.at \in {"erase", "commit", "ok", "failed"} /\ call.id \in Ids /\ call.data = NoData
    /\ call.at \in {"setLast", "commit", "ok"} => store.blobs[call.id] = call.data
    /\ call.at = "ok" => maybe = {store}

(* No number beyond the last of any store that a restart may find has been *)
(* given, and the number of the create under way has not been given.       *)
Numbers ==
    /\ \A id \in Ids : Given(id) => \A s \in maybe : id <= s.last
    /\ Creating({"setBlob", "setLast", "commit", "ok"}) => ~Given(call.id)

(* What an operation under way is about to write is what its client waits  *)
(* for.                                                                    *)
Durable ==
    /\ DurableAcks
    /\ call.op \in {"update", "destroy"} /\ Given(call.id) => call.data \in told[call.id]

(* The operation under way has not written the record id.                  *)
Unwritten(id) ==
    \/ call.id # id \/ call.at \in {"setBlob", "erase"}
    \/ call.op # "create" /\ call.at = "failed"

(* The copy has a record beyond the last number only for a create that was *)
(* cut short.                                                              *)
CopyWithinLast ==
    \A id \in Ids \ orphans : mappings[id] # NoData => \A s \in maybe : id <= s.last

(* A store has one only for such a create, or for one under way.           *)
StoreWithinLast ==
    \A id \in Ids \ orphans, s \in maybe :
        id > s.last /\ s.blobs[id] # NoData => call.op = "create" /\ call.id = id

CreateIsNew ==
    Creating({"setBlob", "setLast", "commit", "ok"}) =>
        call.id \in orphans \/ mappings[call.id] = NoData

InSync ==
    faults = 0 => \A id \in Ids \ orphans : Unwritten(id) => mappings[id] = store.blobs[id]

Copies == CopyWithinLast /\ StoreWithinLast /\ CreateIsNew /\ InSync

(* A create that may still succeed has room in the copy, and an update has *)
(* its record there.                                                       *)
Mapped ==
    /\ call.op = "create" => Cardinality(Present(mappings)) < MaxMappings \/ call.at = "failed"
    /\ call.op = "update" => mappings[call.id] # NoData

(* The records of a store and of the copy together are not too many.       *)
StoresFit ==
    faults = 0 => \A s \in maybe :
        Cardinality(Present(s.blobs) \union Present(mappings)) <= MaxMappings

(* What the store has beyond the copy is the number that create gives next.*)
Surplus ==
    faults = 0 => Present(store.blobs) \ Present(mappings) \subseteq
        IF Creating({"commit", "ok"}) THEN {call.id} ELSE {store.last + 1}

Room == Mapped /\ StoresFit /\ Surplus

IInv == TypeOK /\ CallOK /\ Numbers /\ Durable /\ Copies /\ Room

-----------------------------------------------------------------------------
(* The steps of an operation *)

Calls == [op : {"none", "create", "update", "destroy"},
          id : 0 .. MaxId,
          data : Data \union {NoData},
          at : {"none", "getLast", "setBlob", "setLast", "erase", "commit", "ok", "failed"}]

SameButAt == call'.op = call.op /\ call'.id = call.id /\ call'.data = call.data

LEMMA GotoFacts ==
    ASSUME NEW at \in {"setBlob", "setLast", "erase", "commit", "ok", "failed"},
           TypeOK, Goto(at)
    PROVE  call' \in Calls /\ SameButAt /\ call'.at = at
  BY DEF Goto, TypeOK, CrudTypeOK, Calls, SameButAt

LEMMA WithBlobFacts ==
    ASSUME TypeOK, NEW id \in Ids, NEW data \in Data \union {NoData}
    PROVE  /\ WithBlob(id, data) \in Store
           /\ WithBlob(id, data).last = store.last
           /\ WithBlob(id, data).blobs[id] = data
           /\ \A k \in Ids \ {id} : WithBlob(id, data).blobs[k] = store.blobs[k]
  BY DEF WithBlob, TypeOK, CrudTypeOK, Store

LEMMA GetLastFacts ==
    ASSUME TypeOK, CallOK, GetLast
    PROVE  /\ call.op = "create" /\ call.at = "getLast" /\ call.id = 0
           /\ call'.op = "create" /\ call'.data = call.data /\ call'.at = "setBlob"
           /\ call'.id = store.last + 1 /\ call'.id \in Ids
           /\ call' \in Calls
           /\ UNCHANGED <<faults, store, maybe>>
<1>1. call.op = "create" /\ call.at = "getLast"
  BY DEF GetLast, CallOK, TypeOK, CrudTypeOK
<1>2. store.last \in 0 .. MaxId /\ store.last < MaxId /\ call.id = 0
  BY <1>1 DEF CallOK, TypeOK, CrudTypeOK, Store
<1>3. store.last + 1 \in Ids
  BY <1>2 DEF Ids
<1> QED
  BY <1>1, <1>2, <1>3 DEF GetLast, TypeOK, CrudTypeOK, Calls, Ids

LEMMA SetBlobFacts ==
    ASSUME TypeOK, CallOK, SetBlob
    PROVE  /\ call.op \in {"create", "update"} /\ call.at = "setBlob"
           /\ call.id \in Ids /\ call.data \in Data
           /\ call' \in Calls /\ SameButAt
           /\ call'.at = IF call.op = "create" THEN "setLast" ELSE "commit"
           /\ store' \in Store /\ store'.last = store.last
           /\ store'.blobs[call.id] = call.data
           /\ \A k \in Ids \ {call.id} : store'.blobs[k] = store.blobs[k]
           /\ maybe' = maybe \union {store'}
           /\ UNCHANGED faults
<1>1. /\ call.op \in {"create", "update"} /\ call.at = "setBlob"
      /\ call.id \in Ids /\ call.data \in Data
  BY DEF SetBlob, CallOK, TypeOK, CrudTypeOK
<1> QED
  BY <1>1, GotoFacts, WithBlobFacts DEF SetBlob, Write

LEMMA SetLastFacts ==
    ASSUME TypeOK, CallOK, SetLast
    PROVE  /\ call.op = "create" /\ call.at = "setLast" /\ call.id \in Ids
           /\ call.id = store.last + 1
           /\ call' \in Calls /\ SameButAt /\ call'.at = "commit"
           /\ store' \in Store /\ store'.last = call.id /\ store'.blobs = store.blobs
           /\ maybe' = maybe \union {store'}
           /\ UNCHANGED faults
<1>1. /\ call.op = "create" /\ call.at = "setLast" /\ call.id \in Ids
      /\ call.id = store.last + 1
  BY DEF SetLast, CallOK, TypeOK, CrudTypeOK
<1>2. /\ store' \in Store /\ store'.last = call.id /\ store'.blobs = store.blobs
  BY <1>1 DEF SetLast, Write, TypeOK, CrudTypeOK, Store, Ids
<1> QED
  BY <1>1, <1>2, GotoFacts DEF SetLast, Write

LEMMA EraseKeyFacts ==
    ASSUME TypeOK, CallOK, EraseKey
    PROVE  /\ call.op = "destroy" /\ call.at = "erase" /\ call.id \in Ids /\ call.data = NoData
           /\ call' \in Calls /\ SameButAt /\ call'.at = "commit"
           /\ store' \in Store /\ store'.last = store.last
           /\ store'.blobs[call.id] = NoData
           /\ \A k \in Ids \ {call.id} : store'.blobs[k] = store.blobs[k]
           /\ maybe' = maybe \union {store'}
           /\ UNCHANGED faults
<1>1. call.op = "destroy" /\ call.at = "erase" /\ call.id \in Ids /\ call.data = NoData
  BY DEF EraseKey, CallOK, TypeOK, CrudTypeOK
<1> QED
  BY <1>1, GotoFacts, WithBlobFacts DEF EraseKey, Write

LEMMA CommitFacts ==
    ASSUME TypeOK, CallOK, Commit
    PROVE  /\ call.op \in {"create", "update", "destroy"} /\ call.at = "commit"
           /\ call.id \in Ids
           /\ call' \in Calls /\ SameButAt /\ call'.at = "ok"
           /\ maybe' = {store}
           /\ UNCHANGED <<faults, store>>
<1>1. call.op \in {"create", "update", "destroy"} /\ call.at = "commit" /\ call.id \in Ids
  BY DEF Commit, CallOK, TypeOK, CrudTypeOK
<1> QED
  BY <1>1, GotoFacts DEF Commit

LEMMA CallFailsFacts ==
    ASSUME TypeOK, CallOK, CallFails
    PROVE  /\ call.op \in {"create", "update", "destroy"}
           /\ call' \in Calls /\ SameButAt /\ call'.at = "failed"
           /\ faults' \in 0 .. MaxFaults
           /\ faults' = 0 => faults = 0 /\ call.at \in {"setBlob", "setLast", "erase"}
           /\ UNCHANGED <<store, maybe>>
<1>1. call.at \in {"getLast", "setBlob", "setLast", "erase", "commit"}
  BY DEF CallFails
<1>2. call.op \in {"create", "update", "destroy"}
  BY <1>1 DEF CallOK, TypeOK, CrudTypeOK
<1>3. /\ faults' \in 0 .. MaxFaults
      /\ faults' = 0 => faults = 0 /\ call.at \in {"setBlob", "setLast", "erase"}
  BY DEF CallFails, Fault, TypeOK, CrudTypeOK
<1> QED
  BY <1>2, <1>3, GotoFacts DEF CallFails

(* What each action makes of the copy and of the histories. *)

LEMMA BeginFacts ==
    ASSUME TypeOK, CallOK, Request
    PROVE  /\ call.op = "none" /\ call.id = 0 /\ call.at = "none"
           /\ call' \in Calls
           /\ \/ /\ call'.op = "create" /\ call'.id = 0 /\ call'.data \in Data /\ call'.at = "getLast"
                 /\ Cardinality(Present(mappings)) < MaxMappings /\ store.last < MaxId
                 /\ told' = told
              \/ /\ call'.op = "update" /\ call'.id \in Ids /\ call'.data \in Data
                 /\ call'.at = "setBlob" /\ mappings[call'.id] # NoData
                 /\ MayBecome(call'.id, call'.data)
              \/ /\ call'.op = "destroy" /\ call'.id \in Ids /\ call'.data = NoData
                 /\ call'.at = "erase"
                 /\ MayBecome(call'.id, call'.data)
           /\ UNCHANGED <<faults, store, maybe, mappings, orphans>>
<1>1. Idle /\ call.op = "none" /\ call.id = 0 /\ call.at = "none"
  BY DEF Request, CreateRequest, UpdateRequest, RemoveRequest, Idle, CallOK
<1>2. CASE \E data \in Data : CreateRequest(data)
  BY <1>1, <1>2 DEF CreateRequest, BeginCreate, Calls
<1>3. CASE \E id \in Ids, data \in Data : UpdateRequest(id, data)
  BY <1>1, <1>3 DEF UpdateRequest, BeginUpdate, Calls, Ids
<1>4. CASE \E id \in Ids : RemoveRequest(id)
  BY <1>1, <1>4 DEF RemoveRequest, BeginDestroy, Calls, Ids
<1> QED
  BY <1>2, <1>3, <1>4 DEF Request

(* A request that was carried out *)
LEMMA DoneFacts ==
    ASSUME TypeOK, CallOK, Created \/ Updated \/ Removed
    PROVE  /\ call.op \in {"create", "update", "destroy"} /\ call.at = "ok" /\ call.id \in Ids
           /\ maybe = {store} /\ store.blobs[call.id] = call.data
           /\ call' = NoCall /\ call' \in Calls
           /\ mappings' \in [Ids -> Data \union {NoData}]
           /\ \A k \in Ids \ {call.id} : mappings'[k] = mappings[k] /\ told'[k] = told[k]
           /\ \/ mappings'[call.id] = call.data
              \/ call.op = "create" /\ mappings[call.id] # NoData
                 /\ mappings'[call.id] = mappings[call.id]
           /\ told' \in [Ids -> SUBSET (Data \union {NoData})]
           /\ told'[call.id] \in {{}, {call.data}}
           /\ told'[call.id] # {} => Given(call.id) \/ call.op = "create"
           /\ UNCHANGED <<faults, store, maybe, orphans>>
<1>1. /\ call.op \in {"create", "update", "destroy"} /\ call.at = "ok" /\ call.id \in Ids
      /\ maybe = {store} /\ store.blobs[call.id] = call.data
      /\ call.data \in Data \union {NoData} /\ (call.op = "destroy" => call.data = NoData)
  BY DEF Created, Updated, Removed, CallOK
<1>2. NoCall \in Calls
  BY DEF NoCall, Calls
<1>3. /\ mappings \in [Ids -> Data \union {NoData}]
      /\ told \in [Ids -> SUBSET (Data \union {NoData})]
  BY DEF TypeOK
<1>4. CASE Created
  BY <1>1, <1>2, <1>3, <1>4 DEF Created, Given
<1>5. CASE Updated
  <2>1. /\ told' = [told EXCEPT ![call.id] = IF @ = {} THEN @ ELSE {call.data}]
        /\ mappings' = [mappings EXCEPT ![call.id] = call.data]
        /\ call' = NoCall /\ UNCHANGED <<faults, store, maybe, orphans>>
    BY <1>1, <1>5 DEF Updated
  <2>2. told'[call.id] = IF told[call.id] = {} THEN {} ELSE {call.data}
    BY <1>1, <1>3, <2>1
  <2>3. told' \in [Ids -> SUBSET (Data \union {NoData})]
    BY <1>1, <1>3, <2>1
  <2>4. /\ mappings' \in [Ids -> Data \union {NoData}]
        /\ mappings'[call.id] = call.data
        /\ \A k \in Ids \ {call.id} : mappings'[k] = mappings[k] /\ told'[k] = told[k]
    BY <1>1, <1>3, <2>1
  <2> QED
    BY <1>1, <1>2, <2>1, <2>2, <2>3, <2>4 DEF Given
<1>6. CASE Removed
  <2>1. /\ told' = [told EXCEPT ![call.id] = IF @ = {} THEN @ ELSE {call.data}]
        /\ mappings' = [mappings EXCEPT ![call.id] = call.data]
        /\ call' = NoCall /\ UNCHANGED <<faults, store, maybe, orphans>>
    BY <1>1, <1>6 DEF Removed
  <2>2. told'[call.id] = IF told[call.id] = {} THEN {} ELSE {call.data}
    BY <1>1, <1>3, <2>1
  <2>3. told' \in [Ids -> SUBSET (Data \union {NoData})]
    BY <1>1, <1>3, <2>1
  <2>4. /\ mappings' \in [Ids -> Data \union {NoData}]
        /\ mappings'[call.id] = call.data
        /\ \A k \in Ids \ {call.id} : mappings'[k] = mappings[k] /\ told'[k] = told[k]
    BY <1>1, <1>3, <2>1
  <2> QED
    BY <1>1, <1>2, <2>1, <2>2, <2>3, <2>4 DEF Given
<1> QED
  BY <1>4, <1>5, <1>6

(* The number of a create that ends without success *)
LEMMA CutShortFacts ==
    ASSUME TypeOK, CallOK
    PROVE  /\ CutShort \subseteq 0 .. MaxId /\ orphans \subseteq CutShort
           /\ call.op = "create" => call.id \in CutShort
  BY DEF CutShort, TypeOK, CrudTypeOK

LEMMA RequestFailedFacts ==
    ASSUME TypeOK, CallOK, RequestFailed
    PROVE  /\ call.op \in {"create", "update", "destroy"} /\ call.at = "failed"
           /\ call' = NoCall /\ call' \in Calls
           /\ orphans' = CutShort
           /\ UNCHANGED <<faults, store, maybe, mappings, told>>
<1>1. call.at = "failed" /\ call.op \in {"create", "update", "destroy"}
  BY DEF RequestFailed, CallOK, TypeOK, CrudTypeOK
<1> QED
  BY <1>1 DEF RequestFailed, NoCall, Calls

LEMMA RestartFacts ==
    ASSUME TypeOK, CallOK, Restart
    PROVE  /\ store' \in maybe /\ store' \in Store /\ maybe' = {store'}
           /\ call' = NoCall /\ call' \in Calls
           /\ mappings' \in [Ids -> Data \union {NoData}]
           /\ \A k \in Ids : mappings'[k] # NoData => mappings'[k] = store'.blobs[k]
           /\ Cardinality(Present(mappings')) <= MaxMappings
           /\ faults' \in 0 .. MaxFaults
           /\ faults' = 0 => faults = 0 /\ \A k \in Ids : mappings'[k] = store'.blobs[k]
           /\ orphans' = CutShort
           /\ UNCHANGED told
<1>1. PICK unread \in SUBSET Ids :
        /\ CrudRestart(unread)
        /\ mappings' = [id \in Ids |-> IF id \in unread THEN NoData ELSE store'.blobs[id]]
  BY DEF Restart
<1>2. store' \in maybe /\ store' \in Store /\ maybe' = {store'} /\ call' = NoCall
  BY <1>1 DEF CrudRestart, TypeOK, CrudTypeOK
<1>3. /\ faults' \in 0 .. MaxFaults
      /\ faults' = 0 => faults = 0 /\ unread = {}
  BY <1>1 DEF CrudRestart, Fault, TypeOK, CrudTypeOK
<1>4. /\ mappings' \in [Ids -> Data \union {NoData}]
      /\ \A k \in Ids : mappings'[k] # NoData => mappings'[k] = store'.blobs[k]
      /\ unread = {} => \A k \in Ids : mappings'[k] = store'.blobs[k]
  BY <1>1, <1>2 DEF Store
<1> QED
  BY <1>2, <1>3, <1>4 DEF Restart, NoCall, Calls

-----------------------------------------------------------------------------
(* Sets of numbers *)

LEMMA CardinalitySubset ==
    ASSUME NEW T \in SUBSET Ids, NEW S \in SUBSET T
    PROVE  /\ Cardinality(S) \in Nat /\ Cardinality(T) \in Nat
           /\ Cardinality(S) <= Cardinality(T)
<1>1. IsFiniteSet(Ids)
  BY FS_Interval DEF Ids
<1>2. IsFiniteSet(T)
  BY <1>1, FS_Subset
<1> QED
  BY <1>2, FS_Subset, FS_CardinalityType

LEMMA CardinalityAdd ==
    ASSUME NEW T \in SUBSET Ids, NEW id \in Ids, NEW S \in SUBSET (T \union {id})
    PROVE  Cardinality(S) \in Nat /\ Cardinality(T) \in Nat /\ Cardinality(S) <= Cardinality(T) + 1
<1>1. Cardinality(S) \in Nat /\ Cardinality(S) <= Cardinality(T \union {id})
  BY CardinalitySubset
<1>2. IsFiniteSet(T)
  <2>1. IsFiniteSet(Ids)
    BY FS_Interval DEF Ids
  <2> QED
    BY <2>1, FS_Subset
<1>3. Cardinality(T) \in Nat
  BY <1>2, FS_CardinalityType
<1>4. Cardinality(T \union {id}) <= Cardinality(T) + 1
  <2>1. Cardinality(T \union {id}) = IF id \in T THEN Cardinality(T) ELSE Cardinality(T) + 1
    BY <1>2, FS_AddElement
  <2> QED
    BY <1>3, <2>1
<1> QED
  BY <1>1, <1>3, <1>4, CardinalitySubset

-----------------------------------------------------------------------------
(* Types *)

LEMMA StepTypeOK == TypeOK /\ CallOK /\ Room /\ [Next]_vars => TypeOK'
<1> SUFFICES ASSUME TypeOK, CallOK, Room, [Next]_vars
             PROVE  TypeOK'
  OBVIOUS
<1>0. /\ faults \in 0 .. MaxFaults /\ store \in Store /\ maybe \subseteq Store /\ store \in maybe
      /\ call \in Calls
      /\ mappings \in [Ids -> Data \union {NoData}]
      /\ Cardinality(Present(mappings)) <= MaxMappings
      /\ told \in [Ids -> SUBSET (Data \union {NoData})]
      /\ orphans \subseteq 0 .. MaxId
  BY DEF TypeOK, CrudTypeOK, Calls
<1> SUFFICES /\ faults' \in 0 .. MaxFaults /\ store' \in Store /\ maybe' \subseteq Store
             /\ store' \in maybe' /\ call' \in Calls
             /\ mappings' \in [Ids -> Data \union {NoData}]
             /\ Cardinality(Present(mappings')) <= MaxMappings
             /\ told' \in [Ids -> SUBSET (Data \union {NoData})]
             /\ orphans' \subseteq 0 .. MaxId
  BY DEF TypeOK, CrudTypeOK, Calls
<1>1. CASE Request
  <2>1. ASSUME NEW id \in Ids, NEW data \in Data \union {NoData}, MayBecome(id, data)
        PROVE  told' \in [Ids -> SUBSET (Data \union {NoData})]
    BY <1>0, <2>1 DEF MayBecome
  <2> QED
    BY <1>0, <1>1, <2>1, BeginFacts
<1>2. CASE CrudStep /\ UNCHANGED <<mappings, told, orphans>>
  <2>1. CASE GetLast
    BY <1>0, <1>2, <2>1, GetLastFacts
  <2>2. CASE SetBlob
    BY <1>0, <1>2, <2>2, SetBlobFacts
  <2>3. CASE SetLast
    BY <1>0, <1>2, <2>3, SetLastFacts
  <2>4. CASE EraseKey
    BY <1>0, <1>2, <2>4, EraseKeyFacts
  <2>5. CASE Commit
    BY <1>0, <1>2, <2>5, CommitFacts
  <2>6. CASE CallFails
    BY <1>0, <1>2, <2>6, CallFailsFacts
  <2> QED
    BY <1>2, <2>1, <2>2, <2>3, <2>4, <2>5, <2>6 DEF CrudStep
<1>3. CASE Created \/ Updated \/ Removed
  <2>1. Cardinality(Present(mappings')) <= MaxMappings
    <3>1. CASE call.op = "create"
      <4>1. Present(mappings') \subseteq Present(mappings) \union {call.id}
        BY <1>3, DoneFacts DEF Present
      <4>2. Cardinality(Present(mappings)) < MaxMappings
        BY <1>3, <3>1, DoneFacts DEF Room, Mapped
      <4>3. call.id \in Ids /\ Present(mappings) \in SUBSET Ids
        BY <1>3, DoneFacts DEF Present
      <4>4. /\ Cardinality(Present(mappings')) \in Nat /\ Cardinality(Present(mappings)) \in Nat
            /\ Cardinality(Present(mappings')) <= Cardinality(Present(mappings)) + 1
        BY <4>1, <4>3, CardinalityAdd
      <4> QED
        BY <4>2, <4>4
    <3>2. CASE call.op # "create"
      <4>1. \A k \in Ids : mappings'[k] # NoData => mappings[k] # NoData
        BY <1>3, <3>2, DoneFacts DEF CallOK, Room, Mapped
      <4>2. Present(mappings) \in SUBSET Ids /\ Present(mappings') \in SUBSET Present(mappings)
        BY <4>1 DEF Present
      <4>3. /\ Cardinality(Present(mappings')) \in Nat /\ Cardinality(Present(mappings)) \in Nat
            /\ Cardinality(Present(mappings')) <= Cardinality(Present(mappings))
        BY <4>2, CardinalitySubset
      <4> QED
        BY <1>0, <4>3
    <3> QED
      BY <3>1, <3>2
  <2> QED
    BY <1>0, <1>3, <2>1, DoneFacts
<1>4. CASE RequestFailed
  BY <1>0, <1>4, RequestFailedFacts, CutShortFacts
<1>5. CASE Restart
  BY <1>0, <1>5, RestartFacts, CutShortFacts
<1>6. CASE UNCHANGED vars
  BY <1>0, <1>6 DEF vars, crudVars
<1> QED
  BY <1>1, <1>2, <1>3, <1>4, <1>5, <1>6 DEF Next

-----------------------------------------------------------------------------
(* The operation under way *)

LEMMA StepCallOK == TypeOK /\ CallOK /\ [Next]_vars => CallOK'
<1> SUFFICES ASSUME TypeOK, CallOK, [Next]_vars
             PROVE  CallOK'
  OBVIOUS
<1>1. CASE GetLast /\ UNCHANGED <<mappings, told, orphans>>
  BY <1>1, GetLastFacts DEF CallOK
<1>2. CASE SetBlob /\ UNCHANGED <<mappings, told, orphans>>
  BY <1>2, SetBlobFacts DEF CallOK, SameButAt
<1>3. CASE SetLast /\ UNCHANGED <<mappings, told, orphans>>
  BY <1>3, SetLastFacts DEF CallOK, SameButAt
<1>4. CASE EraseKey /\ UNCHANGED <<mappings, told, orphans>>
  BY <1>4, EraseKeyFacts DEF CallOK, SameButAt
<1>5. CASE Commit /\ UNCHANGED <<mappings, told, orphans>>
  BY <1>5, CommitFacts DEF CallOK, SameButAt
<1>6. CASE CallFails /\ UNCHANGED <<mappings, told, orphans>>
  BY <1>6, CallFailsFacts DEF CallOK, SameButAt
<1>7. CASE Request
  BY <1>7, BeginFacts DEF CallOK
<1>8. CASE Created \/ Updated \/ Removed
  BY <1>8, DoneFacts DEF CallOK, NoCall
<1>9. CASE RequestFailed
  BY <1>9, RequestFailedFacts DEF CallOK, NoCall
<1>10. CASE Restart
  BY <1>10, RestartFacts DEF CallOK, NoCall
<1>11. CASE UNCHANGED vars
  BY <1>11 DEF vars, crudVars, CallOK
<1> QED
  BY <1>1, <1>2, <1>3, <1>4, <1>5, <1>6, <1>7, <1>8, <1>9, <1>10, <1>11 DEF Next,
     CrudStep

(* Numbers *)

LEMMA StepNumbers == TypeOK /\ CallOK /\ Numbers /\ [Next]_vars => Numbers'
<1> SUFFICES ASSUME TypeOK, CallOK, Numbers, [Next]_vars
             PROVE  Numbers'
  OBVIOUS
<1>1. CASE GetLast /\ UNCHANGED <<mappings, told, orphans>>
  BY <1>1, GetLastFacts DEF Numbers, TypeOK, CrudTypeOK, Store, Given
<1>2. CASE SetBlob /\ UNCHANGED <<mappings, told, orphans>>
  BY <1>2, SetBlobFacts DEF Numbers, TypeOK, CrudTypeOK, SameButAt, Given, Creating
<1>3. CASE SetLast /\ UNCHANGED <<mappings, told, orphans>>
  <2>1. /\ store' \in Store /\ store'.last = store.last + 1 /\ store.last \in Nat
        /\ maybe' = maybe \union {store'} /\ store \in maybe /\ UNCHANGED told
        /\ SameButAt /\ call.op = "create" /\ call.at = "setLast"
    BY <1>3, SetLastFacts DEF TypeOK, CrudTypeOK, Store
  <2>2. \A id \in Ids : Given(id) => id <= store'.last
    <3>1. \A id \in Ids : id \in Nat
      BY DEF Ids
    <3> QED
      BY <2>1, <3>1 DEF Numbers
  <2> QED
    BY <2>1, <2>2 DEF Numbers, Given, Creating, SameButAt
<1>4. CASE EraseKey /\ UNCHANGED <<mappings, told, orphans>>
  BY <1>4, EraseKeyFacts DEF Numbers, TypeOK, CrudTypeOK, SameButAt, Given, Creating
<1>5. CASE Commit /\ UNCHANGED <<mappings, told, orphans>>
  BY <1>5, CommitFacts DEF Numbers, TypeOK, CrudTypeOK, SameButAt, Given, Creating
<1>6. CASE CallFails /\ UNCHANGED <<mappings, told, orphans>>
  BY <1>6, CallFailsFacts DEF Numbers, Given, Creating
<1>7. CASE Request
  BY <1>7, BeginFacts DEF Numbers, TypeOK, Given, Creating, MayBecome
<1>8. CASE Created \/ Updated \/ Removed
  BY <1>8, DoneFacts DEF Numbers, CallOK, TypeOK, CrudTypeOK, NoCall, Given, Creating
<1>9. CASE RequestFailed
  BY <1>9, RequestFailedFacts DEF Numbers, NoCall, Given, Creating
<1>10. CASE Restart
  BY <1>10, RestartFacts DEF Numbers, NoCall, Given, Creating
<1>11. CASE UNCHANGED vars
  BY <1>11 DEF vars, crudVars, Numbers, Given, Creating
<1> QED
  BY <1>1, <1>2, <1>3, <1>4, <1>5, <1>6, <1>7, <1>8, <1>9, <1>10, <1>11 DEF Next,
     CrudStep

(* What clients were told *)

LEMMA StepDurable == TypeOK /\ CallOK /\ Numbers /\ Durable /\ [Next]_vars => Durable'
<1> SUFFICES ASSUME TypeOK, CallOK, Numbers, Durable, [Next]_vars
             PROVE  Durable'
  OBVIOUS
<1>1. CASE GetLast /\ UNCHANGED <<mappings, told, orphans>>
  BY <1>1, GetLastFacts DEF Durable, DurableAcks, Given
<1>2. CASE SetBlob /\ UNCHANGED <<mappings, told, orphans>>
  BY <1>2, SetBlobFacts DEF Numbers, Durable, DurableAcks, CallOK, TypeOK,
     CrudTypeOK, Store, SameButAt, Given
<1>3. CASE SetLast /\ UNCHANGED <<mappings, told, orphans>>
  BY <1>3, SetLastFacts DEF Durable, DurableAcks, TypeOK, CrudTypeOK, SameButAt, Given
<1>4. CASE EraseKey /\ UNCHANGED <<mappings, told, orphans>>
  BY <1>4, EraseKeyFacts DEF Durable, DurableAcks, TypeOK, CrudTypeOK, SameButAt, Given
<1>5. CASE Commit /\ UNCHANGED <<mappings, told, orphans>>
  BY <1>5, CommitFacts DEF Durable, DurableAcks, TypeOK, CrudTypeOK, SameButAt, Given
<1>6. CASE CallFails /\ UNCHANGED <<mappings, told, orphans>>
  BY <1>6, CallFailsFacts DEF Durable, DurableAcks, SameButAt, Given
<1>7. CASE Request
  BY <1>7, BeginFacts DEF Durable, DurableAcks, TypeOK, Given, MayBecome
<1>8. CASE Created \/ Updated \/ Removed
  BY <1>8, DoneFacts DEF Durable, DurableAcks, NoCall, Given
<1>9. CASE RequestFailed
  BY <1>9, RequestFailedFacts DEF Durable, DurableAcks, NoCall, Given
<1>10. CASE Restart
  BY <1>10, RestartFacts DEF Durable, DurableAcks, NoCall, Given
<1>11. CASE UNCHANGED vars
  BY <1>11 DEF vars, crudVars, Durable, DurableAcks, Given
<1> QED
  BY <1>1, <1>2, <1>3, <1>4, <1>5, <1>6, <1>7, <1>8, <1>9, <1>10, <1>11 DEF Next,
     CrudStep

(* The copy *)

LEMMA StepCopies == TypeOK /\ CallOK /\ Room /\ Copies /\ [Next]_vars => Copies'
<1> SUFFICES ASSUME TypeOK, CallOK, Room, Copies, [Next]_vars
             PROVE  Copies'
  OBVIOUS
<1>1. CASE GetLast /\ UNCHANGED <<mappings, told, orphans>>
  <2>1. /\ store \in maybe /\ \A s \in maybe : s.last \in Nat
        /\ \A id \in Ids : id \in Nat \ {0}
    BY DEF TypeOK, CrudTypeOK, Store, Ids
  <2> USE <2>1, <1>1 DEF Copies, CopyWithinLast, StoreWithinLast, Unwritten
  <2>2. CopyWithinLast'
    BY GetLastFacts DEF Ids
  <2>3. StoreWithinLast'
    BY GetLastFacts DEF Ids
  <2>4. CreateIsNew'
    BY GetLastFacts DEF Ids, CreateIsNew, Creating
  <2>5. InSync'
    BY GetLastFacts DEF Ids, InSync
  <2> QED
    BY <2>2, <2>3, <2>4, <2>5
<1>2. CASE SetBlob /\ UNCHANGED <<mappings, told, orphans>>
  BY <1>2, SetBlobFacts DEF Room, Mapped, Copies, CopyWithinLast, StoreWithinLast,
     CreateIsNew, InSync, Unwritten, TypeOK, CrudTypeOK, Store, SameButAt, Creating
<1>3. CASE SetLast /\ UNCHANGED <<mappings, told, orphans>>
  <2>1. /\ store \in maybe /\ \A s \in maybe : s.last \in Nat
        /\ \A id \in Ids : id \in Nat \ {0}
    BY DEF TypeOK, CrudTypeOK, Store, Ids
  <2> USE <2>1, <1>3 DEF Copies, CopyWithinLast, StoreWithinLast, Unwritten
  <2>2. CopyWithinLast'
    BY SetLastFacts DEF SameButAt
  <2>3. StoreWithinLast'
    BY SetLastFacts DEF SameButAt
  <2>4. CreateIsNew'
    BY SetLastFacts DEF SameButAt, CreateIsNew, Creating
  <2>5. InSync'
    BY SetLastFacts DEF SameButAt, InSync
  <2> QED
    BY <2>2, <2>3, <2>4, <2>5
<1>4. CASE EraseKey /\ UNCHANGED <<mappings, told, orphans>>
  BY <1>4, EraseKeyFacts DEF Copies, CopyWithinLast, StoreWithinLast, CreateIsNew,
     InSync, Unwritten, TypeOK, CrudTypeOK, SameButAt, Creating
<1>5. CASE Commit /\ UNCHANGED <<mappings, told, orphans>>
  BY <1>5, CommitFacts DEF Copies, CopyWithinLast, StoreWithinLast, CreateIsNew,
     InSync, Unwritten, TypeOK, CrudTypeOK, SameButAt, Creating
<1>6. CASE CallFails /\ UNCHANGED <<mappings, told, orphans>>
  BY <1>6, CallFailsFacts DEF Copies, CopyWithinLast, StoreWithinLast, CreateIsNew,
     InSync, Unwritten, CallOK, SameButAt, Creating
<1>7. CASE Request
  <2>1. /\ store \in maybe /\ \A s \in maybe : s.last \in Nat
        /\ \A id \in Ids : id \in Nat \ {0}
    BY DEF TypeOK, CrudTypeOK, Store, Ids
  <2> USE <2>1, <1>7 DEF Copies, CopyWithinLast, StoreWithinLast, Unwritten
  <2>2. CopyWithinLast'
    BY BeginFacts DEF Ids
  <2>3. StoreWithinLast'
    BY BeginFacts DEF Ids
  <2>4. CreateIsNew'
    BY BeginFacts DEF Ids, CreateIsNew, Creating
  <2>5. InSync'
    BY BeginFacts DEF Ids, InSync
  <2> QED
    BY <2>2, <2>3, <2>4, <2>5
<1>8. CASE Created \/ Updated \/ Removed
  BY <1>8, DoneFacts DEF Copies, CopyWithinLast, StoreWithinLast, CreateIsNew,
     InSync, Unwritten, CallOK, TypeOK, CrudTypeOK, Store, NoCall, Creating
<1>9. CASE RequestFailed
  BY <1>9, RequestFailedFacts DEF Copies, CopyWithinLast, StoreWithinLast,
     CreateIsNew, InSync, Unwritten, NoCall, Creating, CutShort
<1>10. CASE Restart
  <2>1. /\ store \in maybe /\ \A s \in maybe : s.last \in Nat
        /\ \A id \in Ids : id \in Nat \ {0}
    BY DEF TypeOK, CrudTypeOK, Store, Ids
  <2> USE <2>1, <1>10 DEF Copies, CopyWithinLast, StoreWithinLast, Unwritten
  <2>2. CopyWithinLast'
    BY RestartFacts, CutShortFacts DEF NoCall
  <2>3. StoreWithinLast'
    BY RestartFacts, CutShortFacts DEF NoCall
  <2>4. CreateIsNew'
    BY RestartFacts DEF NoCall, CreateIsNew, Creating
  <2>5. InSync'
    BY RestartFacts, CutShortFacts DEF NoCall, InSync
  <2> QED
    BY <2>2, <2>3, <2>4, <2>5
<1>11. CASE UNCHANGED vars
  BY <1>11 DEF vars, crudVars, Copies, CopyWithinLast, StoreWithinLast,
     CreateIsNew, InSync, Unwritten, Creating
<1> QED
  BY <1>1, <1>2, <1>3, <1>4, <1>5, <1>6, <1>7, <1>8, <1>9, <1>10, <1>11 DEF Next,
     CrudStep

(* Room *)

LEMMA StepMapped == TypeOK /\ CallOK /\ Mapped /\ [Next]_vars => Mapped'
<1> SUFFICES ASSUME TypeOK, CallOK, Mapped, [Next]_vars
             PROVE  Mapped'
  OBVIOUS
<1>1. CASE GetLast /\ UNCHANGED <<mappings, told, orphans>>
  BY <1>1, GetLastFacts DEF Mapped, SameButAt, CallOK, NoCall
<1>2. CASE SetBlob /\ UNCHANGED <<mappings, told, orphans>>
  BY <1>2, SetBlobFacts DEF Mapped, SameButAt, CallOK, NoCall
<1>3. CASE SetLast /\ UNCHANGED <<mappings, told, orphans>>
  BY <1>3, SetLastFacts DEF Mapped, SameButAt, CallOK, NoCall
<1>4. CASE EraseKey /\ UNCHANGED <<mappings, told, orphans>>
  BY <1>4, EraseKeyFacts DEF Mapped, SameButAt, CallOK, NoCall
<1>5. CASE Commit /\ UNCHANGED <<mappings, told, orphans>>
  BY <1>5, CommitFacts DEF Mapped, SameButAt, CallOK, NoCall
<1>6. CASE CallFails /\ UNCHANGED <<mappings, told, orphans>>
  BY <1>6, CallFailsFacts DEF Mapped, SameButAt, CallOK, NoCall
<1>7. CASE Request
  BY <1>7, BeginFacts DEF Mapped, SameButAt, CallOK, NoCall
<1>8. CASE Created \/ Updated \/ Removed
  BY <1>8, DoneFacts DEF Mapped, SameButAt, CallOK, NoCall
<1>9. CASE RequestFailed
  BY <1>9, RequestFailedFacts DEF Mapped, SameButAt, CallOK, NoCall
<1>10. CASE Restart
  BY <1>10, RestartFacts DEF Mapped, SameButAt, CallOK, NoCall
<1>11. CASE UNCHANGED vars
  BY <1>11 DEF vars, crudVars, Mapped, SameButAt, CallOK, NoCall
<1> QED
  BY <1>1, <1>2, <1>3, <1>4, <1>5, <1>6, <1>7, <1>8, <1>9, <1>10, <1>11 DEF Next,
     CrudStep

LEMMA UnionShrinks ==
    ASSUME NEW S \in SUBSET Ids, NEW T \in SUBSET Ids, T \subseteq S,
           Cardinality(S) <= MaxMappings
    PROVE  Cardinality(T) <= MaxMappings
<1>1. Cardinality(S) \in Nat /\ Cardinality(T) \in Nat /\ Cardinality(T) <= Cardinality(S)
  BY CardinalitySubset
<1> QED
  BY <1>1

LEMMA StepSurplus == TypeOK /\ CallOK /\ Room /\ [Next]_vars => Surplus'
<1> SUFFICES ASSUME TypeOK, CallOK, Room, [Next]_vars
             PROVE  Surplus'
  OBVIOUS
<1>1. CASE GetLast /\ UNCHANGED <<mappings, told, orphans>>
  BY <1>1, GetLastFacts DEF Room, Surplus, Creating
<1>2. CASE SetBlob /\ UNCHANGED <<mappings, told, orphans>>
  BY <1>2, SetBlobFacts DEF Room, Surplus, Mapped, Present, Creating, SameButAt,
     CallOK, NoCall
<1>3. CASE SetLast /\ UNCHANGED <<mappings, told, orphans>>
  BY <1>3, SetLastFacts DEF Room, Surplus, Creating, SameButAt
<1>4. CASE EraseKey /\ UNCHANGED <<mappings, told, orphans>>
  BY <1>4, EraseKeyFacts DEF Room, Surplus, Present, Creating, SameButAt
<1>5. CASE Commit /\ UNCHANGED <<mappings, told, orphans>>
  BY <1>5, CommitFacts DEF Room, Surplus, Creating, SameButAt
<1>6. CASE CallFails /\ UNCHANGED <<mappings, told, orphans>>
  BY <1>6, CallFailsFacts DEF Room, Surplus, Creating
<1>7. CASE Request
  BY <1>7, BeginFacts DEF Room, Surplus, Creating
<1>8. CASE Created \/ Updated \/ Removed
  BY <1>8, DoneFacts DEF Room, Surplus, Present, Creating, NoCall
<1>9. CASE RequestFailed
  BY <1>9, RequestFailedFacts DEF Room, Surplus, Creating, NoCall
<1>10. CASE Restart
  BY <1>10, RestartFacts DEF Surplus, Present
<1>11. CASE UNCHANGED vars
  BY <1>11 DEF vars, crudVars, Room, Surplus, Creating
<1> QED
  BY <1>1, <1>2, <1>3, <1>4, <1>5, <1>6, <1>7, <1>8, <1>9, <1>10, <1>11 DEF Next,
     CrudStep

LEMMA PresentIds == \A blobs : Present(blobs) \in SUBSET Ids
  BY DEF Present

LEMMA StepStoresFit == TypeOK /\ CallOK /\ Room /\ [Next]_vars => StoresFit'
<1> SUFFICES ASSUME TypeOK, CallOK, Room, [Next]_vars
             PROVE  StoresFit'
  OBVIOUS
<1>1. CASE GetLast /\ UNCHANGED <<mappings, told, orphans>>
  BY <1>1, GetLastFacts DEF Room, StoresFit
<1>2. CASE SetBlob /\ UNCHANGED <<mappings, told, orphans>>
  <2>1. maybe' = maybe \union {store'} /\ UNCHANGED <<faults, mappings>> /\ store \in maybe
    BY <1>2, SetBlobFacts DEF TypeOK, CrudTypeOK
  <2> SUFFICES ASSUME faults = 0
               PROVE  Cardinality(Present(store'.blobs) \union Present(mappings)) <= MaxMappings
    BY <2>1 DEF Room, StoresFit
  <2>2. CASE call.op = "create"
    <3>1. Cardinality(Present(mappings)) < MaxMappings /\ call.id = store.last + 1 /\ call.id \in Ids
      BY <1>2, <2>2, SetBlobFacts DEF Room, Mapped, CallOK
    <3>2. Present(store.blobs) \ Present(mappings) \subseteq {call.id}
      BY <1>2, <3>1, SetBlobFacts DEF Room, Surplus, Creating
    <3>3. Present(store'.blobs) \union Present(mappings) \subseteq Present(mappings) \union {call.id}
      BY <1>2, <3>2, SetBlobFacts DEF Present
    <3>4. /\ Cardinality(Present(store'.blobs) \union Present(mappings)) \in Nat
          /\ Cardinality(Present(mappings)) \in Nat
          /\ Cardinality(Present(store'.blobs) \union Present(mappings))
                <= Cardinality(Present(mappings)) + 1
      BY <3>1, <3>3, PresentIds, CardinalityAdd
    <3> QED
      BY <3>1, <3>4
  <2>3. CASE call.op = "update"
    <3>1. mappings[call.id] # NoData /\ call.id \in Ids
      BY <1>2, <2>3, SetBlobFacts DEF Room, Mapped
    <3>2. Present(store'.blobs) \union Present(mappings)
            \subseteq Present(store.blobs) \union Present(mappings)
      BY <1>2, <3>1, SetBlobFacts DEF Present
    <3>3. Cardinality(Present(store.blobs) \union Present(mappings)) <= MaxMappings
      BY <2>1 DEF Room, StoresFit
    <3> QED
      BY <3>2, <3>3, UnionShrinks, PresentIds
  <2> QED
    BY <1>2, <2>2, <2>3, SetBlobFacts
<1>3. CASE SetLast /\ UNCHANGED <<mappings, told, orphans>>
  <2>1. maybe' = maybe \union {store'} /\ UNCHANGED <<faults, mappings>> /\ store \in maybe
    BY <1>3, SetLastFacts DEF TypeOK, CrudTypeOK
  <2>2. Present(store'.blobs) \union Present(mappings)
          \subseteq Present(store.blobs) \union Present(mappings)
    BY <1>3, SetLastFacts DEF Present
  <2>3. Cardinality(Present(store.blobs) \union Present(mappings)) <= MaxMappings
        => Cardinality(Present(store'.blobs) \union Present(mappings)) <= MaxMappings
    BY <2>2, UnionShrinks, PresentIds
  <2> QED
    BY <2>1, <2>3 DEF Room, StoresFit
<1>4. CASE EraseKey /\ UNCHANGED <<mappings, told, orphans>>
  <2>1. maybe' = maybe \union {store'} /\ UNCHANGED <<faults, mappings>> /\ store \in maybe
    BY <1>4, EraseKeyFacts DEF TypeOK, CrudTypeOK
  <2>2. Present(store'.blobs) \union Present(mappings)
          \subseteq Present(store.blobs) \union Present(mappings)
    BY <1>4, EraseKeyFacts DEF Present
  <2>3. Cardinality(Present(store.blobs) \union Present(mappings)) <= MaxMappings
        => Cardinality(Present(store'.blobs) \union Present(mappings)) <= MaxMappings
    BY <2>2, UnionShrinks, PresentIds
  <2> QED
    BY <2>1, <2>3 DEF Room, StoresFit
<1>5. CASE Commit /\ UNCHANGED <<mappings, told, orphans>>
  BY <1>5, CommitFacts DEF Room, StoresFit, TypeOK, CrudTypeOK
<1>6. CASE CallFails /\ UNCHANGED <<mappings, told, orphans>>
  BY <1>6, CallFailsFacts DEF Room, StoresFit
<1>7. CASE Request
  BY <1>7, BeginFacts DEF Room, StoresFit
<1>8. CASE Created \/ Updated \/ Removed
  <2>1. /\ maybe' = {store} /\ UNCHANGED faults
        /\ Present(store.blobs) \union Present(mappings')
             \subseteq Present(store.blobs) \union Present(mappings)
    <3>1. \A k \in Ids : mappings'[k] # NoData => store.blobs[k] # NoData \/ mappings[k] # NoData
      BY <1>8, DoneFacts
    <3> QED
      BY <1>8, <3>1, DoneFacts DEF Present
  <2>2. faults = 0 => Cardinality(Present(store.blobs) \union Present(mappings)) <= MaxMappings
    BY DEF Room, StoresFit, TypeOK, CrudTypeOK
  <2>3. faults = 0 => Cardinality(Present(store.blobs) \union Present(mappings')) <= MaxMappings
    BY <2>1, <2>2, UnionShrinks, PresentIds
  <2> QED
    BY <2>1, <2>3 DEF StoresFit
<1>9. CASE RequestFailed
  BY <1>9, RequestFailedFacts DEF Room, StoresFit
<1>10. CASE Restart
  <2>1. /\ maybe' = {store'} /\ store' \in maybe /\ (faults' = 0 => faults = 0)
        /\ \A k \in Ids : mappings'[k] # NoData => mappings'[k] = store'.blobs[k]
    BY <1>10, RestartFacts
  <2>2. Present(store'.blobs) \union Present(mappings')
          \subseteq Present(store'.blobs) \union Present(mappings)
    BY <2>1 DEF Present
  <2>3. faults' = 0 => Cardinality(Present(store'.blobs) \union Present(mappings)) <= MaxMappings
    BY <2>1 DEF Room, StoresFit
  <2>4. faults' = 0 => Cardinality(Present(store'.blobs) \union Present(mappings')) <= MaxMappings
    BY <2>2, <2>3, UnionShrinks, PresentIds
  <2> QED
    BY <2>1, <2>4 DEF StoresFit
<1>11. CASE UNCHANGED vars
  BY <1>11 DEF vars, crudVars, Room, StoresFit
<1> QED
  BY <1>1, <1>2, <1>3, <1>4, <1>5, <1>6, <1>7, <1>8, <1>9, <1>10, <1>11 DEF Next,
     CrudStep

-----------------------------------------------------------------------------
(* The theorems *)

LEMMA InitIInv == Init => IInv
<1> SUFFICES ASSUME Init
             PROVE  IInv
  OBVIOUS
<1>1. /\ faults = 0 /\ store = EmptyStore /\ maybe = {EmptyStore} /\ call = NoCall
      /\ mappings = EmptyStore.blobs /\ told = [id \in Ids |-> {}] /\ orphans = {}
  BY DEF Init, CrudInit
<1>2. /\ EmptyStore \in Store /\ EmptyStore.last = 0
      /\ \A id \in Ids : EmptyStore.blobs[id] = NoData
  BY DEF EmptyStore, Store
<1>3. NoCall \in Calls /\ NoCall.op = "none" /\ NoCall.id = 0 /\ NoCall.at = "none"
  BY DEF NoCall, Calls
<1>4. Present(EmptyStore.blobs) = {} /\ Cardinality({}) = 0
  BY <1>2, FS_EmptySet DEF Present
<1>5. TypeOK
  <2>1. mappings \in [Ids -> Data \union {NoData}]
    BY <1>1 DEF EmptyStore
  <2>2. Cardinality(Present(mappings)) <= MaxMappings
    BY <1>1, <1>4
  <2> QED
    BY <1>1, <1>2, <1>3, <2>1, <2>2 DEF TypeOK, CrudTypeOK, Calls
<1>6. CallOK
  BY <1>1, <1>3 DEF CallOK
<1>7. Numbers /\ Durable
  BY <1>1, <1>3 DEF Numbers, Durable, DurableAcks, Given, Creating
<1>8. Copies
  BY <1>1, <1>2, <1>3 DEF Copies, CopyWithinLast, StoreWithinLast, CreateIsNew,
     InSync, Creating
<1>9. Room
  BY <1>1, <1>3, <1>4 DEF Room, Mapped, StoresFit, Surplus
<1> QED
  BY <1>5, <1>6, <1>7, <1>8, <1>9 DEF IInv

THEOREM Invariance == Spec => []IInv
<1>1. IInv /\ [Next]_vars => IInv'
  BY StepTypeOK, StepCallOK, StepNumbers, StepDurable, StepCopies, StepMapped,
     StepSurplus, StepStoresFit DEF IInv, Room
<1> QED
  BY <1>1, InitIInv, PTL DEF Spec

(* The copy never holds more mappings than MAX_MAPPINGS, whatever failures *)
(* and losses of power there are.                                          *)
THEOREM TypeCorrect == Spec => []TypeOK
<1>1. IInv => TypeOK
  BY DEF IInv
<1> QED
  BY <1>1, Invariance, PTL

(* create never gives a number again that a client was told, for any flash *)
(* that keeps the order of its writes.                                     *)
THEOREM NumbersAreFresh == Spec => []FreshIds
<1>1. IInv => FreshIds
  BY DEF IInv, Numbers, Creating, FreshIds
<1> QED
  BY <1>1, Invariance, PTL

(* Whatever a client was told of a mapping, a restart finds it, however    *)
(* many operations fail or are cut short before it.                        *)
THEOREM AcksAreDurable == Spec => []DurableAcks
<1>1. IInv => DurableAcks
  BY DEF IInv, Durable
<1> QED
  BY <1>1, Invariance, PTL

(* Between requests the copy in RAM is the store, but for the numbers of   *)
(* creates that were cut short.                                            *)
THEOREM CopyIsStore == Spec => []CopyMatchesStore
<1>1. IInv => CopyMatchesStore
  BY DEF IInv, CallOK, Copies, InSync, Unwritten, CopyMatchesStore, Idle, Ids
<1> QED
  BY <1>1, Invariance, PTL

(* The store never holds more records than the constructor has room for,   *)
(* although only the copy is counted when a mapping is created.            *)
THEOREM RestartFits == Spec => []RestartHasRoom
<1>1. IInv => RestartHasRoom
  <2> SUFFICES ASSUME IInv, faults = 0, NEW s \in maybe
               PROVE  Cardinality(Present(s.blobs)) <= MaxMappings
    BY DEF RestartHasRoom
  <2>1. Cardinality(Present(s.blobs) \union Present(mappings)) <= MaxMappings
    BY DEF IInv, Room, StoresFit
  <2> QED
    BY <2>1, UnionShrinks, PresentIds
<1> QED
  BY <1>1, Invariance, PTL
=============================================================================
