--------------------------- MODULE MappingManager ---------------------------
(***************************************************************************)
(* midi::MappingManager, components/midi_mapping/include/midi_mapping.h,   *)
(* as MainThread::handle_message (main/include/main_thread.h) uses it: the *)
(* MIDI mappings, kept in an EspCrud and copied to RAM.  Clients see the   *)
(* copy, and the numbers create gives are how they name a mapping.         *)
(*                                                                         *)
(* Requests are handled one at a time by the main task.                    *)
(***************************************************************************)
EXTENDS EspCrud

CONSTANT MaxMappings    \* MAX_MAPPINGS

ASSUME MaxMappingsAssumption == MaxMappings \in Nat \ {0}

VARIABLES
    mappings,   \* the copy in RAM
    told,       \* history: what the store may hold for each number that a
                \* client was given by a CreateResponse
    orphans     \* history: numbers of creates that were cut short

vars == <<crudVars, mappings, told, orphans>>

TypeOK ==
    /\ CrudTypeOK
    /\ mappings \in [Ids -> Data \union {NoData}]
    /\ Cardinality(Present(mappings)) <= MaxMappings
    /\ told \in [Ids -> SUBSET (Data \union {NoData})]
    /\ orphans \subseteq 0 .. MaxId

Init ==
    /\ CrudInit
    /\ mappings = EmptyStore.blobs
    /\ told = [id \in Ids |-> {}]
    /\ orphans = {}

Given(id) == told[id] # {}

(* While an operation on id is under way its client knows neither result.  *)
MayBecome(id, data) ==
    told' = IF Given(id) THEN [told EXCEPT ![id] = @ \union {data}] ELSE told

-----------------------------------------------------------------------------
(* Variants of the steps below, each with a plausible mistake.  They are   *)
(* not part of the specification; the properties tell them apart.          *)

(* A mapping is created although the map is full. *)
CreateRequestUnchecked(data) ==
    /\ Idle
    /\ store.last < MaxId
    /\ BeginCreate(data)
    /\ UNCHANGED <<faults, store, maybe, mappings, told, orphans>>

(* The copy is updated by an insert alone, which keeps the old entry. *)
UpdatedByInsert ==
    /\ call.op = "update" /\ call.at = "ok"
    /\ mappings' = [mappings EXCEPT ![call.id] = IF @ = NoData THEN call.data ELSE @]
    /\ told' = [told EXCEPT ![call.id] = IF @ = {} THEN @ ELSE {call.data}]
    /\ call' = NoCall
    /\ UNCHANGED <<faults, store, maybe, orphans>>

-----------------------------------------------------------------------------
CreateRequest(data) ==
    /\ Idle
    /\ Cardinality(Present(mappings)) < MaxMappings
    /\ store.last < MaxId
    /\ BeginCreate(data)
    /\ UNCHANGED <<faults, store, maybe, mappings, told, orphans>>

(* mappings.insert does nothing if the number is there already.  The       *)
(* client is sent a CreateResponse.                                        *)
Created ==
    /\ call.op = "create" /\ call.at = "ok"
    /\ mappings' = [mappings EXCEPT ![call.id] = IF @ = NoData THEN call.data ELSE @]
    /\ told' = [told EXCEPT ![call.id] = {call.data}]
    /\ call' = NoCall
    /\ UNCHANGED <<faults, store, maybe, orphans>>

UpdateRequest(id, data) ==
    /\ Idle
    /\ mappings[id] # NoData
    /\ BeginUpdate(id, data)
    /\ MayBecome(id, data)
    /\ UNCHANGED <<faults, store, maybe, mappings, orphans>>

Updated ==
    /\ call.op = "update" /\ call.at = "ok"
    /\ mappings' = [mappings EXCEPT ![call.id] = call.data]
    /\ told' = [told EXCEPT ![call.id] = IF @ = {} THEN @ ELSE {call.data}]
    /\ call' = NoCall
    /\ UNCHANGED <<faults, store, maybe, orphans>>

RemoveRequest(id) ==
    /\ Idle
    /\ BeginDestroy(id)
    /\ MayBecome(id, NoData)
    /\ UNCHANGED <<faults, store, maybe, mappings, orphans>>

Removed ==
    /\ call.op = "destroy" /\ call.at = "ok"
    /\ mappings' = [mappings EXCEPT ![call.id] = NoData]
    /\ told' = [told EXCEPT ![call.id] = IF @ = {} THEN @ ELSE {NoData}]
    /\ call' = NoCall
    /\ UNCHANGED <<faults, store, maybe, orphans>>

CutShort == IF call.op = "create" THEN orphans \union {call.id} ELSE orphans

(* The manager returns -1 and leaves the copy alone; nobody is told.       *)
RequestFailed ==
    /\ call.at = "failed"
    /\ call' = NoCall
    /\ orphans' = CutShort
    /\ UNCHANGED <<faults, store, maybe, mappings, told>>

(* The constructor copies the records it can read.  With more of them than *)
(* the map has room for it would abort, at this and at every later start.  *)
Restart ==
    /\ \E unread \in SUBSET Ids :
          /\ CrudRestart(unread)
          /\ mappings' = [id \in Ids |-> IF id \in unread THEN NoData
                                                          ELSE store'.blobs[id]]
    /\ Cardinality(Present(mappings')) <= MaxMappings
    /\ orphans' = CutShort
    /\ UNCHANGED told

-----------------------------------------------------------------------------
Request ==
    \/ \E data \in Data : CreateRequest(data)
    \/ \E id \in Ids, data \in Data : UpdateRequest(id, data)
    \/ \E id \in Ids : RemoveRequest(id)

Next ==
    \/ Request
    \/ CrudStep /\ UNCHANGED <<mappings, told, orphans>>
    \/ Created \/ Updated \/ Removed \/ RequestFailed
    \/ Restart

Spec == Init /\ [][Next]_vars

-----------------------------------------------------------------------------
(* Properties *)

(* A number that a client was given is never given again, also after       *)
(* failed writes and losses of power: an Update or Remove of a client that *)
(* has not heard of a removal never reaches another mapping.               *)
FreshIds == call.op = "create" /\ call.at = "ok" => ~Given(call.id)

(* What a client was told is what a restart finds: a mapping created or    *)
(* updated is there, a mapping removed does not come back, and only an     *)
(* operation that was cut short or failed may have either result.          *)
DurableAcks ==
    \A id \in Ids : Given(id) => \A s \in maybe : s.blobs[id] \in told[id]

(* Between requests the copy in RAM is the store, for every number that no *)
(* create was cut short for.                                               *)
CopyMatchesStore ==
    faults = 0 /\ Idle =>
        \A id \in Ids \ orphans : mappings[id] = store.blobs[id]

(* Only the copy is counted when a mapping is created.  Still the store    *)
(* never holds more records than a restart has room for, whatever creates  *)
(* were cut short.                                                         *)
RestartHasRoom ==
    faults = 0 => \A s \in maybe : Cardinality(Present(s.blobs)) <= MaxMappings

(* midi_mapping.proto, CreateResponse: "Indicates that a new MIDI mapping  *)
(* was created successfully".  Between requests clients that ask for the   *)
(* mappings are shown what was created.                                    *)
CreatedIsShown ==
    faults = 0 /\ Idle =>
        \A id \in Ids : Given(id) => mappings[id] \in told[id]
=============================================================================
