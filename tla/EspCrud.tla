------------------------------ MODULE EspCrud ------------------------------
(***************************************************************************)
(* persistence::EspCrud, components/esp_persistence/include/esp_crud.h:    *)
(* records with numbers given by create, kept in a namespace of the NVS    *)
(* partition.  Each operation is a sequence of NVS calls; the power may be *)
(* lost between any two of them, and any of them may fail.                 *)
(*                                                                         *)
(* The namespace is external: what is written is certain to survive a loss *)
(* of power only from the next nvs_commit on, and earlier writes survive   *)
(* when a later one does.                                                  *)
(***************************************************************************)
EXTENDS Naturals, FiniteSets

CONSTANTS
    Data,       \* contents of a record
    NoData,     \* no record
    MaxId,      \* bound: largest number create gives in a behaviour
    MaxFaults   \* bound: faults of the flash in a behaviour

ASSUME CrudAssumption ==
    /\ MaxId \in Nat
    /\ MaxFaults \in Nat
    /\ NoData \notin Data

Ids == 1 .. MaxId

Store == [blobs : [Ids -> Data \union {NoData}], last : 0 .. MaxId]

VARIABLES
    faults,     \* NVS calls that failed for another reason than a full
                \* partition or a record that is not there
    store,      \* the namespace as the program reads it: records, and the
                \* value of last_id_name, 0 if it has none
    maybe,      \* what a loss of power may leave
    call        \* the operation under way

crudVars == <<faults, store, maybe, call>>

NoCall == [op |-> "none", id |-> 0, data |-> NoData, at |-> "none"]

CrudTypeOK ==
    /\ faults \in 0 .. MaxFaults
    /\ store \in Store
    /\ maybe \subseteq Store
    /\ store \in maybe
    /\ call \in [op : {"none", "create", "update", "destroy"},
                 id : 0 .. MaxId,
                 data : Data \union {NoData},
                 at : {"none", "getLast", "setBlob", "setLast", "erase",
                       "commit", "ok", "failed"}]

EmptyStore == [blobs |-> [id \in Ids |-> NoData], last |-> 0]

CrudInit ==
    /\ faults = 0
    /\ store = EmptyStore
    /\ maybe = {EmptyStore}
    /\ call = NoCall

Idle == call.op = "none"

(* The numbers of the records in a store or in a copy of one. *)
Present(blobs) == {id \in Ids : blobs[id] # NoData}

-----------------------------------------------------------------------------
BeginCreate(data) ==
    call' = [op |-> "create", id |-> 0, data |-> data, at |-> "getLast"]

BeginUpdate(id, data) ==
    call' = [op |-> "update", id |-> id, data |-> data, at |-> "setBlob"]

BeginDestroy(id) ==
    call' = [op |-> "destroy", id |-> id, data |-> NoData, at |-> "erase"]

Goto(at) == call' = [call EXCEPT !.at = at]

(* store, with data for the record id *)
WithBlob(id, data) ==
    [blobs |-> [store.blobs EXCEPT ![id] = data], last |-> store.last]

Write(s) ==
    /\ store' = s
    /\ maybe' = maybe \union {s}

-----------------------------------------------------------------------------
(* Variants of the steps below, each with a plausible mistake.  They are   *)
(* not part of the specification; the properties tell them apart.          *)

(* create does not save the number it has given. *)
SetLastForgotten ==
    /\ call.at = "setLast"
    /\ Goto("commit")
    /\ UNCHANGED <<faults, store, maybe>>

(* An operation ends well without committing what it wrote. *)
CommitForgotten ==
    /\ call.at = "commit"
    /\ Goto("ok")
    /\ UNCHANGED <<faults, store, maybe>>

-----------------------------------------------------------------------------
GetLast ==
    /\ call.at = "getLast"
    /\ call' = [op |-> call.op, id |-> store.last + 1, data |-> call.data, at |-> "setBlob"]
    /\ UNCHANGED <<faults, store, maybe>>

SetBlob ==
    /\ call.at = "setBlob"
    /\ Write(WithBlob(call.id, call.data))
    /\ Goto(IF call.op = "create" THEN "setLast" ELSE "commit")
    /\ UNCHANGED faults

SetLast ==
    /\ call.at = "setLast"
    /\ Write([store EXCEPT !.last = call.id])
    /\ Goto("commit")
    /\ UNCHANGED faults

EraseKey ==
    /\ call.at = "erase"
    /\ store.blobs[call.id] # NoData
    /\ Write(WithBlob(call.id, NoData))
    /\ Goto("commit")
    /\ UNCHANGED faults

Commit ==
    /\ call.at = "commit"
    /\ maybe' = {store}
    /\ Goto("ok")
    /\ UNCHANGED <<faults, store>>

Fault == faults < MaxFaults /\ faults' = faults + 1

(* A call fails and the operation returns -1, with no attempt to undo what *)
(* the earlier calls wrote.                                                *)
CallFails ==
    /\ \/ call.at \in {"setBlob", "setLast"} /\ UNCHANGED faults
       \/ call.at = "erase" /\ store.blobs[call.id] = NoData /\ UNCHANGED faults
       \/ call.at \in {"getLast", "erase", "commit"} /\ Fault
    /\ Goto("failed")
    /\ UNCHANGED <<store, maybe>>

CrudStep == GetLast \/ SetBlob \/ SetLast \/ EraseKey \/ Commit \/ CallFails

(* The power is lost, and the program starts again.  It reads the records  *)
(* but those in unread.                                                    *)
CrudRestart(unread) ==
    /\ store' \in maybe
    /\ maybe' = {store'}
    /\ call' = NoCall
    /\ unread \subseteq Present(store'.blobs)
    /\ IF unread = {} THEN UNCHANGED faults ELSE Fault
=============================================================================
