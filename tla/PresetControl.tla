--------------------------- MODULE PresetControl ---------------------------
(***************************************************************************)
(* Presets, the selected preset and the live parameters: the main task's   *)
(* handlers (main_thread.h, preset_manager.cpp, selected_preset_manager.cpp*)
(* cmd_handling.h, preset_serialisation.h) and the copies that the clients *)
(* show (frontend/lib: presets_repository.dart, presets_service.dart,      *)
(* selected_preset_repository.dart, parameter.dart).                       *)
(*                                                                         *)
(* Each client has an ordered connection to and from the main task, which  *)
(* the ServerLink module looks into; here nothing is lost while it lasts.  *)
(* Numbers survive encoding (ApiExchange), and what the parameters are     *)
(* after a restart is the business of ParameterStore.                      *)
(***************************************************************************)
EXTENDS Naturals, FiniteSets, SequencesExt

CONSTANTS
    Clients,
    Params,     \* parameters
    Values,     \* their values
    Names,      \* names of presets
    Starts,     \* bound: parameters that the firmware may start with
    Stored,     \* bound: parameters of the preset that it may start with
    MaxId,      \* bound: largest number of a preset
    MaxActs,    \* bound: acts of users, of MIDI controllers and of the network
    MaxFaults   \* bound: operations of the flash that fail

ASSUME ControlAssumption ==
    /\ MaxId \in Nat \ {0}
    /\ MaxActs \in Nat
    /\ MaxFaults \in Nat
    /\ IsFiniteSet(Params)
    /\ "none" \notin Names
    /\ Starts \subseteq [Params -> Values]

ASSUME StoredAssumption == Stored \subseteq [Params -> Values]

Ids == 1 .. MaxId
Settings == [Params -> Values]
Presets == [name : Names, parameters : Settings]
NoPreset == [name |-> "none"]
NoId == 0
NoMessage == [type |-> "none"]

Update(p, v) == [type |-> "update", id |-> p, value |-> v]
Write(id) == [type |-> "write", id |-> id]
Save(id, preset) == [type |-> "save", id |-> id, preset |-> preset]
Notify(id, preset) == [type |-> "notify", id |-> id, preset |-> preset]
Selected(id) == [type |-> "selected", id |-> id]

ClientMessages ==
    [type : {"parameters", "presets", "read"}]
    \union [type : {"update"}, id : Params, value : Values]
    \union [type : {"create"}, preset : Presets]
    \union [type : {"save"}, id : Ids, preset : Presets]
    \union [type : {"remove", "write"}, id : Ids]

FirmwareMessages ==
    [type : {"update"}, id : Params, value : Values]
    \union [type : {"notify"}, id : Ids, preset : Presets]
    \union [type : {"selected"}, id : Ids]

VARIABLES
    live,       \* audio_params
    store,      \* the records of presets_manager
    last,       \* the number that was given to the last of them
    selected,   \* what selected_preset_manager has stored, NoId if nothing
    connected,  \* clients with a websocket
    up, down,   \* messages on the way from and to each client
    pending,    \* the message that waits in each client's throttle
    knobs,      \* the parameters that each client shows
    copies,     \* the presets that each client shows
    shown,      \* the selected preset that each client shows
    creating,   \* the name of the preset that each client waits for
    acts, faults,
    doubt,      \* history: parameters that a client may show wrongly
    unheard     \* history: records that each client has no message of, since
                \* the flash failed, and NoId if it has none of the selection

firmware == <<live, store, last, selected>>
clients == <<pending, knobs, copies, shown, creating>>
history == <<doubt, unheard>>
vars == <<firmware, connected, up, down, clients, acts, faults, history>>

TypeOK ==
    /\ live \in Settings
    /\ store \in [Ids -> Presets \union {NoPreset}]
    /\ last \in 0 .. MaxId
    /\ selected \in Ids \union {NoId}
    /\ connected \subseteq Clients
    /\ up \in [Clients -> Seq(ClientMessages)]
    /\ down \in [Clients -> Seq(FirmwareMessages)]
    /\ pending \in [Clients -> ClientMessages \union {NoMessage}]
    /\ knobs \in [Clients -> Settings]
    /\ copies \in [Clients -> [Ids -> Presets \union {NoPreset}]]
    /\ shown \in [Clients -> Ids \union {NoId}]
    /\ creating \in [Clients -> Names \union {"none"}]
    /\ acts \in 0 .. MaxActs
    /\ faults \in 0 .. MaxFaults
    /\ doubt \in [Clients -> SUBSET Params]
    /\ unheard \in [Clients -> SUBSET (Ids \union {NoId})]

(* A firmware with or without a preset, and clients that have been told    *)
(* everything: what Connect leads to, when nothing else happens.          *)
Init ==
    /\ live \in Starts
    /\ \/ store = [id \in Ids |-> NoPreset] /\ last = 0 /\ selected = NoId
       \/ \E preset \in [name : Names, parameters : Stored] :
            /\ store = [id \in Ids |-> IF id = 1 THEN preset ELSE NoPreset]
            /\ last = 1
            /\ selected \in {NoId, 1}
    /\ connected = Clients
    /\ up = [c \in Clients |-> <<>>]
    /\ down = [c \in Clients |-> <<>>]
    /\ pending = [c \in Clients |-> NoMessage]
    /\ knobs = [c \in Clients |-> live]
    /\ copies = [c \in Clients |-> store]
    /\ shown = [c \in Clients |-> selected]
    /\ creating = [c \in Clients |-> "none"]
    /\ acts = 0
    /\ faults = 0
    /\ doubt = [c \in Clients |-> {}]
    /\ unheard = [c \in Clients |-> {}]

-----------------------------------------------------------------------------
(* The network *)

(* What a client sends while it is not connected goes nowhere.             *)
ClientSends(c, messages) ==
    up' = IF c \in connected THEN [up EXCEPT ![c] = @ \o messages] ELSE up

(* Whether a change of p that c's user has made is on its way.             *)
OnItsWay(c, p) ==
    \E m \in {up[c][i] : i \in DOMAIN up[c]} \union {pending[c]} :
        m.type = "update" /\ m.id = p

(* The messages go to every client but their source.  A client that hears  *)
(* of a parameter while its own change is on its way shows what it hears.  *)
Broadcast(messages, source) ==
    LET to == connected \ source
        told == {m.id : m \in {messages[i] : i \in
                    {j \in DOMAIN messages : messages[j].type = "update"}}}
    IN /\ down' = [c \in Clients |-> IF c \in to THEN down[c] \o messages ELSE down[c]]
       /\ doubt' = [c \in Clients |->
            IF c \in to
            THEN (doubt[c] \ told) \union {p \in told : OnItsWay(c, p)}
            ELSE doubt[c]]

Everyone == {}

Quietly == UNCHANGED <<down, doubt>>

(* _connect of robust_websocket.dart, and what each service does when it   *)
(* hears of the connection.                                                *)
Connect(c) ==
    /\ c \notin connected
    /\ connected' = connected \union {c}
    /\ up' = [up EXCEPT ![c] = <<[type |-> "presets"], [type |-> "read"]>>]
    /\ pending' = [pending EXCEPT ![c] = [type |-> "parameters"]]
    /\ doubt' = [doubt EXCEPT ![c] = Params]
    /\ UNCHANGED <<firmware, down, knobs, copies, shown, creating, acts, faults, unheard>>

Act == acts < MaxActs /\ acts' = acts + 1

(* Bound: a disconnection or a restart counts for two acts.                *)
Outage == acts + 1 < MaxActs /\ acts' = acts + 2

Disconnect(c) ==
    /\ Outage
    /\ c \in connected
    /\ connected' = connected \ {c}
    /\ up' = [up EXCEPT ![c] = <<>>]
    /\ down' = [down EXCEPT ![c] = <<>>]
    /\ unheard' = [unheard EXCEPT ![c] = {}]
    /\ UNCHANGED <<firmware, clients, faults, doubt>>

(* The power comes back, with the parameters that have been saved.         *)
Restart ==
    /\ Outage
    /\ live' \in Starts
    /\ connected' = {}
    /\ up' = [c \in Clients |-> <<>>]
    /\ down' = [c \in Clients |-> <<>>]
    /\ unheard' = [c \in Clients |-> {}]
    /\ UNCHANGED <<store, last, selected, clients, faults, doubt>>

-----------------------------------------------------------------------------
(* The main task *)

Fails == faults < MaxFaults /\ faults' = faults + 1
Works == UNCHANGED faults

(* The connected clients are told of something, or nobody is.  The others  *)
(* ask for everything when they connect.                                   *)
Heard(what) == unheard' = [c \in Clients |-> unheard[c] \ what]

Missed(what) ==
    unheard' = [c \in Clients |-> IF c \in connected THEN unheard[c] \union what ELSE {}]

(* One message for each parameter                                          *)
Updates(settings) ==
    LET order == SetToSeq(Params)
    IN [i \in DOMAIN order |-> Update(order[i], settings[order[i]])]

(* Whether the selection could be saved is not looked at.                  *)
LoadUnchecked(id) ==
    /\ store[id] # NoPreset
    /\ \/ Works /\ selected' = id
       \/ Fails /\ UNCHANGED selected
    /\ Heard({NoId})
    /\ live' = store[id].parameters
    /\ Broadcast(Updates(store[id].parameters) \o <<Selected(id)>>, Everyone)

(* PresetLoader::load_preset                                               *)
Load(id) ==
    \/ (* the selection cannot be saved, or only without its return code *)
       /\ Fails
       /\ \/ UNCHANGED <<selected, unheard>>
          \/ selected' = id /\ Missed({NoId})
       /\ Quietly
       /\ UNCHANGED live
    \/ (* the preset cannot be read *)
       /\ \/ Works /\ store[id] = NoPreset
          \/ Fails
       /\ selected' = id
       /\ Missed({NoId})
       /\ Quietly
       /\ UNCHANGED live
    \/ /\ Works
       /\ store[id] # NoPreset
       /\ selected' = id
       /\ Heard({NoId})
       /\ live' = store[id].parameters
       /\ Broadcast(Updates(store[id].parameters) \o <<Selected(id)>>, Everyone)

Records == UNCHANGED <<store, last>>

(* PresetsManager::create, and its notification                            *)
CreatePreset(preset) ==
    LET id == last + 1
    IN /\ id \in Ids
       /\ \/ /\ Works
             /\ store' = [store EXCEPT ![id] = preset]
             /\ last' = id
             /\ Heard({id})
             /\ Broadcast(<<Notify(id, preset)>>, Everyone)
          \/ /\ Fails
             /\ \/ UNCHANGED <<store, last, unheard>>
                \/ /\ store' = [store EXCEPT ![id] = preset]
                   /\ Missed({id})
                   /\ last' \in {last, id}
             /\ Quietly
       /\ UNCHANGED <<live, selected>>

(* The sender is left out.                                                 *)
UpdatePresetVariant(id, preset) ==
    /\ \/ /\ Works
          /\ store' = [store EXCEPT ![id] = preset]
          /\ Heard({id})
          /\ \E c \in Clients : Broadcast(<<Notify(id, preset)>>, {c})
       \/ /\ Fails
          /\ store' \in {store, [store EXCEPT ![id] = preset]}
          /\ Missed({id})
          /\ Quietly
    /\ UNCHANGED <<live, selected, last>>

(* PresetsManager::update, which does not ask whether the record exists    *)
UpdatePreset(id, preset) ==
    /\ \/ /\ Works
          /\ store' = [store EXCEPT ![id] = preset]
          /\ Heard({id})
          /\ Broadcast(<<Notify(id, preset)>>, Everyone)
       \/ /\ Fails
          /\ store' \in {store, [store EXCEPT ![id] = preset]}
          /\ Missed({id})
          /\ Quietly
    /\ UNCHANGED <<live, selected, last>>

(* PresetsManager::destroy: only the client that asked knows of it         *)
RemovePreset(id) ==
    /\ \/ Works /\ store' = [store EXCEPT ![id] = NoPreset] /\ UNCHANGED unheard
       \/ /\ Fails
          /\ store' \in {store, [store EXCEPT ![id] = NoPreset]}
          /\ Missed({id})
    /\ Quietly
    /\ UNCHANGED <<live, selected, last>>

(* The records that for_each can read and decode, in its order, which is   *)
(* that of the flash; the others are skipped without a word to c, who asks *)
TellPresets(c) ==
    LET stored == {id \in Ids : store[id] # NoPreset}
    IN \E unread \in SUBSET stored :
          /\ IF unread = {} THEN Works ELSE Fails
          /\ \E order \in SetToSeqs(stored \ unread) :
               LET notices == [i \in DOMAIN order |-> Notify(order[i], store[order[i]])]
               IN Broadcast(notices, Everyone)
          /\ unheard' = [d \in Clients |->
                (unheard[d] \ (stored \ unread)) \union (IF d = c THEN unread ELSE {})]
          /\ UNCHANGED firmware

(* The result of the read is not looked at.                                *)
TellSelectedVariant(c) ==
    /\ Broadcast(<<Selected(selected)>>, Everyone)
    /\ Works
    /\ UNCHANGED <<firmware, unheard>>

(* Nothing is sent to c, who asks, if the selection cannot be read.        *)
TellSelected(c) ==
    /\ \/ Works /\ selected = NoId /\ Quietly /\ UNCHANGED unheard
       \/ /\ Works
          /\ selected # NoId
          /\ Heard({NoId})
          /\ Broadcast(<<Selected(selected)>>, Everyone)
       \/ /\ Fails
          /\ selected # NoId
          /\ Quietly
          /\ unheard' = [unheard EXCEPT ![c] = @ \union {NoId}]
    /\ UNCHANGED firmware

(* CommandHandling::initialise_parameters                                  *)
TellParameters ==
    /\ Broadcast(Updates(live), Everyone)
    /\ Works
    /\ UNCHANGED <<firmware, unheard>>

(* The message is sent before the value is stored, and has the old one.    *)
SetParameterVariant(p, v, source) ==
    /\ live' = [live EXCEPT ![p] = v]
    /\ Broadcast(<<Update(p, live[p])>>, source)
    /\ Works
    /\ UNCHANGED <<store, last, selected, unheard>>

(* CommandHandling::parameter_update and ParameterUpdateNotifier::update   *)
SetParameter(p, v, source) ==
    /\ live' = [live EXCEPT ![p] = v]
    /\ Broadcast(<<Update(p, v)>>, source)
    /\ Works
    /\ UNCHANGED <<store, last, selected, unheard>>

(* MainThread::handle_message                                              *)
Handle(c) ==
    /\ up[c] # <<>>
    /\ up' = [up EXCEPT ![c] = Tail(@)]
    /\ LET m == Head(up[c])
       IN \/ m.type = "parameters" /\ TellParameters
          \/ m.type = "update" /\ SetParameter(m.id, m.value, {c})
          \/ m.type = "presets" /\ TellPresets(c)
          \/ m.type = "create" /\ CreatePreset(m.preset)
          \/ m.type = "save" /\ UpdatePreset(m.id, m.preset)
          \/ m.type = "remove" /\ RemovePreset(m.id)
          \/ m.type = "read" /\ TellSelected(c)
          \/ m.type = "write" /\ Load(m.id) /\ Records
    /\ UNCHANGED <<connected, clients, acts>>

(* MIDI controllers turn parameters and load presets that a button has     *)
(* been mapped to.                                                         *)
MidiSets(p, v) ==
    /\ Act
    /\ SetParameter(p, v, Everyone)
    /\ UNCHANGED <<connected, up, clients>>

MidiLoads(id) ==
    /\ Act
    /\ id <= last
    /\ Load(id)
    /\ Records
    /\ UNCHANGED <<connected, up, clients>>

-----------------------------------------------------------------------------
(* Clients *)

(* A message arrives: setValue, _handleNotification with the rest of       *)
(* create, the stream of the selection.                                    *)
Receive(c) ==
    /\ down[c] # <<>>
    /\ down' = [down EXCEPT ![c] = Tail(@)]
    /\ LET m == Head(down[c])
       IN \/ /\ m.type = "update"
             /\ knobs' = [knobs EXCEPT ![c][m.id] = m.value]
             /\ UNCHANGED <<up, copies, shown, creating>>
          \/ /\ m.type = "notify"
             /\ copies' = [copies EXCEPT ![c][m.id] = m.preset]
             /\ IF creating[c] = m.preset.name
                THEN /\ creating' = [creating EXCEPT ![c] = "none"]
                     /\ ClientSends(c, <<Write(m.id)>>)
                ELSE UNCHANGED <<up, creating>>
             /\ UNCHANGED <<knobs, shown>>
          \/ /\ m.type = "selected"
             /\ shown' = [shown EXCEPT ![c] = m.id]
             /\ UNCHANGED <<up, knobs, copies, creating>>
    /\ UNCHANGED <<firmware, connected, pending, acts, faults, history>>

(* onUserChanged.  The throttle keeps one message, the latest.             *)
Turn(c, p, v) ==
    /\ Act
    /\ knobs[c][p] # v
    /\ knobs' = [knobs EXCEPT ![c][p] = v]
    /\ pending' = [pending EXCEPT ![c] = Update(p, v)]
    /\ LET overwritten == IF pending[c].type = "update" THEN {pending[c].id} ELSE {}
           coming == {down[c][i].id : i \in
                        {j \in DOMAIN down[c] : down[c][j].type = "update"}}
       IN doubt' = [doubt EXCEPT ![c] =
                        ((@ \union overwritten) \ {p}) \union ({p} \intersect coming)]
    /\ UNCHANGED <<firmware, connected, up, down, copies, shown, creating, faults, unheard>>

Throttle(c) ==
    /\ pending[c] # NoMessage
    /\ ClientSends(c, <<pending[c]>>)
    /\ pending' = [pending EXCEPT ![c] = NoMessage]
    /\ UNCHANGED <<firmware, connected, down, knobs, copies, shown, creating,
                   acts, faults, history>>

Create(c, name) ==
    /\ Act
    /\ creating[c] = "none"
    /\ creating' = [creating EXCEPT ![c] = name]
    /\ ClientSends(c, <<[type |-> "create",
                         preset |-> [name |-> name, parameters |-> knobs[c]]]>>)
    /\ UNCHANGED <<firmware, connected, down, pending, knobs, copies, shown, faults, history>>

CreateTimeout(c) ==
    /\ creating[c] # "none"
    /\ creating' = [creating EXCEPT ![c] = "none"]
    /\ UNCHANGED <<firmware, connected, up, down, pending, knobs, copies, shown,
                   acts, faults, history>>

Select(c, id) ==
    /\ Act
    /\ copies[c][id] # NoPreset
    /\ ClientSends(c, <<Write(id)>>)
    /\ UNCHANGED <<firmware, connected, down, clients, faults, history>>

Delete(c, id) ==
    /\ Act
    /\ copies[c][id] # NoPreset
    /\ copies' = [copies EXCEPT ![c][id] = NoPreset]
    /\ ClientSends(c, <<[type |-> "remove", id |-> id]>>)
    /\ UNCHANGED <<firmware, connected, down, pending, knobs, shown, creating, faults, history>>

SaveChanges(c) ==
    /\ Act
    /\ shown[c] # NoId
    /\ copies[c][shown[c]] # NoPreset
    /\ LET preset == [copies[c][shown[c]] EXCEPT !.parameters = knobs[c]]
       IN /\ copies' = [copies EXCEPT ![c][shown[c]] = preset]
          /\ ClientSends(c, <<Save(shown[c], preset)>>)
    /\ UNCHANGED <<firmware, connected, down, pending, knobs, shown, creating, faults, history>>

-----------------------------------------------------------------------------
UserActs(c) ==
    \/ \E p \in Params, v \in Values : Turn(c, p, v)
    \/ \E name \in Names : Create(c, name)
    \/ \E id \in Ids : Select(c, id) \/ Delete(c, id)
    \/ SaveChanges(c)

Next ==
    \/ \E c \in Clients :
          \/ Connect(c) \/ Disconnect(c)
          \/ Handle(c) \/ Receive(c)
          \/ UserActs(c) \/ Throttle(c) \/ CreateTimeout(c)
    \/ \E p \in Params, v \in Values : MidiSets(p, v)
    \/ \E id \in Ids : MidiLoads(id)
    \/ Restart

Spec == Init /\ [][Next]_vars

-----------------------------------------------------------------------------
(* Properties *)

(* Nothing is on its way to or from anybody.                               *)
Quiet == \A c \in Clients : up[c] = <<>> /\ down[c] = <<>> /\ pending[c] = NoMessage

(* When nothing is on its way, every connected client shows each preset as *)
(* it is stored, whoever created, saved, deleted or brought it back last,  *)
(* in whatever order, before or after a loss of connection or power; save  *)
(* where an operation of the flash has failed, of which the client does    *)
(* not hear until the next message about that preset, or where the record  *)
(* could not be read when this client asked (PresetsRepository's           *)
(* optimistic copies, handle_message's Notify, for_each).                  *)
PresetsAgree ==
    Quiet => \A c \in connected : \A id \in Ids \ unheard[c] :
                store[id] # NoPreset => copies[c][id] = store[id]

(* When nothing is on its way, every connected client shows the selection  *)
(* that is stored, which the next restart will load; unless, since the     *)
(* last message about the selection, one was stored for a preset that      *)
(* could not be loaded (load_preset), or it could not be read when this    *)
(* client asked for it (handle_selected_preset_message).                   *)
SelectionAgrees ==
    Quiet /\ selected # NoId =>
        \A c \in connected : NoId \notin unheard[c] => shown[c] = selected

(* When nothing is on its way, every knob of every connected client stands *)
(* where the parameter is; except one whose user turned it while a change  *)
(* by somebody else was on its way to the client, or whose last message    *)
(* was overwritten in the throttle (CommandHandling does not answer the    *)
(* sender, and parameter.dart throttles all parameters together).          *)
KnobsAgree ==
    Quiet => \A c \in connected : \A p \in Params \ doubt[c] : knobs[c][p] = live[p]
=============================================================================
