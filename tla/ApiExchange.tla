---------------------------- MODULE ApiExchange ----------------------------
(***************************************************************************)
(* What the user enters travels: a client encodes a request, the firmware  *)
(* decodes and handles it, keeps presets and mappings in flash and tells   *)
(* the clients, who may send what they were told back again.  Other        *)
(* messages start in the firmware.  One message at a time is followed; its *)
(* content must survive every conversion on the way, however often it goes *)
(* round.                                                                  *)
(***************************************************************************)
EXTENDS FrontendMessages

CONSTANTS
    Names,      \* strings
    Ids,        \* numbers of records
    DataBytes,  \* MIDI data bytes and channels
    Parameters, \* what the parameters of a preset may be: functions from
                \* Params to whole thousandths of their ranges
    MaxRounds   \* bound: round trips of a message

(* There is always a number for a record. The tags and the longest values  *)
(* of the parameters fit the buffer of PresetsManager beside the longest   *)
(* name: 58 bytes for 18 of the 20 parameters, and 7 for the others.       *)
ASSUME ExchangeAssumption ==
    /\ Ids \subseteq Nat /\ Ids # {}
    /\ IsFiniteSet(Params)
    /\ RestBytes + FoldFunction(+, 0, [p \in Params |-> TagBytes[p] + 2])
          <= BlobBytes - (2 + MaxName) - 2
    /\ DataBytes \subseteq 0 .. 127
    /\ Parameters \subseteq [Params -> 0 .. 1000]
    /\ NameBytes \in [Names \union {NoName} -> Nat]
    /\ NameBytes[NoName] = 0
    /\ TagBytes \in [Params -> 1 .. 2]
    /\ RestBytes \in Nat
    /\ MaxRounds \in Nat

(* Users name presets, and the firmware has the names of parameters.       *)
ParameterNames == {name \in Names : Fits({name})}

Presets == [name : Names, parameters : {[p \in Params |-> ToDouble(f[p])] : f \in Parameters}]

Mappings ==
    [midi_channel : DataBytes, cc_number : DataBytes, mode : {"parameter", "toggle"},
     parameter_name : ParameterNames, preset_id : {0}]
    \union
    [midi_channel : DataBytes, cc_number : DataBytes, mode : {"button"},
     parameter_name : {NoName}, preset_id : Ids]

MidiMessages ==
    [channel : DataBytes, type : MidiTags \ {"program_change"}, data : DataBytes \X DataBytes]
    \union
    [channel : DataBytes, type : {"program_change"}, data : {<<n>> : n \in DataBytes}]

(* Requests that the user of a client can make                             *)
ParameterRequests ==
    [api : {"parameters"}, kind : {"Update"}, id : ParameterNames,
     value : {ToDouble(f[p]) : f \in Parameters, p \in Params}]
    \union [api : {"parameters"}, kind : {"Initialise"}]

PresetRequests ==
    [api : {"presets"}, kind : {"Initialise"}]
    \union [api : {"presets"}, kind : {"Create"}, preset : Presets]
    \union [api : {"presets"}, kind : {"Update"}, id : Ids, preset : Presets]
    \union [api : {"presets"}, kind : {"Delete"}, id : Ids]

SelectionRequests ==
    [api : {"selected"}, kind : {"Read"}]
    \union [api : {"selected"}, kind : {"Write"}, selectedPresetId : Ids]

MappingRequests ==
    [api : {"mapping"}, kind : {"GetRequest"}]
    \union [api : {"mapping"}, kind : {"CreateRequest"}, mapping : Mappings]
    \union [api : {"mapping"}, kind : {"Update"}, id : Ids, mapping : Mappings]
    \union [api : {"mapping"}, kind : {"Remove"}, id : Ids]

Requests == ParameterRequests \union PresetRequests \union SelectionRequests \union MappingRequests

(* Messages that the firmware sends by itself.                             *)
Events ==
    [api : {"events"}, kind : {"InputClipped", "OutputClipped"}]
    \union [api : {"mapping"}, kind : {"MessageReceived"}, message : MidiMessages]

VARIABLES
    at,     \* "client", "uplink", "firmware", "downlink"; "done" when there
            \* is nothing to send back; "lost" when a conversion failed
    msg,    \* the message, where it is not a frame
    frame,  \* the frame, on the uplink and the downlink
    origin, \* history: the message that was sent first
    rounds  \* round trips made

exchangeVars == <<at, msg, frame, origin, rounds>>

ExchangeInit ==
    /\ \/ at = "client" /\ origin \in Requests
       \/ at = "firmware" /\ origin \in Events
    /\ msg = origin
    /\ frame = NotSet
    /\ rounds = 0

-----------------------------------------------------------------------------
(* Clients *)

(* The request by which a client sends back what it was told: changes are  *)
(* saved, a knob or a selection is repeated, a mapping is edited, or is    *)
(* learnt from a MIDI message.                                             *)
Again(m) ==
    CASE m.api = "presets" /\ m.kind = "Notify" -> {[m EXCEPT !.kind = "Update"]}
      [] m.api = "parameters" -> {m}
      [] m.api = "selected" /\ m.kind = "Notify" -> {[m EXCEPT !.kind = "Write"]}
      [] m.api = "mapping" /\ m.kind \in {"CreateResponse", "Update"} ->
            {[m EXCEPT !.kind = "Update"]}
      [] m.api = "mapping" /\ m.kind = "MessageReceived"
            /\ m.message.type = "control_change" ->
            {[api |-> "mapping", kind |-> "CreateRequest",
              mapping |-> [midi_channel |-> m.message.channel,
                           cc_number |-> m.message.data[1], mode |-> "toggle",
                           parameter_name |-> name, preset_id |-> 0]] : name \in ParameterNames}
      [] OTHER -> {}

ClientSends ==
    /\ at = "client"
    /\ rounds < MaxRounds
    /\ \E m \in IF rounds = 0 THEN {msg} ELSE Again(msg) :
          LET proto == ClientToProto(m)
          IN IF proto = NotSet
             THEN at' = "lost" /\ UNCHANGED frame
             ELSE at' = "uplink" /\ frame' = Frame(m, proto[1])
    /\ UNCHANGED <<msg, origin, rounds>>

ClientReceives ==
    /\ at = "downlink"
    /\ LET m == ClientFromProto(frame.proto)
       IN IF m = NotSet THEN at' = "lost" /\ UNCHANGED <<msg, rounds>>
          ELSE at' = "client" /\ msg' = m[1] /\ rounds' = rounds + 1
    /\ frame' = NotSet
    /\ UNCHANGED origin

-----------------------------------------------------------------------------
(* The firmware *)

FirmwareReceives ==
    /\ at = "uplink"
    /\ \E m \in from_bytes(frame) :
          IF m = NotSet THEN at' = "lost" /\ UNCHANGED msg
          ELSE at' = "firmware" /\ msg' = m[1]
    /\ frame' = NotSet
    /\ UNCHANGED <<origin, rounds>>

(* What handle_message tells the clients at once.  A preset that cannot be *)
(* stored is not acknowledged.                                             *)
Stored(preset) == PresetToBytes(preset) # NotSet

Replies(m) ==
    CASE m \in Events -> {m}
      [] m.api = "parameters" /\ m.kind = "Update" -> {m}
      [] m.api = "presets" /\ m.kind = "Create" /\ Stored(m.preset) ->
            {[api |-> "presets", kind |-> "Notify", id |-> id, preset |-> m.preset] : id \in Ids}
      [] m.api = "presets" /\ m.kind = "Update" /\ Stored(m.preset) -> {[m EXCEPT !.kind = "Notify"]}
      [] m.api = "selected" /\ m.kind = "Write" -> {[m EXCEPT !.kind = "Notify"]}
      [] m.api = "mapping" /\ m.kind = "CreateRequest" ->
            {[api |-> "mapping", kind |-> "CreateResponse", id |-> id,
              mapping |-> m.mapping] : id \in Ids}
      [] OTHER -> {}

(* What a client hears that asks for everything after the next restart:    *)
(* the record as it is read from flash.                                    *)
Reloaded(m) ==
    CASE m.api = "presets" /\ m.kind \in {"Create", "Update"}
            /\ Stored(m.preset) ->
            {[api |-> "presets", kind |-> "Notify", id |-> id,
              preset |-> PresetFromBytes(PresetToBytes(m.preset)[1])]
                : id \in IF m.kind = "Update" THEN {m.id} ELSE Ids}
      [] m.api = "mapping" /\ m.kind \in {"CreateRequest", "Update"}
            /\ MappingToBytes(m.mapping) # NotSet ->
            {[api |-> "mapping", kind |-> "Update", id |-> id,
              mapping |-> MappingFromBytes(MappingToBytes(m.mapping)[1])]
                : id \in IF m.kind = "Update" THEN {m.id} ELSE Ids}
      [] OTHER -> {}

FirmwareSends ==
    /\ at = "firmware"
    /\ \E m \in Replies(msg) \union Reloaded(msg) :
          /\ msg' = m
          /\ IF to_bytes(m) = NotSet THEN at' = "lost" /\ UNCHANGED frame
             ELSE at' = "downlink" /\ frame' = to_bytes(m)[1]
    /\ UNCHANGED <<origin, rounds>>

(* Requests without content end here, and presets that cannot be stored.   *)
FirmwareHasNoReply ==
    /\ at = "firmware"
    /\ Replies(msg) \union Reloaded(msg) = {}
    /\ at' = "done"
    /\ UNCHANGED <<msg, frame, origin, rounds>>

ExchangeNext ==
    \/ ClientSends \/ ClientReceives
    \/ FirmwareReceives \/ FirmwareSends \/ FirmwareHasNoReply

ExchangeSpec == ExchangeInit /\ [][ExchangeNext]_exchangeVars

-----------------------------------------------------------------------------
(* Properties *)

(* Thousandths that a parameter may lose in all.                           *)
MaxDrift == 1

Near(x, y) == Magnitude(x.k - y.k) <= MaxDrift

SamePreset(a, b) ==
    /\ a.name = b.name
    /\ \A p \in Params : Near(a.parameters[p], b.parameters[p])

SameContent(m, o) ==
    CASE "preset" \in DOMAIN o ->
            "preset" \in DOMAIN m /\ SamePreset(m.preset, o.preset)
      [] "mapping" \in DOMAIN o -> "mapping" \in DOMAIN m /\ m.mapping = o.mapping
      [] "selectedPresetId" \in DOMAIN o ->
            "selectedPresetId" \in DOMAIN m /\ m.selectedPresetId = o.selectedPresetId
      [] "value" \in DOMAIN o ->
            "value" \in DOMAIN m /\ m.id = o.id /\ m.value.k = o.value.k
      [] "message" \in DOMAIN o ->
            IF "message" \in DOMAIN m THEN m.message = o.message
            ELSE /\ m.mapping.midi_channel = o.message.channel
                 /\ m.mapping.cc_number = o.message.data[1]
      [] OTHER -> m.api = o.api

(* A record keeps its number, and whatever the user entered arrives as it  *)
(* was entered, at the firmware and at each client, through encoding,      *)
(* flash and restart; only the parameters of presets may lose a            *)
(* thousandth, and no more than that one however often a preset is stored, *)
(* shown and saved again (to_proto and from_proto of each API, and the     *)
(* frontend's).                                                            *)
ContentSurvives ==
    msg # Garbage =>
        /\ SameContent(msg, origin)
        /\ "id" \in DOMAIN origin => "id" \in DOMAIN msg /\ msg.id = origin.id

(* No message gets lost in a conversion: each side understands everything  *)
(* that the other sends, except strings longer than the fields of the      *)
(* structs (ProtoException, nanopb's errors).                              *)
OnlyLongNamesAreLost == at = "lost" \/ msg = Garbage => ~Fits(StringsOf(origin))

(* A preset whose name fits its field is stored, whatever its parameters   *)
(* are: the buffer of 100 bytes in PresetsManager::create and update is    *)
(* just enough for the 20 parameters, which are between 0 and 1.           *)
EveryPresetFits ==
    at = "done" /\ "preset" \in DOMAIN msg => ~Fits({msg.preset.name})
=============================================================================
