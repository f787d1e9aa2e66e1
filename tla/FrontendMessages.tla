-------------------------- MODULE FrontendMessages --------------------------
(***************************************************************************)
(* The frontend's end of the encodings: lib/api/proto_extension.dart, with *)
(* the parts of protobuf's Dart library that it relies on.  A conversion   *)
(* that throws ProtoException gives NotSet.                                *)
(***************************************************************************)
EXTENDS ApiMessages

ToDouble(k) == Number("double", k)

ClientPresetToProto(preset) ==
    [name |-> preset.name,
     parameters |-> Set([p \in Params |-> RoundThousandths(preset.parameters[p])])]

ClientPresetFromProto(proto) ==
    [name |-> proto.name,
     parameters |-> [p \in Params |-> ToDouble(Field(proto.parameters, ZeroParameters)[p])]]

ClientRecordToProto(m) == [id |-> m.id, preset |-> Set(ClientPresetToProto(m.preset))]

ClientRecordFromProto(kind, proto) ==
    [api |-> "presets", kind |-> kind, id |-> proto.id,
     preset |-> ClientPresetFromProto(Field(proto.preset, ZeroPresetProto))]

ClientPresetsToProto(m) ==
    CASE m.kind = "Initialise" -> [which |-> "initialise"]
      [] m.kind = "Notify" -> [which |-> "notify", preset |-> Set(ClientRecordToProto(m))]
      [] m.kind = "Create" ->
            [which |-> "create", preset |-> Set(ClientPresetToProto(m.preset))]
      [] m.kind = "Update" -> [which |-> "update", preset |-> Set(ClientRecordToProto(m))]
      [] m.kind = "Delete" -> [which |-> "remove", id |-> m.id]

ClientPresetsFromProto(p) ==
    CASE p.which = "initialise" -> [api |-> "presets", kind |-> "Initialise"]
      [] p.which = "notify" ->
            ClientRecordFromProto("Notify", Field(p.preset, ZeroPresetRecord))
      [] p.which = "create" ->
            [api |-> "presets", kind |-> "Create",
             preset |-> ClientPresetFromProto(Field(p.preset, ZeroPresetProto))]
      [] p.which = "update" ->
            ClientRecordFromProto("Update", Field(p.preset, ZeroPresetRecord))
      [] p.which = "remove" -> [api |-> "presets", kind |-> "Delete", id |-> p.id]

(* A mapping of the frontend has the fields of its mode.                   *)
ClientMapping(mapping) ==
    IF mapping.mode = "button" THEN [mapping EXCEPT !.parameter_name = NoName]
    ELSE [mapping EXCEPT !.preset_id = 0]

ClientMappingRecord(kind, p) ==
    LET record == Field(p.mapping, ZeroMappingRecord)
    IN [api |-> "mapping", kind |-> kind, id |-> record.id,
        mapping |-> ClientMapping(Field(record.mapping, ZeroMapping))]

ClientMappingToProto(m) ==
    CASE m.kind = "GetRequest" -> Set([which |-> "get_request"])
      [] m.kind = "CreateRequest" ->
            Set([which |-> "create_request", mapping |-> Set(ClientMapping(m.mapping))])
      [] m.kind = "Update" ->
            Set([which |-> "update",
                 mapping |-> Set([id |-> m.id, mapping |-> Set(ClientMapping(m.mapping))])])
      [] m.kind = "Remove" -> Set([which |-> "remove", id |-> m.id])
      [] OTHER -> NotSet

ClientMappingFromProto(p) ==
    CASE p.which = "create_response" -> Set(ClientMappingRecord("CreateResponse", p))
      [] p.which = "update" -> Set(ClientMappingRecord("Update", p))
      [] p.which = "message_received" ->
            LET message == Field(p.message, ZeroMidiMessage)
            IN Set([api |-> "mapping", kind |-> "MessageReceived",
                    message |-> [channel |-> message.channel, type |-> message.which,
                                 data |-> message.data]])
      [] OTHER -> NotSet

(* protobuf sends the double as a float, and widens the float it receives. *)
ClientCommandToProto(m) ==
    IF m.kind = "Update"
    THEN [which |-> "update", id |-> m.id, value |-> ToFloat(m.value)]
    ELSE [which |-> "initialise"]

ClientCommandFromProto(p) ==
    IF p.which = "update"
    THEN Set([api |-> "parameters", kind |-> "Update", id |-> p.id, value |-> p.value])
    ELSE NotSet

ClientSelectedToProto(m) ==
    IF m.kind = "Read" THEN [which |-> "read"]
    ELSE [which |-> IF m.kind = "Write" THEN "write" ELSE "notify",
          id |-> m.selectedPresetId]

ClientSelectedFromProto(p) ==
    IF p.which = "read" THEN [api |-> "selected", kind |-> "Read"]
    ELSE [api |-> "selected", kind |-> IF p.which = "write" THEN "Write" ELSE "Notify",
          selectedPresetId |-> p.id]

ClientEventFromProto(p) ==
    [api |-> "events",
     kind |-> IF p.which = "input_clipped" THEN "InputClipped" ELSE "OutputClipped"]

-----------------------------------------------------------------------------
ClientToProto(m) ==
    LET Message(sub) == Set([which |-> Tag[m.api], message |-> sub])
    IN CASE m.api = "parameters" -> Message(ClientCommandToProto(m))
         [] m.api = "presets" -> Message(ClientPresetsToProto(m))
         [] m.api = "selected" -> Message(ClientSelectedToProto(m))
         [] m.api = "mapping" ->
               LET sub == ClientMappingToProto(m)
               IN IF sub = NotSet THEN NotSet ELSE Message(sub[1])

ClientFromProto(p) ==
    CASE p.which = "audio_event" -> Set(ClientEventFromProto(p.message))
      [] p.which = "command" -> ClientCommandFromProto(p.message)
      [] p.which = "midi_mapping" -> ClientMappingFromProto(p.message)
      [] p.which = "preset" -> Set(ClientPresetsFromProto(p.message))
      [] p.which = "selected_preset" -> Set(ClientSelectedFromProto(p.message))
=============================================================================
