---------------------------- MODULE ApiMessages ----------------------------
(***************************************************************************)
(* The messages of the websocket interface and their encodings: the        *)
(* firmware's (messages.cpp and the *_api.cpp of the components), the      *)
(* frontend's (lib/api/proto_extension.dart), and what nanopb and          *)
(* protobuf's Dart library make of a message between the two.              *)
(*                                                                         *)
(* An application message is a record with the API it belongs to, its kind *)
(* and its fields.  A proto struct is a record with the tag of its oneof.  *)
(*                                                                         *)
(* Each definition named ...Variant is a conversion with a plausible       *)
(* mistake, which nothing uses; the properties of ApiExchange notice it.   *)
(***************************************************************************)
EXTENDS Integers, Sequences, FiniteSets, Functions

CONSTANTS
    NoName,     \* the empty string
    NameBytes,  \* the length of each string
    Params,     \* fields of PresetParameters that are followed
    TagBytes,   \* the length of the tag of each of them on the wire
    RestBytes   \* the length of the other fields

(* What a conversion returns: its result, and what is in out by then.      *)
Done(x) == [rc |-> 0, out |-> x]
Failed(x) == [rc |-> -1, out |-> x]

(* A submessage is on the wire if its has_ flag is set; one that is not    *)
(* there is read as one whose fields are zero.                             *)
Set(x) == <<x>>
NotSet == <<>>
Field(f, zero) == IF f = NotSet THEN zero ELSE f[1]

-----------------------------------------------------------------------------
(* Numbers.  Parameters are doubles in the frontend, floats in the         *)
(* firmware and whole thousandths in presets.  A number is written as k    *)
(* thousandths and the type that it is the nearest number of.              *)

Number(type, k) == [type |-> type, k |-> k]
Magnitude(k) == IF k < 0 THEN -k ELSE k

(* The power of two that k >= 1 is at least, and less than twice.          *)
Octave(k) == CHOOSE j \in 0 .. 30 : 2^j <= k /\ k < 2 * 2^j

(* Whether the float nearest to k / 1000, multiplied by 1000 in floats, is *)
(* below k.  The product is off k by s/1000 of a place of the quotient,    *)
(* where s is what rounding the quotient took away, and is rounded to a    *)
(* place of k, 512 or 1024 times as much: only 512 leaves room to be off.  *)
FallsShort(k) ==
    /\ k > 0
    /\ LET j == Octave(k) IN
        /\ 512 * k >= 1000 * 2^j
        /\ ((k % 1000) * (2^(32 - j) % 1000)) % 1000 \in 257 .. 499

(* x * 1000 converted to int32_t                                           *)
ToThousandths(x) ==
    IF ~FallsShort(Magnitude(x.k)) THEN x.k
    ELSE IF x.k < 0 THEN x.k + 1 ELSE x.k - 1

(* (x * 1000).round()                                                      *)
RoundThousandths(x) == x.k

ToFloat(x) == Number("float", x.k)

-----------------------------------------------------------------------------
(* The firmware: parameters (cmd_handling_api.cpp) and events.             *)

CommandToProto(m) ==
    IF m.kind = "Update"
    THEN [which |-> "update", id |-> m.id, value |-> m.value]
    ELSE [which |-> "initialise"]

CommandFromProto(p) ==
    CASE p.which = "update" ->
            Done([api |-> "parameters", kind |-> "Update", id |-> p.id, value |-> p.value])
      [] p.which = "initialise" -> Done([api |-> "parameters", kind |-> "Initialise"])
      [] OTHER -> Failed([api |-> "parameters", kind |-> "Update", id |-> NoName,
                          value |-> Number("float", 0)])

EventToProto(m) ==
    [which |-> IF m.kind = "InputClipped" THEN "input_clipped" ELSE "output_clipped"]

EventFromProto(p) ==
    CASE p.which = "input_clipped" -> Done([api |-> "events", kind |-> "InputClipped"])
      [] p.which = "output_clipped" -> Done([api |-> "events", kind |-> "OutputClipped"])
      [] OTHER -> Failed([api |-> "events", kind |-> "InputClipped"])

-----------------------------------------------------------------------------
(* The firmware: presets (presets_api.cpp, selected_preset_api.cpp).       *)

ZeroParameters == [p \in Params |-> 0]
ZeroPresetProto == [name |-> NoName, parameters |-> NotSet]
ZeroPresetRecord == [id |-> 0, preset |-> NotSet]

ParametersToProto(parameters) == [p \in Params |-> ToThousandths(parameters[p])]
ParametersFromProto(proto) == [p \in Params |-> Number("float", proto[p])]

(* has_parameters is not set.                                              *)
PresetToProtoVariant(preset) == [name |-> preset.name, parameters |-> NotSet]

PresetToProto(preset) ==
    [name |-> preset.name,
     parameters |-> Set(ParametersToProto(preset.parameters))]

PresetFromProto(proto) ==
    [name |-> proto.name,
     parameters |-> ParametersFromProto(Field(proto.parameters, ZeroParameters))]

(* The PresetRecord of Notify and Update.                                  *)
PresetRecordToProto(m) == [id |-> m.id, preset |-> Set(PresetToProto(m.preset))]

PresetRecordFromProto(kind, proto) ==
    [api |-> "presets", kind |-> kind, id |-> proto.id,
     preset |-> PresetFromProto(Field(proto.preset, ZeroPresetProto))]

PresetsToProto(m) ==
    CASE m.kind = "Initialise" -> [which |-> "initialise"]
      [] m.kind = "Notify" -> [which |-> "notify", preset |-> Set(PresetRecordToProto(m))]
      [] m.kind = "Create" -> [which |-> "create", preset |-> Set(PresetToProto(m.preset))]
      [] m.kind = "Update" -> [which |-> "update", preset |-> Set(PresetRecordToProto(m))]
      [] m.kind = "Delete" -> [which |-> "remove", id |-> m.id]

PresetsFromProto(p) ==
    CASE p.which = "initialise" -> Done([api |-> "presets", kind |-> "Initialise"])
      [] p.which = "notify" ->
            Done(PresetRecordFromProto("Notify", Field(p.preset, ZeroPresetRecord)))
      [] p.which = "create" ->
            Done([api |-> "presets", kind |-> "Create",
                  preset |-> PresetFromProto(Field(p.preset, ZeroPresetProto))])
      [] p.which = "update" ->
            Done(PresetRecordFromProto("Update", Field(p.preset, ZeroPresetRecord)))
      [] p.which = "remove" -> Done([api |-> "presets", kind |-> "Delete", id |-> p.id])
      [] OTHER -> Failed([api |-> "presets", kind |-> "Initialise"])

SelectedToProto(m) ==
    CASE m.kind = "Read" -> [which |-> "read"]
      [] m.kind = "Notify" -> [which |-> "notify", id |-> m.selectedPresetId]
      [] m.kind = "Write" -> [which |-> "write", id |-> m.selectedPresetId]

SelectedFromProto(p) ==
    CASE p.which = "notify" ->
            Done([api |-> "selected", kind |-> "Notify", selectedPresetId |-> p.id])
      [] p.which = "write" ->
            Done([api |-> "selected", kind |-> "Write", selectedPresetId |-> p.id])
      [] p.which = "read" -> Done([api |-> "selected", kind |-> "Read"])
      [] OTHER -> Failed([api |-> "selected", kind |-> "Read"])

-----------------------------------------------------------------------------
(* The firmware: MIDI mappings (midi_mapping_api.cpp).                     *)

Modes == {"parameter", "toggle", "button"}
ZeroMapping == [midi_channel |-> 0, cc_number |-> 0, mode |-> "parameter",
                parameter_name |-> NoName, preset_id |-> 0]
ZeroMappingRecord == [id |-> 0, mapping |-> NotSet]

MappingToProto(mapping) ==
    [midi_channel |-> mapping.midi_channel, cc_number |-> mapping.cc_number,
     mode |-> mapping.mode, parameter_name |-> mapping.parameter_name,
     preset_id |-> mapping.preset_id]

(* The result of a mapping of no known mode has the default mode.          *)
MappingFromProto(proto) ==
    LET Narrowed(mode) ==
          [midi_channel |-> proto.midi_channel % 256, cc_number |-> proto.cc_number % 256,
           mode |-> mode, parameter_name |-> proto.parameter_name,
           preset_id |-> proto.preset_id]
    IN IF proto.mode \in Modes THEN Done(Narrowed(proto.mode)) ELSE Failed(Narrowed("parameter"))

MappingRecordToProto(m) == [id |-> m.id, mapping |-> Set(MappingToProto(m.mapping))]

MappingRecordFromProto(kind, proto) ==
    LET mapping == MappingFromProto(Field(proto.mapping, ZeroMapping))
    IN [rc |-> mapping.rc,
        out |-> [api |-> "mapping", kind |-> kind, id |-> proto.id, mapping |-> mapping.out]]

MidiTags == {"note_on", "note_off", "control_change", "program_change"}

MidiMessageToProto(m) == [channel |-> m.channel, which |-> m.type, data |-> m.data]

(* Each byte of the parameters is narrowed; a message of no known type is  *)
(* left as a note that is switched on.                                     *)
MidiMessageFromProto(proto) ==
    IF proto.which \in MidiTags
    THEN Done([channel |-> proto.channel % 256, type |-> proto.which,
               data |-> [i \in DOMAIN proto.data |-> proto.data[i] % 256]])
    ELSE Failed([channel |-> proto.channel % 256, type |-> "note_on", data |-> <<0, 0>>])

ZeroMidiMessage == [channel |-> 0, which |-> "none", data |-> <<>>]

(* The response is sent with the tag of the request.                       *)
MappingApiToProtoVariant(m) ==
    [which |-> "create_request",
     mapping |-> IF "mapping" \in DOMAIN m THEN Set(MappingToProto(m.mapping)) ELSE NotSet]

MappingApiToProto(m) ==
    CASE m.kind = "GetRequest" -> [which |-> "get_request"]
      [] m.kind = "CreateRequest" ->
            [which |-> "create_request", mapping |-> Set(MappingToProto(m.mapping))]
      [] m.kind = "CreateResponse" ->
            [which |-> "create_response", mapping |-> Set(MappingRecordToProto(m))]
      [] m.kind = "Update" ->
            [which |-> "update", mapping |-> Set(MappingRecordToProto(m))]
      [] m.kind = "Remove" -> [which |-> "remove", id |-> m.id]
      [] m.kind = "MessageReceived" ->
            [which |-> "message_received", message |-> Set(MidiMessageToProto(m.message))]

MappingApiFromProto(p) ==
    CASE p.which = "create_request" ->
            LET mapping == MappingFromProto(Field(p.mapping, ZeroMapping))
            IN [rc |-> mapping.rc,
                out |-> [api |-> "mapping", kind |-> "CreateRequest", mapping |-> mapping.out]]
      [] p.which = "create_response" ->
            MappingRecordFromProto("CreateResponse", Field(p.mapping, ZeroMappingRecord))
      [] p.which = "update" ->
            MappingRecordFromProto("Update", Field(p.mapping, ZeroMappingRecord))
      [] p.which = "remove" -> Done([api |-> "mapping", kind |-> "Remove", id |-> p.id])
      [] p.which = "message_received" ->
            LET message == MidiMessageFromProto(Field(p.message, ZeroMidiMessage))
            IN [rc |-> message.rc,
                out |-> [api |-> "mapping", kind |-> "MessageReceived", message |-> message.out]]
      [] p.which = "get_request" -> Done([api |-> "mapping", kind |-> "GetRequest"])
      [] OTHER -> Failed([api |-> "mapping", kind |-> "GetRequest"])

-----------------------------------------------------------------------------
(* The firmware: whole messages (messages.cpp).                            *)

(* The tags of the APIs in the oneof of shrapnel.proto.                    *)
Tag == [events |-> "audio_event", parameters |-> "command", mapping |-> "midi_mapping",
        presets |-> "preset", selected |-> "selected_preset"]

ToProto(m) ==
    [which |-> Tag[m.api],
     message |-> CASE m.api = "events" -> EventToProto(m)
                   [] m.api = "parameters" -> CommandToProto(m)
                   [] m.api = "mapping" -> MappingApiToProto(m)
                   [] m.api = "presets" -> PresetsToProto(m)
                   [] m.api = "selected" -> SelectedToProto(m)]

(* The return code of the API's conversion is not looked at: what a failed *)
(* one has left in out counts as the message.                              *)
FromProto(p) ==
    CASE p.which = "audio_event" -> Done(EventFromProto(p.message).out)
      [] p.which = "command" -> Done(CommandFromProto(p.message).out)
      [] p.which = "midi_mapping" -> Done(MappingApiFromProto(p.message).out)
      [] p.which = "preset" -> Done(PresetsFromProto(p.message).out)
      [] p.which = "selected_preset" -> Done(SelectedFromProto(p.message).out)
      [] OTHER -> Failed(CommandFromProto([which |-> "none"]).out)

(* nanopb refuses to encode a string that its field has no room to         *)
(* terminate, and to decode one that does not fit.                         *)
StringsOf(m) ==
    CASE "preset" \in DOMAIN m -> {m.preset.name}
      [] "mapping" \in DOMAIN m -> {m.mapping.parameter_name}
      [] "value" \in DOMAIN m -> {m.id}
      [] OTHER -> {}

MaxName == 31
Fits(strings) == \A name \in strings : NameBytes[name] <= MaxName
Frame(m, proto) == [strings |-> StringsOf(m), proto |-> proto]

to_bytes(m) == IF Fits(StringsOf(m)) THEN Set(Frame(m, ToProto(m))) ELSE NotSet

(* When nanopb has failed, from_bytes reads the value of an optional that  *)
(* has none: whatever lies there is converted, or refused.                 *)
Garbage == [api |-> "garbage"]

from_bytes(frame) ==
    IF ~Fits(frame.strings) THEN {NotSet, Set(Garbage)}
    ELSE LET message == FromProto(frame.proto)
         IN {IF message.rc = 0 THEN Set(message.out) ELSE NotSet}

(* The blobs of presets and mappings in flash are these structs by         *)
(* themselves; here from_bytes does look whether nanopb has succeeded.  A  *)
(* field that is zero is left out.                                         *)
VarintBytes(n) ==
    CASE n < 0 -> 10
      [] 0 <= n /\ n < 128 -> 1
      [] 128 <= n /\ n < 16384 -> 2

FieldsBytes(parameters) ==
    RestBytes + FoldFunction(+, 0,
        [p \in Params |-> IF parameters[p] = 0 THEN 0
                          ELSE TagBytes[p] + VarintBytes(parameters[p])])

PresetBytes(proto) ==
    (IF NameBytes[proto.name] = 0 THEN 0 ELSE 2 + NameBytes[proto.name])
    + (IF proto.parameters = NotSet THEN 0 ELSE 2 + FieldsBytes(proto.parameters[1]))

(* The buffer of PresetsManager.                                           *)
BlobBytes == 100

(* The last byte of the buffer is not used.                                *)
PresetToBytesVariant(preset) ==
    IF Fits({preset.name}) /\ PresetBytes(PresetToProto(preset)) < BlobBytes
    THEN Set(PresetToProto(preset)) ELSE NotSet

PresetToBytes(preset) ==
    IF Fits({preset.name}) /\ PresetBytes(PresetToProto(preset)) <= BlobBytes
    THEN Set(PresetToProto(preset)) ELSE NotSet

PresetFromBytes(bytes) == PresetFromProto(bytes)

MappingToBytes(mapping) ==
    IF Fits({mapping.parameter_name}) THEN Set(MappingToProto(mapping)) ELSE NotSet
MappingFromBytes(bytes) == MappingFromProto(bytes).out
=============================================================================
