----------------------------- MODULE MidiInput -----------------------------
(***************************************************************************)
(* MIDI: a controller's bytes, the decoder (midi_protocol/src/midi.cpp),   *)
(* what the messages do to the parameters (midi_handling.h) and what the   *)
(* clients are told of them (main_thread.h).                               *)
(*                                                                         *)
(* The controller sends whole messages, with running status if it likes;   *)
(* real-time bytes come at any time, messages that the decoder does not    *)
(* know come between others, and the receive buffer may lose bytes.        *)
(* Parameters are in 127ths of their range.                                *)
(***************************************************************************)
EXTENDS Naturals, Sequences

CONSTANTS
    Sent,       \* messages of the controller: [channel, type, data]
    Unknown,    \* messages that the decoder does not know, as bytes
    Params,     \* parameters
    Loads,      \* the presets that buttons load: their parameters
    Mappings,   \* sequences of mappings that there may be, in the order in
                \* which they are iterated
    Console,    \* messages of the console command midi_send
    MaxMessages, \* bound: messages of the controller
    MaxUpsets   \* bound: bytes lost, and real-time bytes inside a message

NOTE_OFF == 128
NOTE_ON == 144
CONTROL_CHANGE == 176
PROGRAM_CHANGE == 192
Clock == 248
CC_VALUE_MAX == 127

Code == [note_off |-> NOTE_OFF, note_on |-> NOTE_ON,
         control_change |-> CONTROL_CHANGE, program_change |-> PROGRAM_CHANGE]
Types == DOMAIN Code

Data == 0 .. 127
Byte == 0 .. 255

MessagesOf(channels, bytes) ==
    [channel : channels, type : Types \ {"program_change"}, data : [1 .. 2 -> bytes]]
    \union [channel : channels, type : {"program_change"}, data : [1 .. 1 -> bytes]]

(* The messages that MIDI allows, and those that midi::Message can hold    *)
MidiMessage == MessagesOf(1 .. 16, Data)
AnyMessage == MessagesOf(Byte, Byte)

NoMidi == [type |-> "none"]

is_status_byte(byte) == byte >= 128
Upper(byte) == byte - (byte % 16)

Mapping ==
    [channel : Byte, cc : Byte, mode : {"parameter", "toggle"}, target : Params]
    \union [channel : Byte, cc : Byte, mode : {"button"}, target : Loads]

(* The console checks no values.                                           *)
ASSUME MidiAssumption ==
    /\ Sent \subseteq MidiMessage /\ Console \subseteq AnyMessage
    /\ \A bytes \in Unknown :
          /\ bytes \in Seq(Byte) /\ bytes # <<>>
          /\ is_status_byte(bytes[1]) /\ \A type \in Types : Upper(bytes[1]) # Code[type]
          /\ Tail(bytes) \in Seq(Data)
    /\ Loads \subseteq [Params -> Data]
    /\ Mappings \subseteq Seq(Mapping)
    /\ MaxMessages \in Nat /\ MaxUpsets \in Nat

VARIABLES
    decoder,    \* [state, current_status, received_data, data_count]
    mappings,   \* MappingManager's mappings
    live,       \* the parameters
    heard,      \* what ParameterObserver was last told of each, and will save
    last,       \* last_midi_message
    notified,   \* last_notified_midi_message
    waiting,    \* is_midi_notify_waiting
    shown,      \* the message that the clients were last sent
    rest,       \* bytes to come of the message on the wire
    whole,      \* that message
    running,    \* the status byte that the controller need not repeat
    sent,       \* messages that the controller has begun
    upsets,     \* bytes lost, and real-time bytes inside a message
    out,        \* history: what the decoder made of the last byte
    due,        \* history: the message that the last byte completed
    intact      \* history: messages with two data bytes and their status
                \* byte that came one after the other since the stream was
                \* last disturbed, up to Enough

wire == <<rest, whole, running, sent, upsets>>
vars == <<decoder, mappings, live, heard, last, notified, waiting, shown,
          wire, out, due, intact>>

Enough == 3

-----------------------------------------------------------------------------
(* The decoder *)

Decoder(state, current_status, received_data, data_count) ==
    [state |-> state, current_status |-> current_status,
     received_data |-> received_data, data_count |-> data_count]

Result(d, message) == [decoder |-> d, message |-> message]

(* Channel mode messages are dropped.                                      *)
output_message(d) ==
    LET type == CHOOSE t \in Types : Code[t] = Upper(d.current_status)
    IN IF type = "control_change" /\ d.received_data[1] \in 120 .. 127
       THEN NoMidi
       ELSE [channel |-> (d.current_status % 16) + 1, type |-> type,
             data |-> IF type = "program_change" THEN <<d.received_data[1]>>
                      ELSE d.received_data]

(* Without the reset of data_count                                         *)
CompletedVariant(d) == Decoder("IDLE", d.current_status, d.received_data, d.data_count)
Completed(d) == Decoder("IDLE", d.current_status, d.received_data, 0)

decode_message(d, byte) ==
    IF Upper(d.current_status) = PROGRAM_CHANGE
    THEN LET full == Decoder("IDLE", d.current_status,
                             [d.received_data EXCEPT ![1] = byte], d.data_count)
         IN Result(full, output_message(full))
    ELSE LET more == Decoder("GOT_MESSAGE", d.current_status,
                             [d.received_data EXCEPT ![d.data_count + 1] = byte],
                             d.data_count + 1)
         IN IF more.data_count = 2
            THEN Result(Completed(more), output_message(more))
            ELSE Result(more, NoMidi)

(* Without running status                                                  *)
decode_idleVariant(d, byte) ==
    IF \E type \in Types : Upper(byte) = Code[type]
    THEN Result(Decoder("GOT_MESSAGE", byte, d.received_data, d.data_count), NoMidi)
    ELSE Result(Decoder("IDLE", d.current_status, d.received_data, d.data_count), NoMidi)

decode_idle(d, byte) ==
    IF ~is_status_byte(byte) /\ is_status_byte(d.current_status)
    THEN decode_message(d, byte)
    ELSE IF \E type \in Types : Upper(byte) = Code[type]
         THEN Result(Decoder("GOT_MESSAGE", byte, d.received_data, d.data_count), NoMidi)
         ELSE Result(Decoder("IDLE", d.current_status, d.received_data, d.data_count), NoMidi)

decode(byte) ==
    IF decoder.state = "IDLE" THEN decode_idle(decoder, byte)
    ELSE decode_message(decoder, byte)

-----------------------------------------------------------------------------
(* Messages *)

(* AudioParameterFloat::update                                             *)
Accepts(v) == v <= 127

(* The observer is told of the value before the change.                    *)
SetVariant(p, v, params) ==
    [live |-> IF Accepts(v) THEN [params.live EXCEPT ![p] = v] ELSE params.live,
     heard |-> [params.heard EXCEPT ![p] = params.live[p]]]

(* AudioParameters::update: the parameter refuses what is out of range,    *)
(* the observer hears of it all the same.                                  *)
Set(p, v, params) ==
    [live |-> IF Accepts(v) THEN [params.live EXCEPT ![p] = v] ELSE params.live,
     heard |-> [params.heard EXCEPT ![p] = v]]

(* MidiMessageHandler::process_message for a mapping of the control        *)
Apply(mapping, value, params) ==
    CASE mapping.mode = "parameter" -> Set(mapping.target, value, params)
      [] mapping.mode = "toggle" /\ value # 0 ->
            Set(mapping.target,
                IF 2 * params.live[mapping.target] < 127 THEN 127 ELSE 0, params)
      [] mapping.mode = "button" /\ value = CC_VALUE_MAX ->
            [live |-> mapping.target, heard |-> mapping.target]
      [] OTHER -> params

(* The loop over the mappings                                              *)
Applied(order, message, params) ==
    LET after[n \in 0 .. Len(order)] ==
            IF n = 0 THEN params
            ELSE IF order[n].channel = message.channel /\ order[n].cc = message.data[1]
            THEN Apply(order[n], message.data[2], after[n - 1])
            ELSE after[n - 1]
    IN after[Len(order)]

process_message(message) ==
    LET params == [live |-> live, heard |-> heard]
    IN IF message.type # "control_change" THEN params
       ELSE Applied(mappings, message, params)

(* on_midi_message, if a message was decoded                               *)
on_midi_message(message) ==
    IF message = NoMidi THEN UNCHANGED <<live, heard, last>>
    ELSE /\ last' = message
         /\ live' = process_message(message).live
         /\ heard' = process_message(message).heard

Decode(byte) ==
    /\ decoder' = decode(byte).decoder
    /\ out' = decode(byte).message
    /\ on_midi_message(out')
    /\ UNCHANGED <<mappings, notified, waiting, shown>>

(* The message comes from the console, through in_queue.                   *)
ConsoleMessage(message) ==
    /\ on_midi_message(message)
    /\ UNCHANGED <<decoder, mappings, notified, waiting, shown, wire, out, due, intact>>

(* What is sent is marked even if it cannot be sent yet.                   *)
NotifyVariant ==
    /\ last \notin {NoMidi, notified}
    /\ waiting' = TRUE
    /\ notified' = last
    /\ shown' = IF waiting THEN shown ELSE last
    /\ UNCHANGED <<decoder, mappings, live, heard, last, wire, out, due, intact>>

(* The end of an iteration of MainThread::loop                             *)
Notify ==
    /\ ~waiting
    /\ waiting' = TRUE
    /\ IF last \notin {NoMidi, notified} THEN notified' = last /\ shown' = last
       ELSE UNCHANGED <<notified, shown>>
    /\ UNCHANGED <<decoder, mappings, live, heard, last, wire, out, due, intact>>

(* The timer of 100 ms: clear_midi_notify_waiting                          *)
NotifyTimer ==
    /\ waiting' = FALSE
    /\ UNCHANGED <<decoder, mappings, live, heard, last, notified, shown, wire, out, due, intact>>

-----------------------------------------------------------------------------
(* The wire *)

StatusOf(message) == Code[message.type] + message.channel - 1

(* Channel mode messages are not for this device.                          *)
ForUs(message) ==
    IF message # NoMidi /\ message.type = "control_change" /\ message.data[1] >= 120
    THEN NoMidi ELSE message

(* Whether the message came with its status byte and has two data bytes    *)
Counts(message, explicit) == explicit /\ Len(message.data) = 2

(* A byte that belongs here: what it completes, and how far the stream may *)
(* be trusted then. A message that the decoder does not know does no harm  *)
(* before the first that it knows.                                         *)
Undisturbed(message, explicit) ==
    /\ due' = IF rest' = <<>> THEN ForUs(message) ELSE NoMidi
    /\ intact' = IF message = NoMidi THEN IF decoder.current_status = 0 THEN intact ELSE 0
                 ELSE IF intact = Enough \/ rest' # <<>> THEN intact
                 ELSE IF Counts(message, explicit) THEN intact + 1
                 ELSE 0
    /\ UNCHANGED upsets

Disturbed ==
    /\ upsets < MaxUpsets /\ upsets' = upsets + 1
    /\ due' = NoMidi /\ intact' = 0

Begin(message, explicit, status, bytes) ==
    /\ rest = <<>> /\ sent < MaxMessages
    /\ whole' = [message |-> message, explicit |-> explicit]
    /\ running' = status
    /\ rest' = bytes
    /\ sent' = sent + 1

Begins(message, explicit) ==
    /\ explicit \/ running = StatusOf(message)
    /\ Begin(message, explicit, StatusOf(message),
             IF explicit THEN message.data ELSE Tail(message.data))

FirstByte(message, explicit) ==
    /\ Begins(message, explicit)
    /\ Decode(IF explicit THEN StatusOf(message) ELSE message.data[1])
    /\ Undisturbed(message, explicit)

FirstUnknownByte(bytes) ==
    /\ Begin(NoMidi, TRUE, 0, Tail(bytes))
    /\ Decode(bytes[1])
    /\ Undisturbed(NoMidi, TRUE)

NextByte ==
    /\ rest # <<>>
    /\ rest' = Tail(rest)
    /\ Decode(Head(rest))
    /\ Undisturbed(whole.message, whole.explicit)
    /\ UNCHANGED <<whole, running, sent>>

(* uart_driver_install: the buffer of the UART is full.                    *)
Lost ==
    /\ \/ \E message \in Sent, explicit \in BOOLEAN : Begins(message, explicit)
       \/ rest # <<>> /\ rest' = Tail(rest) /\ UNCHANGED <<whole, running, sent>>
    /\ out' = NoMidi
    /\ Disturbed
    /\ UNCHANGED <<decoder, mappings, live, heard, last, notified, waiting, shown>>

(* A real-time byte does no harm between messages.                         *)
RealTime ==
    /\ Decode(Clock)
    /\ IF rest = <<>> THEN due' = NoMidi /\ UNCHANGED <<intact, upsets>> ELSE Disturbed
    /\ UNCHANGED <<rest, whole, running, sent>>

-----------------------------------------------------------------------------
(* Decoder::Decoder, MainThread::MainThread. What received_data holds at   *)
(* first is never read.                                                    *)
Init ==
    /\ decoder = Decoder("IDLE", 0, <<0, 0>>, 0)
    /\ mappings \in Mappings
    /\ live \in Loads /\ heard = live
    /\ last = NoMidi /\ notified = NoMidi /\ shown = NoMidi
    /\ waiting = FALSE
    /\ rest = <<>> /\ whole = [message |-> NoMidi, explicit |-> TRUE]
    /\ running = 0 /\ sent = 0 /\ upsets = 0
    /\ out = NoMidi /\ due = NoMidi
    /\ intact = Enough

Next ==
    \/ \E message \in Sent, explicit \in BOOLEAN : FirstByte(message, explicit)
    \/ \E bytes \in Unknown : FirstUnknownByte(bytes)
    \/ NextByte
    \/ Lost
    \/ RealTime
    \/ \E message \in Console : ConsoleMessage(message)
    \/ Notify
    \/ NotifyTimer

(* The loop runs for ever, and the timer reloads itself.                   *)
Fairness == WF_vars(Notify) /\ WF_vars(NotifyTimer)

Spec == Init /\ [][Next]_vars /\ Fairness

-----------------------------------------------------------------------------
(* Properties *)

(* received_data is never written past its end and decode_message's        *)
(* assertions hold: while a message is awaited, its status is one that the *)
(* decoder knows.                                                          *)
DecoderOK ==
    /\ decoder.state \in {"IDLE", "GOT_MESSAGE"}
    /\ DOMAIN decoder.received_data = 1 .. 2
    /\ decoder.data_count \in 0 .. 1
    /\ decoder.data_count = 1 =>
          decoder.state = "GOT_MESSAGE" /\ Upper(decoder.current_status) # PROGRAM_CHANGE
    /\ decoder.current_status # 0 \/ decoder.state = "GOT_MESSAGE" =>
          \E type \in Types : Upper(decoder.current_status) = Code[type]

(* Types, the decoder's among them; parameters never leave their range.    *)
TypeOK ==
    /\ DecoderOK
    /\ decoder.current_status \in Byte /\ decoder.received_data \in [1 .. 2 -> Byte]
    /\ live \in [Params -> Data] /\ heard \in [Params -> Byte]
    /\ {last, notified, shown, out, due} \subseteq AnyMessage \union {NoMidi}
    /\ waiting \in BOOLEAN
    /\ rest \in Seq(Data) /\ running \in Byte /\ sent \in 0 .. MaxMessages
    /\ upsets \in 0 .. MaxUpsets
    /\ intact \in 0 .. Enough

(* The decoder's answer to each byte is the message that this byte ends:   *)
(* all messages of a stream that nothing disturbs, with running status and *)
(* with real-time bytes between them; and after lost bytes, interrupted    *)
(* messages and messages of other kinds, again from the third complete     *)
(* message on.                                                             *)
DecodesInStep == intact = Enough => out = due

(* What ParameterObserver hears of a parameter, and will save, is what the *)
(* parameter has become, as long as the stream is not disturbed. (A status *)
(* byte taken for the value of a control change is refused by the          *)
(* parameter and saved all the same. So is a value beyond 127 from the     *)
(* console.)                                                               *)
SavedIsPlayed ==
    [][intact = Enough /\ intact' = Enough =>
         \A p \in Params :
            live'[p] # live[p] \/ heard'[p] # heard[p] => heard'[p] = live'[p]]_vars

(* The clients are shown the latest message, however many came within the  *)
(* 100 ms since the one before, unless another comes.                      *)
LatestIsShown ==
    \A message \in Sent \union Console :
        last = message ~> shown = message \/ last # message
=============================================================================
