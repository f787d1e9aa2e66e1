-------------------------- MODULE MidiInputProofs --------------------------
(***************************************************************************)
(* Proofs about MidiInput, for any messages, mappings and presets and for  *)
(* bytes that get lost or inserted anywhere: the decoder never writes past *)
(* received_data and its assertions hold; everything keeps to its type and *)
(* parameters to their range; the decoder answers in step with the stream  *)
(* or finds back to it; and what is saved is what is played.               *)
(***************************************************************************)
EXTENDS MidiInput, SequenceTheorems, WellFoundedInduction, TLAPS

(* DecoderOK for any value of the decoder *)
Orderly(d) ==
    /\ d.state \in {"IDLE", "GOT_MESSAGE"}
    /\ DOMAIN d.received_data = 1 .. 2
    /\ d.data_count \in 0 .. 1
    /\ d.data_count = 1 => d.state = "GOT_MESSAGE" /\ Upper(d.current_status) # PROGRAM_CHANGE
    /\ d.current_status # 0 \/ d.state = "GOT_MESSAGE" =>
          \E type \in Types : Upper(d.current_status) = Code[type]

LEMMA MessageOrderly ==
    ASSUME NEW d, NEW byte, Orderly(d), is_status_byte(d.current_status) \/ d.state = "GOT_MESSAGE"
    PROVE  Orderly(decode_message(d, byte).decoder)
<1>1. \E type \in Types : Upper(d.current_status) = Code[type]
  BY DEF Orderly, is_status_byte
<1>2. /\ d.state \in {"IDLE", "GOT_MESSAGE"} /\ d.data_count \in {0, 1}
      /\ d.data_count = 1 => Upper(d.current_status) # PROGRAM_CHANGE
      /\ DOMAIN d.received_data = 1 .. 2
  BY DEF Orderly
<1>3. \A k : DOMAIN [d.received_data EXCEPT ![k] = byte] = 1 .. 2
  BY <1>2
<1>4. CASE Upper(d.current_status) = PROGRAM_CHANGE /\ d.data_count = 0
  BY <1>1, <1>3, <1>4 DEF decode_message, Decoder, Result, Orderly
<1>5. CASE Upper(d.current_status) # PROGRAM_CHANGE /\ d.data_count = 0
  BY <1>1, <1>3, <1>5 DEF decode_message, Decoder, Result, Orderly
<1>6. CASE Upper(d.current_status) # PROGRAM_CHANGE /\ d.data_count = 1
  BY <1>1, <1>3, <1>6 DEF decode_message, Decoder, Completed, Result, Orderly
<1> QED
  BY <1>2, <1>4, <1>5, <1>6

LEMMA IdleOrderly ==
    ASSUME NEW d, NEW byte, Orderly(d), d.state = "IDLE"
    PROVE  Orderly(decode_idle(d, byte).decoder)
<1>1. CASE ~is_status_byte(byte) /\ is_status_byte(d.current_status)
  BY <1>1, MessageOrderly DEF decode_idle
<1>2. CASE ~(~is_status_byte(byte) /\ is_status_byte(d.current_status))
  BY <1>2 DEF decode_idle, Decoder, Result, Orderly
<1> QED
  BY <1>1, <1>2

LEMMA DecodeOrderly == \A byte : DecoderOK => Orderly(decode(byte).decoder)
  BY IdleOrderly, MessageOrderly DEF decode, DecoderOK, Orderly

(* The decoder never writes past the end of received_data, and knows the   *)
(* status of the message that it is in (the assertions of decode_message   *)
(* and output_message), whatever bytes come from the UART.                 *)
THEOREM DecoderInBounds == Spec => []DecoderOK
<1>1. Init => DecoderOK
  BY DEF Init, DecoderOK, Decoder
<1>2. DecoderOK /\ [Next]_vars => DecoderOK'
  <2> SUFFICES ASSUME DecoderOK, [Next]_vars
               PROVE  DecoderOK'
    OBVIOUS
  <2>1. ASSUME NEW byte, Decode(byte)
        PROVE  DecoderOK'
    BY <2>1, DecodeOrderly DEF Decode, DecoderOK, Orderly
  <2>2. CASE UNCHANGED decoder
    BY <2>2 DEF DecoderOK
  <2>3. CASE \E message \in Sent, explicit \in BOOLEAN : FirstByte(message, explicit)
    BY <2>1, <2>3 DEF FirstByte
  <2>4. CASE (\E bytes \in Unknown : FirstUnknownByte(bytes)) \/ NextByte \/ RealTime
    BY <2>1, <2>4 DEF FirstUnknownByte, NextByte, RealTime
  <2> QED
    BY <2>2, <2>3, <2>4 DEF Next, Lost, ConsoleMessage, Notify, NotifyTimer, vars
<1> QED
  BY <1>1, <1>2, PTL DEF Spec

-----------------------------------------------------------------------------
(* Bytes and messages *)

LEMMA Codes ==
    /\ Types = {"note_off", "note_on", "control_change", "program_change"}
    /\ Code["note_off"] = 128 /\ Code["note_on"] = 144
    /\ Code["control_change"] = 176 /\ Code["program_change"] = 192
  BY DEF Types, Code, NOTE_OFF, NOTE_ON, CONTROL_CHANGE, PROGRAM_CHANGE

LEMMA CodeOfOne ==
    ASSUME NEW s \in Types, NEW t \in Types, Code[s] = Code[t]
    PROVE  s = t
  BY Codes

LEMMA UpperOfCode ==
    ASSUME NEW type \in Types, NEW channel \in 1 .. 16
    PROVE  /\ Code[type] + channel - 1 \in 128 .. 207
           /\ Upper(Code[type] + channel - 1) = Code[type]
           /\ (Code[type] + channel - 1) % 16 = channel - 1
<1>1. \A c \in 1 .. 16 :
         /\ (128 + c - 1) % 16 = c - 1 /\ (144 + c - 1) % 16 = c - 1
         /\ (176 + c - 1) % 16 = c - 1 /\ (192 + c - 1) % 16 = c - 1
  OBVIOUS
<1>2. Code[type] \in {128, 144, 176, 192}
  BY Codes
<1>3. Code[type] + channel - 1 \in 128 .. 207
  BY <1>2
<1>4. (Code[type] + channel - 1) % 16 = channel - 1
  BY <1>1, <1>2
<1>5. Upper(Code[type] + channel - 1) = Code[type]
  BY <1>2, <1>4 DEF Upper
<1> QED
  BY <1>3, <1>4, <1>5

(* What a message consists of *)
LEMMA Parts ==
    ASSUME NEW channels, NEW bytes, NEW message \in MessagesOf(channels, bytes)
    PROVE  /\ message.channel \in channels /\ message.type \in Types
           /\ message.data \in Seq(bytes)
           /\ Len(message.data) = IF message.type = "program_change" THEN 1 ELSE 2
           /\ \A k \in 1 .. Len(message.data) : message.data[k] \in bytes
           /\ message = [channel |-> message.channel, type |-> message.type,
                         data |-> message.data]
           /\ message # NoMidi
<1>1. /\ message.channel \in channels /\ message.type \in Types
      /\ message.data \in
            [1 .. (IF message.type = "program_change" THEN 1 ELSE 2) -> bytes]
      /\ message = [channel |-> message.channel, type |-> message.type, data |-> message.data]
  BY Codes DEF MessagesOf
<1>2. message.data \in Seq(bytes)
  BY <1>1, SeqDef
<1>3. Len(message.data) = IF message.type = "program_change" THEN 1 ELSE 2
  <2>1. DOMAIN message.data = 1 .. (IF message.type = "program_change" THEN 1 ELSE 2)
    BY <1>1
  <2>2. Len(message.data) \in Nat /\ DOMAIN message.data = 1 .. Len(message.data)
    BY <1>2, LenProperties
  <2> QED
    BY <2>1, <2>2
<1>4. message # NoMidi
  BY <1>1, Codes DEF NoMidi
<1> QED
  BY <1>1, <1>2, <1>3, <1>4

LEMMA MidiIsAny == MidiMessage \subseteq AnyMessage
<1> SUFFICES ASSUME NEW message \in MidiMessage
             PROVE  message \in AnyMessage
  OBVIOUS
<1>1. 1 .. 16 \subseteq Byte /\ Data \subseteq Byte
  BY DEF Byte, Data
<1> QED
  BY <1>1 DEF MidiMessage, AnyMessage, MessagesOf

LEMMA MidiParts ==
    ASSUME NEW message \in MidiMessage
    PROVE  /\ message.channel \in 1 .. 16 /\ message.type \in Types
           /\ message.data \in Seq(Data) /\ message.data # <<>>
           /\ Len(message.data) \in {1, 2}
           /\ Len(message.data) = 1 <=> message.type = "program_change"
           /\ \A k \in 1 .. Len(message.data) : message.data[k] \in Data
           /\ message = [channel |-> message.channel, type |-> message.type,
                         data |-> message.data]
           /\ message # NoMidi
<1>1. message \in MessagesOf(1 .. 16, Data)
  BY DEF MidiMessage
<1>2. /\ message.channel \in 1 .. 16 /\ message.type \in Types
      /\ message.data \in Seq(Data)
      /\ Len(message.data) = IF message.type = "program_change" THEN 1 ELSE 2
      /\ \A k \in 1 .. Len(message.data) : message.data[k] \in Data
      /\ message = [channel |-> message.channel, type |-> message.type,
                    data |-> message.data]
      /\ message # NoMidi
  BY <1>1, Parts
<1>3. Len(message.data) \in {1, 2}
  BY <1>2
<1>4. Len(message.data) = 1 <=> message.type = "program_change"
  BY <1>2
<1>5. message.data # <<>>
  BY <1>3, EmptySeq
<1> QED
  BY <1>2, <1>3, <1>4, <1>5

LEMMA StatusFacts ==
    ASSUME NEW message \in MidiMessage
    PROVE  /\ StatusOf(message) \in 128 .. 207 /\ StatusOf(message) # 0
           /\ StatusOf(message) \in Byte
           /\ Upper(StatusOf(message)) = Code[message.type]
           /\ StatusOf(message) % 16 = message.channel - 1
<1>1. message.channel \in 1 .. 16 /\ message.type \in Types
  BY MidiParts
<1>2. \A status \in 128 .. 207 : status # 0 /\ status \in Byte
  BY DEF Byte
<1> QED
  BY <1>1, <1>2, UpperOfCode DEF StatusOf

(* The bytes to come are the last ones of the data.                        *)
Ends(bytes, data) ==
    /\ Len(bytes) <= Len(data)
    /\ \A k \in 1 .. Len(bytes) : bytes[k] = data[Len(data) - Len(bytes) + k]

LEMMA EndsAll ==
    ASSUME NEW S, NEW data \in Seq(S)
    PROVE  Ends(data, data)
<1>1. Len(data) \in Nat
  BY LenProperties
<1> QED
  BY <1>1 DEF Ends

LEMMA EndsTail ==
    ASSUME NEW S, NEW data \in Seq(S), NEW bytes \in Seq(S), bytes # <<>>, Ends(bytes, data)
    PROVE  Ends(Tail(bytes), data)
<1>1. Len(data) \in Nat /\ Len(bytes) \in Nat
  BY LenProperties
<1>2. /\ Len(Tail(bytes)) = Len(bytes) - 1
      /\ \A k \in 1 .. Len(Tail(bytes)) : Tail(bytes)[k] = bytes[k + 1]
  BY HeadTailProperties
<1>3. ASSUME NEW k \in 1 .. Len(Tail(bytes))
      PROVE  Tail(bytes)[k] = data[Len(data) - Len(Tail(bytes)) + k]
  <2>1. k + 1 \in 1 .. Len(bytes)
    BY <1>1, <1>2
  <2>2. Len(data) - Len(bytes) + (k + 1) = Len(data) - Len(Tail(bytes)) + k
    BY <1>1, <1>2
  <2>3. bytes[k + 1] = data[Len(data) - Len(bytes) + (k + 1)]
    BY <2>1 DEF Ends
  <2> QED
    BY <1>2, <2>2, <2>3
<1>4. Len(Tail(bytes)) <= Len(data)
  BY <1>1, <1>2 DEF Ends
<1> QED
  BY <1>3, <1>4 DEF Ends

LEMMA OutputMessage ==
    ASSUME NEW d, NEW type \in Types, Code[type] = Upper(d.current_status)
    PROVE  output_message(d) =
             IF type = "control_change" /\ d.received_data[1] \in 120 .. 127 THEN NoMidi
             ELSE [channel |-> (d.current_status % 16) + 1, type |-> type,
                   data |-> IF type = "program_change" THEN <<d.received_data[1]>>
                            ELSE d.received_data]
<1>1. (CHOOSE t \in Types : Code[t] = Upper(d.current_status)) = type
  BY CodeOfOne
<1> QED
  BY <1>1 DEF output_message

LEMMA OutputType ==
    ASSUME NEW d, d.current_status \in Byte, d.received_data \in [1 .. 2 -> Byte],
           NEW type \in Types, Code[type] = Upper(d.current_status)
    PROVE  output_message(d) \in AnyMessage \union {NoMidi}
<1>1. (d.current_status % 16) + 1 \in Byte
  BY DEF Byte
<1>2. <<d.received_data[1]>> \in [1 .. 1 -> Byte]
  OBVIOUS
<1> QED
  BY <1>1, <1>2, OutputMessage, Codes DEF AnyMessage, MessagesOf
-----------------------------------------------------------------------------
(* What the decoder makes of one byte *)

Fit(d) ==
    Orderly(d) /\ d.current_status \in Byte /\ d.received_data \in [1 .. 2 -> Byte]

Decoded(d, byte) ==
    IF d.state = "IDLE" THEN decode_idle(d, byte) ELSE decode_message(d, byte)

(* The data byte of a program change *)
LEMMA OnlyByte ==
    ASSUME NEW d, Fit(d), NEW byte \in Byte, Upper(d.current_status) = PROGRAM_CHANGE
    PROVE  /\ decode_message(d, byte).decoder.state = "IDLE"
           /\ decode_message(d, byte).decoder.current_status = d.current_status
           /\ decode_message(d, byte).decoder.received_data \in [1 .. 2 -> Byte]
           /\ decode_message(d, byte).message =
                [channel |-> (d.current_status % 16) + 1, type |-> "program_change",
                 data |-> <<byte>>]
           /\ decode_message(d, byte).message \in AnyMessage
<1> DEFINE full == Decoder("IDLE", d.current_status,
                           [d.received_data EXCEPT ![1] = byte], d.data_count)
<1>1. /\ full.state = "IDLE" /\ full.current_status = d.current_status
      /\ full.received_data = [d.received_data EXCEPT ![1] = byte]
  BY DEF Decoder
<1>2. full.received_data \in [1 .. 2 -> Byte] /\ full.received_data[1] = byte
  BY <1>1 DEF Fit
<1>3. decode_message(d, byte) = [decoder |-> full, message |-> output_message(full)]
  BY DEF decode_message, Result
<1> HIDE DEF full
<1>4. Code["program_change"] = Upper(full.current_status) /\ "program_change" \in Types
  BY <1>1, Codes DEF PROGRAM_CHANGE
<1>5. output_message(full) =
        [channel |-> (d.current_status % 16) + 1, type |-> "program_change", data |-> <<byte>>]
  <2>1. output_message(full) =
          [channel |-> (full.current_status % 16) + 1, type |-> "program_change",
           data |-> <<full.received_data[1]>>]
    BY <1>4, OutputMessage
  <2> QED
    BY <1>1, <1>2, <2>1
<1>6. output_message(full) \in AnyMessage \union {NoMidi}
  BY <1>1, <1>2, <1>4, OutputType DEF Fit
<1>7. output_message(full) # NoMidi
  BY <1>5 DEF NoMidi
<1>8. /\ decode_message(d, byte).decoder = full
      /\ decode_message(d, byte).message = output_message(full)
  BY <1>3
<1> QED
  BY <1>1, <1>2, <1>5, <1>6, <1>7, <1>8

(* The first data byte of two *)
LEMMA FirstOfTwo ==
    ASSUME NEW d, Fit(d), NEW byte \in Byte,
           Upper(d.current_status) # PROGRAM_CHANGE, d.data_count = 0
    PROVE  /\ decode_message(d, byte).decoder.state = "GOT_MESSAGE"
           /\ decode_message(d, byte).decoder.current_status = d.current_status
           /\ decode_message(d, byte).decoder.data_count = 1
           /\ decode_message(d, byte).decoder.received_data \in [1 .. 2 -> Byte]
           /\ decode_message(d, byte).decoder.received_data[1] = byte
           /\ decode_message(d, byte).message = NoMidi
<1> DEFINE more == Decoder("GOT_MESSAGE", d.current_status,
                           [d.received_data EXCEPT ![1] = byte], 1)
<1>1. /\ more.state = "GOT_MESSAGE" /\ more.current_status = d.current_status
      /\ more.data_count = 1 /\ more.received_data = [d.received_data EXCEPT ![1] = byte]
  BY DEF Decoder
<1>2. more.received_data \in [1 .. 2 -> Byte] /\ more.received_data[1] = byte
  BY <1>1 DEF Fit
<1>3. d.data_count + 1 = 1
  OBVIOUS
<1>4. decode_message(d, byte) = [decoder |-> more, message |-> NoMidi]
  BY <1>1, <1>3 DEF decode_message, Result
<1> HIDE DEF more
<1> QED
  BY <1>1, <1>2, <1>4

(* The second data byte of two *)
LEMMA SecondOfTwo ==
    ASSUME NEW d, Fit(d), NEW byte \in Byte,
           NEW type \in Types, Code[type] = Upper(d.current_status),
           type # "program_change", d.data_count = 1
    PROVE  /\ decode_message(d, byte).decoder.state = "IDLE"
           /\ decode_message(d, byte).decoder.current_status = d.current_status
           /\ decode_message(d, byte).decoder.received_data \in [1 .. 2 -> Byte]
           /\ decode_message(d, byte).message =
                IF type = "control_change" /\ d.received_data[1] \in 120 .. 127 THEN NoMidi
                ELSE [channel |-> (d.current_status % 16) + 1, type |-> type,
                      data |-> <<d.received_data[1], byte>>]
           /\ decode_message(d, byte).message \in AnyMessage \union {NoMidi}
<1> DEFINE more == Decoder("GOT_MESSAGE", d.current_status,
                           [d.received_data EXCEPT ![2] = byte], 2)
<1>1. /\ more.current_status = d.current_status
      /\ more.data_count = 2 /\ more.received_data = [d.received_data EXCEPT ![2] = byte]
  BY DEF Decoder
<1>2. more.received_data \in [1 .. 2 -> Byte]
  BY <1>1 DEF Fit
<1>3. more.received_data = <<d.received_data[1], byte>>
  <2>1. d.received_data \in [1 .. 2 -> Byte]
    BY DEF Fit
  <2>2. DOMAIN more.received_data = 1 .. 2 /\ DOMAIN <<d.received_data[1], byte>> = 1 .. 2
    BY <1>2
  <2>3. more.received_data[1] = d.received_data[1] /\ more.received_data[2] = byte
    BY <1>1, <2>1
  <2> HIDE DEF more
  <2> QED
    BY <1>2, <2>3
<1>4. Upper(d.current_status) # PROGRAM_CHANGE
  BY Codes DEF PROGRAM_CHANGE
<1>5. decode_message(d, byte) = [decoder |-> Completed(more), message |-> output_message(more)]
  BY <1>1, <1>4 DEF decode_message, Result
<1> HIDE DEF more
<1>6. output_message(more) =
        IF type = "control_change" /\ d.received_data[1] \in 120 .. 127 THEN NoMidi
        ELSE [channel |-> (d.current_status % 16) + 1, type |-> type,
              data |-> <<d.received_data[1], byte>>]
  <2>1. output_message(more) =
          IF type = "control_change" /\ more.received_data[1] \in 120 .. 127 THEN NoMidi
          ELSE [channel |-> (d.current_status % 16) + 1, type |-> type,
                data |-> more.received_data]
    BY <1>1, OutputMessage
  <2>2. more.received_data[1] = d.received_data[1]
    BY <1>3
  <2> QED
    BY <1>3, <2>1, <2>2
<1>7. output_message(more) \in AnyMessage \union {NoMidi}
  BY <1>1, <1>2, OutputType DEF Fit
<1>8. /\ Completed(more).state = "IDLE" /\ Completed(more).current_status = d.current_status
      /\ Completed(more).received_data = more.received_data
  BY <1>1 DEF Completed, Decoder
<1> QED
  BY <1>2, <1>5, <1>6, <1>7, <1>8

(* A byte that changes nothing: data without a status, a status that the   *)
(* decoder does not know, and that does not interrupt a message            *)
Ignored(d, byte) ==
    /\ Decoded(d, byte).decoder.state = d.state
    /\ Decoded(d, byte).decoder.current_status = d.current_status
    /\ Decoded(d, byte).decoder.received_data = d.received_data
    /\ Decoded(d, byte).decoder.data_count = d.data_count
    /\ Decoded(d, byte).message = NoMidi

LEMMA NoUpper == \A byte \in Byte : Upper(byte) \in Nat /\ (byte < 128 => Upper(byte) < 128)
<1>1. \A byte \in Byte : byte % 16 \in 0 .. 15 /\ byte % 16 <= byte
  BY DEF Byte
<1> QED
  BY <1>1 DEF Upper, Byte

LEMMA DataIgnored ==
    ASSUME NEW d, Fit(d), NEW byte \in Data, d.current_status = 0
    PROVE  Ignored(d, byte)
<1>1. \A b \in Data : ~\E type \in Types : Upper(b) = Code[type]
  BY NoUpper, Codes DEF Data, Byte
<1>2. d.state = "IDLE"
  <2>1. 0 \in Data
    BY DEF Data
  <2> QED
    BY <1>1, <2>1 DEF Fit, Orderly
<1>3. decode_idle(d, byte) =
        Result(Decoder("IDLE", d.current_status, d.received_data, d.data_count), NoMidi)
  BY <1>1 DEF decode_idle, is_status_byte
<1> QED
  BY <1>2, <1>3 DEF Ignored, Decoded, Result, Decoder

LEMMA StatusIgnored ==
    ASSUME NEW d, Fit(d), NEW byte, is_status_byte(byte),
           \A type \in Types : Upper(byte) # Code[type], d.state = "IDLE"
    PROVE  Ignored(d, byte)
<1>1. decode_idle(d, byte) =
        Result(Decoder("IDLE", d.current_status, d.received_data, d.data_count), NoMidi)
  BY DEF decode_idle
<1> QED
  BY <1>1 DEF Ignored, Decoded, Result, Decoder

(* A status byte between messages *)
LEMMA StatusTaken ==
    ASSUME NEW d, Fit(d), NEW byte, is_status_byte(byte),
           \E type \in Types : Upper(byte) = Code[type], d.state = "IDLE"
    PROVE  /\ Decoded(d, byte).decoder.state = "GOT_MESSAGE"
           /\ Decoded(d, byte).decoder.current_status = byte
           /\ Decoded(d, byte).decoder.data_count = 0
           /\ Decoded(d, byte).decoder.received_data = d.received_data
           /\ Decoded(d, byte).message = NoMidi
<1>1. decode_idle(d, byte) =
        Result(Decoder("GOT_MESSAGE", byte, d.received_data, d.data_count), NoMidi)
  BY DEF decode_idle
<1>2. d.data_count = 0
  BY DEF Fit, Orderly
<1> QED
  BY <1>1, <1>2 DEF Decoded, Result, Decoder

(* A data byte once there is a status, and any byte within a message       *)
LEMMA DataTaken ==
    ASSUME NEW d, Fit(d), NEW byte \in Byte,
           d.state = "GOT_MESSAGE" \/ (d.current_status # 0 /\ byte \in Data)
    PROVE  Decoded(d, byte) = decode_message(d, byte)
<1>1. CASE d.state = "GOT_MESSAGE"
  BY <1>1 DEF Decoded
<1>2. CASE d.state # "GOT_MESSAGE"
  <2>1. d.current_status # 0 /\ byte \in Data /\ d.state = "IDLE"
    BY <1>2 DEF Fit, Orderly
  <2>2. PICK type \in Types : Upper(d.current_status) = Code[type]
    BY <2>1 DEF Fit, Orderly
  <2>3. is_status_byte(d.current_status) /\ ~is_status_byte(byte)
    BY <2>1, <2>2, NoUpper, Codes DEF Fit, is_status_byte, Data, Byte
  <2> QED
    BY <2>1, <2>3 DEF Decoded, decode_idle
<1> QED
  BY <1>1, <1>2

(* Whatever the byte is, the decoder stays fit.                            *)
LEMMA DecodedFit ==
    ASSUME NEW d, Fit(d), NEW byte \in Byte
    PROVE  /\ Fit(Decoded(d, byte).decoder)
           /\ Decoded(d, byte).message \in AnyMessage \union {NoMidi}
<1>1. Orderly(Decoded(d, byte).decoder)
  BY IdleOrderly, MessageOrderly DEF Decoded, Fit, Orderly
<1>2. CASE d.state = "GOT_MESSAGE" \/ (d.current_status # 0 /\ byte \in Data)
  <2>1. Decoded(d, byte) = decode_message(d, byte)
    BY <1>2, DataTaken
  <2>2. PICK type \in Types : Code[type] = Upper(d.current_status)
    BY <1>2 DEF Fit, Orderly
  <2>3. CASE type = "program_change"
    <3>1. Upper(d.current_status) = PROGRAM_CHANGE
      BY <2>2, <2>3, Codes DEF PROGRAM_CHANGE
    <3>2. /\ decode_message(d, byte).decoder.current_status = d.current_status
          /\ decode_message(d, byte).decoder.received_data \in [1 .. 2 -> Byte]
          /\ decode_message(d, byte).message \in AnyMessage
      BY <3>1, OnlyByte
    <3> QED
      BY <1>1, <2>1, <3>2 DEF Fit
  <2>4. CASE type # "program_change" /\ d.data_count = 0
    <3>1. Upper(d.current_status) # PROGRAM_CHANGE
      BY <2>2, <2>4, Codes DEF PROGRAM_CHANGE
    <3>2. /\ decode_message(d, byte).decoder.current_status = d.current_status
          /\ decode_message(d, byte).decoder.received_data \in [1 .. 2 -> Byte]
          /\ decode_message(d, byte).message = NoMidi
      BY <2>4, <3>1, FirstOfTwo
    <3> QED
      BY <1>1, <2>1, <3>2 DEF Fit
  <2>5. CASE type # "program_change" /\ d.data_count = 1
    <3>1. /\ decode_message(d, byte).decoder.current_status = d.current_status
          /\ decode_message(d, byte).decoder.received_data \in [1 .. 2 -> Byte]
          /\ decode_message(d, byte).message \in AnyMessage \union {NoMidi}
      BY <2>2, <2>5, SecondOfTwo
    <3> QED
      BY <1>1, <2>1, <3>1 DEF Fit
  <2> QED
    BY <2>3, <2>4, <2>5 DEF Fit, Orderly
<1>3. CASE d.state # "GOT_MESSAGE" /\ d.current_status = 0 /\ byte \in Data
  BY <1>1, <1>3, DataIgnored DEF Ignored, Fit
<1>4. CASE d.state # "GOT_MESSAGE" /\ byte \notin Data
  <2>1. d.state = "IDLE" /\ is_status_byte(byte)
    BY <1>4 DEF Fit, Orderly, Byte, Data, is_status_byte
  <2>2. CASE \E type \in Types : Upper(byte) = Code[type]
    BY <1>1, <2>1, <2>2, StatusTaken DEF Fit
  <2>3. CASE \A type \in Types : Upper(byte) # Code[type]
    BY <1>1, <2>1, <2>3, StatusIgnored DEF Ignored, Fit
  <2> QED
    BY <2>2, <2>3
<1> QED
  BY <1>2, <1>3, <1>4
-----------------------------------------------------------------------------
(* What a message does to the parameters *)

Sound(params) ==
    /\ params = [live |-> params.live, heard |-> params.heard]
    /\ params.live \in [Params -> Data] /\ params.heard \in [Params -> Byte]

(* From one state of the parameters to another: what was heard is played.  *)
Saved(old, new) ==
    \A p \in Params : new.live[p] # old.live[p] \/ new.heard[p] # old.heard[p] =>
                          new.heard[p] = new.live[p]

LEMMA SetSound ==
    ASSUME NEW params, Sound(params), NEW p \in Params, NEW v \in Byte
    PROVE  Sound(Set(p, v, params))
<1>1. Accepts(v) => v \in Data
  BY DEF Accepts, Data, Byte
<1>2. (IF Accepts(v) THEN [params.live EXCEPT ![p] = v] ELSE params.live) \in [Params -> Data]
  BY <1>1 DEF Sound
<1>3. [params.heard EXCEPT ![p] = v] \in [Params -> Byte]
  BY DEF Sound
<1> QED
  BY <1>2, <1>3 DEF Sound, Set

LEMMA SetSaved ==
    ASSUME NEW old, NEW params, Sound(old), Sound(params), Saved(old, params),
           NEW p \in Params, NEW v \in Data
    PROVE  Saved(old, Set(p, v, params))
<1>1. Accepts(v)
  BY DEF Accepts, Data
<1>2. /\ Set(p, v, params).live = [params.live EXCEPT ![p] = v]
      /\ Set(p, v, params).heard = [params.heard EXCEPT ![p] = v]
  BY <1>1 DEF Set
<1>3. ASSUME NEW q \in Params
      PROVE  \/ Set(p, v, params).live[q] = v /\ Set(p, v, params).heard[q] = v
             \/ /\ Set(p, v, params).live[q] = params.live[q]
                /\ Set(p, v, params).heard[q] = params.heard[q]
  BY <1>2 DEF Sound
<1> QED
  BY <1>3 DEF Saved

(* What one mapping may do: nothing, set one parameter, or load a preset   *)
LEMMA ApplyCases ==
    ASSUME NEW params, Sound(params), NEW mapping \in Mapping, NEW value \in Byte
    PROVE  \/ Apply(mapping, value, params) = params
           \/ mapping.target \in Params
              /\ Apply(mapping, value, params) = Set(mapping.target, value, params)
           \/ mapping.target \in Params
              /\ \E v \in Data : Apply(mapping, value, params) = Set(mapping.target, v, params)
           \/ mapping.target \in Loads
              /\ Apply(mapping, value, params) =
                   [live |-> mapping.target, heard |-> mapping.target]
<1>1. \/ mapping.mode \in {"parameter", "toggle"} /\ mapping.target \in Params
      \/ mapping.mode = "button" /\ mapping.target \in Loads
  BY DEF Mapping
<1>2. CASE mapping.mode = "parameter" /\ mapping.target \in Params
  <2>1. Apply(mapping, value, params) = Set(mapping.target, value, params)
    BY <1>2, Zenon DEF Apply
  <2> QED
    BY <1>2, <2>1
<1>3. CASE mapping.mode = "toggle" /\ mapping.target \in Params
  <2>1. mapping.mode # "parameter" /\ mapping.mode # "button"
    BY <1>3
  <2>2. CASE value = 0
    <3>1. Apply(mapping, value, params) = params
      BY <1>3, <2>1, <2>2, Zenon DEF Apply
    <3> QED
      BY <3>1
  <2>3. CASE value # 0
    <3>1. Apply(mapping, value, params) =
            Set(mapping.target,
                IF 2 * params.live[mapping.target] < 127 THEN 127 ELSE 0, params)
      BY <1>3, <2>1, <2>3, Zenon DEF Apply
    <3>2. (IF 2 * params.live[mapping.target] < 127 THEN 127 ELSE 0) \in Data
      BY DEF Data
    <3> QED
      BY <1>3, <3>1, <3>2
  <2> QED
    BY <2>2, <2>3
<1>4. CASE mapping.mode = "button" /\ mapping.target \in Loads
  <2>1. mapping.mode # "parameter" /\ mapping.mode # "toggle"
    BY <1>4
  <2>2. CASE value = CC_VALUE_MAX
    <3>1. Apply(mapping, value, params) = [live |-> mapping.target, heard |-> mapping.target]
      BY <1>4, <2>1, <2>2, Zenon DEF Apply
    <3> QED
      BY <1>4, <3>1
  <2>3. CASE value # CC_VALUE_MAX
    <3>1. Apply(mapping, value, params) = params
      BY <1>4, <2>1, <2>3, Zenon DEF Apply
    <3> QED
      BY <3>1
  <2> QED
    BY <2>2, <2>3
<1> QED
  BY <1>1, <1>2, <1>3, <1>4

LEMMA LoadSound ==
    ASSUME NEW preset \in Loads
    PROVE  Sound([live |-> preset, heard |-> preset])
<1>1. preset \in [Params -> Data]
  BY MidiAssumption
<1>2. Data \subseteq Byte
  BY DEF Data, Byte
<1> QED
  BY <1>1, <1>2 DEF Sound

LEMMA ApplySound ==
    ASSUME NEW params, Sound(params), NEW mapping \in Mapping, NEW value \in Byte
    PROVE  Sound(Apply(mapping, value, params))
<1>1. Data \subseteq Byte
  BY DEF Data, Byte
<1> QED
  BY <1>1, ApplyCases, SetSound, LoadSound

LEMMA ApplySaved ==
    ASSUME NEW old, NEW params, Sound(old), Sound(params), Saved(old, params),
           NEW mapping \in Mapping, NEW value \in Data
    PROVE  Saved(old, Apply(mapping, value, params))
<1>1. value \in Byte
  BY DEF Data, Byte
<1>2. CASE Apply(mapping, value, params) = params
  BY <1>2
<1>3. CASE mapping.target \in Params
           /\ \E v \in Data : Apply(mapping, value, params) = Set(mapping.target, v, params)
  BY <1>3, SetSaved
<1>4. CASE Apply(mapping, value, params) = [live |-> mapping.target, heard |-> mapping.target]
  BY <1>4 DEF Saved
<1> QED
  BY <1>1, <1>2, <1>3, <1>4, ApplyCases

-----------------------------------------------------------------------------
(* The loop over the mappings, by induction on its rounds *)

LEMMA Induction ==
    ASSUME NEW T, 0 \in T, \A n \in Nat : n \in T => n + 1 \in T
    PROVE  Nat \subseteq T
<1> SUFFICES ASSUME Nat \ T # {}
             PROVE  FALSE
  OBVIOUS
<1>1. IsWellFoundedOn(OpToRel(<, Nat), Nat)
  BY NatLessThanWellFounded
<1>2. PICK x \in Nat \ T : \A y \in Nat \ T : ~(<<y, x>> \in OpToRel(<, Nat))
  BY <1>1, WFMin
<1>3. x - 1 \in Nat \ T /\ x - 1 < x
  OBVIOUS
<1>4. <<x - 1, x>> \in OpToRel(<, Nat)
  BY <1>3 DEF OpToRel
<1> QED
  BY <1>2, <1>3, <1>4

Turn(mapping, message, params) ==
    IF mapping.channel = message.channel /\ mapping.cc = message.data[1]
    THEN Apply(mapping, message.data[2], params)
    ELSE params

(* f holds the parameters after each of the first n rounds.                *)
Rounds(order, message, params, f, n) ==
    f = [i \in 0 .. n |-> IF i = 0 THEN params ELSE Turn(order[i], message, f[i - 1])]

LEMMA RoundsExist ==
    ASSUME NEW order, NEW message, NEW params
    PROVE  \A n \in Nat : \E f : Rounds(order, message, params, f, n)
<1> DEFINE T == {n \in Nat : \E f : Rounds(order, message, params, f, n)}
<1>1. 0 \in T
  <2> DEFINE f == [i \in 0 .. 0 |-> params]
  <2>1. f = [i \in 0 .. 0 |-> IF i = 0 THEN params ELSE Turn(order[i], message, f[i - 1])]
    OBVIOUS
  <2> QED
    BY <2>1 DEF Rounds
<1>2. ASSUME NEW n \in Nat, n \in T
      PROVE  n + 1 \in T
  <2>1. PICK f : f = [i \in 0 .. n |->
                        IF i = 0 THEN params ELSE Turn(order[i], message, f[i - 1])]
    BY <1>2 DEF Rounds
  <2> DEFINE g == [i \in 0 .. n + 1 |->
                     IF i = 0 THEN params ELSE Turn(order[i], message, f[i - 1])]
  <2>2. \A i \in 0 .. n : g[i] = f[i]
    BY <2>1
  <2>3. \A i \in 0 .. n + 1 : i # 0 => i - 1 \in 0 .. n
    OBVIOUS
  <2>4. \A i \in 0 .. n + 1 : i # 0 => g[i - 1] = f[i - 1]
    BY <2>2, <2>3
  <2> HIDE DEF g
  <2>5. g = [i \in 0 .. n + 1 |-> IF i = 0 THEN params ELSE Turn(order[i], message, g[i - 1])]
    BY <2>4 DEF g
  <2> QED
    BY <2>5 DEF Rounds
<1> HIDE DEF T
<1>3. Nat \subseteq T
  BY <1>1, <1>2, Induction
<1> QED
  BY <1>3 DEF T

LEMMA AppliedInRounds ==
    ASSUME NEW S, NEW order \in Seq(S), NEW message, NEW params
    PROVE  \E f : /\ Rounds(order, message, params, f, Len(order))
                  /\ Applied(order, message, params) = f[Len(order)]
<1> DEFINE f == CHOOSE f : Rounds(order, message, params, f, Len(order))
<1>1. Rounds(order, message, params, f, Len(order))
  BY RoundsExist
<1>2. Applied(order, message, params) = f[Len(order)]
  BY DEF Applied, Rounds, Turn
<1> QED
  BY <1>1, <1>2

(* However many mappings there are, the parameters stay in their range, and*)
(* a value that MIDI allows is saved as it is played.                      *)
LEMMA AppliedSound ==
    ASSUME NEW order \in Seq(Mapping), NEW message,
           message.data[2] \in Byte, NEW params, Sound(params)
    PROVE  /\ Sound(Applied(order, message, params))
           /\ message.data[2] \in Data => Saved(params, Applied(order, message, params))
<1>1. PICK f : /\ Rounds(order, message, params, f, Len(order))
               /\ Applied(order, message, params) = f[Len(order)]
  BY AppliedInRounds
<1>2. Len(order) \in Nat
  BY LenProperties
<1>3. f = [i \in 0 .. Len(order) |->
             IF i = 0 THEN params ELSE Turn(order[i], message, f[i - 1])]
  BY <1>1 DEF Rounds
<1> DEFINE T == {n \in Nat : n <= Len(order) =>
                    /\ Sound(f[n])
                    /\ message.data[2] \in Data => Saved(params, f[n])}
<1>4. 0 \in T
  <2>1. f[0] = params
    BY <1>2, <1>3
  <2> QED
    BY <2>1 DEF Saved
<1>5. ASSUME NEW n \in Nat, n \in T
      PROVE  n + 1 \in T
  <2> SUFFICES ASSUME n + 1 <= Len(order)
               PROVE  /\ Sound(f[n + 1])
                      /\ message.data[2] \in Data => Saved(params, f[n + 1])
    OBVIOUS
  <2>1. Sound(f[n]) /\ (message.data[2] \in Data => Saved(params, f[n]))
    BY <1>2, <1>5
  <2>2. f[n + 1] = Turn(order[n + 1], message, f[n])
    BY <1>2, <1>3
  <2>3. order[n + 1] \in Mapping
    BY <1>2, ElementOfSeq
  <2>4. CASE f[n + 1] = f[n]
    BY <2>1, <2>4
  <2>5. CASE f[n + 1] = Apply(order[n + 1], message.data[2], f[n])
    BY <2>1, <2>3, <2>5, ApplySound, ApplySaved
  <2> QED
    BY <2>2, <2>4, <2>5 DEF Turn
<1> HIDE DEF T
<1>6. Len(order) \in T
  BY <1>2, <1>4, <1>5, Induction
<1>7. /\ Sound(f[Len(order)])
      /\ message.data[2] \in Data => Saved(params, f[Len(order)])
  BY <1>2, <1>6 DEF T
<1> QED
  BY <1>1, <1>7
-----------------------------------------------------------------------------
(* Types: the decoder, what is played and told, and the wire               *)

DecoderFit == Fit(decoder)

Playing ==
    /\ live \in [Params -> Data] /\ heard \in [Params -> Byte]
    /\ last \in AnyMessage \union {NoMidi} /\ out \in AnyMessage \union {NoMidi}
    /\ notified \in AnyMessage \union {NoMidi} /\ shown \in AnyMessage \union {NoMidi}
    /\ waiting \in BOOLEAN
    /\ mappings \in Mappings

(* The message on the wire, and that the bytes to come are its last ones   *)
OnTheWire ==
    /\ whole.message \in MidiMessage \union {NoMidi} /\ whole.explicit \in BOOLEAN
    /\ running = IF whole.message = NoMidi THEN 0 ELSE StatusOf(whole.message)
    /\ rest \in Seq(Data)
    /\ whole.message # NoMidi => Ends(rest, whole.message.data)

Counted ==
    /\ sent \in 0 .. MaxMessages /\ upsets \in 0 .. MaxUpsets
    /\ intact \in 0 .. Enough
    /\ due \in MidiMessage \union {NoMidi}

TypeInv == DecoderFit /\ Playing /\ OnTheWire /\ Counted

LEMMA OrderlyIsOK == DecoderOK <=> Orderly(decoder)
  BY DEF DecoderOK, Orderly

LEMMA TypeInvInit == Init => TypeInv
<1> SUFFICES ASSUME Init
             PROVE  TypeInv
  OBVIOUS
<1>1. DecoderFit
  BY DEF Init, DecoderFit, Fit, Orderly, Decoder, Byte
<1>2. live \in [Params -> Data] /\ Data \subseteq Byte
  <2>1. live \in Loads
    BY DEF Init
  <2>2. Loads \subseteq [Params -> Data]
    BY MidiAssumption
  <2> QED
    BY <2>1, <2>2 DEF Data, Byte
<1>3. Playing
  BY <1>2 DEF Init, Playing
<1>4. OnTheWire
  BY DEF Init, OnTheWire
<1>5. Counted
  BY MidiAssumption DEF Init, Counted, Enough
<1> QED
  BY <1>1, <1>3, <1>4, <1>5 DEF TypeInv

LEMMA MessagePlayed ==
    ASSUME Playing, NEW message \in AnyMessage \union {NoMidi}, on_midi_message(message)
    PROVE  /\ live' \in [Params -> Data] /\ heard' \in [Params -> Byte]
           /\ last' \in AnyMessage \union {NoMidi}
           /\ message \in MidiMessage \union {NoMidi} =>
                \A p \in Params : live'[p] # live[p] \/ heard'[p] # heard[p] =>
                                      heard'[p] = live'[p]
<1> DEFINE old == [live |-> live, heard |-> heard]
           new == process_message(message)
<1>1. CASE message = NoMidi
  BY <1>1 DEF on_midi_message, Playing
<1>2. CASE message # NoMidi
  <2>1. Sound(old)
    BY DEF Sound, Playing
  <2>2. last' = message /\ live' = new.live /\ heard' = new.heard
    BY <1>2 DEF on_midi_message
  <2>3. Sound(new) /\ (message \in MidiMessage => Saved(old, new))
    <3>1. CASE message.type # "control_change"
      <4>1. new = old
        BY <3>1 DEF process_message
      <4> QED
        BY <2>1, <4>1 DEF Saved
    <3>2. CASE message.type = "control_change"
      <4>1. new = Applied(mappings, message, old)
        BY <3>2 DEF process_message
      <4>2. mappings \in Seq(Mapping)
        BY MidiAssumption DEF Playing
      <4>3. message \in AnyMessage
        BY <1>2
      <4>4. message.data[2] \in Byte
        BY <3>2, <4>3, Parts DEF AnyMessage
      <4>5. message \in MidiMessage => message.data[2] \in Data
        BY <3>2, Parts DEF MidiMessage
      <4> HIDE DEF old, new
      <4> QED
        BY <2>1, <4>1, <4>2, <4>4, <4>5, AppliedSound
    <3> QED
      BY <3>1, <3>2
  <2> QED
    BY <1>2, <2>2, <2>3 DEF Sound, Saved
<1> QED
  BY <1>1, <1>2

LEMMA DecodePlayed ==
    ASSUME DecoderFit, Playing, NEW byte \in Byte, Decode(byte)
    PROVE  DecoderFit' /\ Playing'
<1>1. decode(byte) = Decoded(decoder, byte)
  BY DEF decode, Decoded
<1>2. /\ Fit(Decoded(decoder, byte).decoder)
      /\ Decoded(decoder, byte).message \in AnyMessage \union {NoMidi}
  BY DecodedFit DEF DecoderFit
<1>3. /\ decoder' = Decoded(decoder, byte).decoder
      /\ out' \in AnyMessage \union {NoMidi} /\ on_midi_message(out')
      /\ UNCHANGED <<mappings, notified, waiting, shown>>
  BY <1>1, <1>2 DEF Decode
<1>4. DecoderFit'
  BY <1>2, <1>3 DEF DecoderFit
<1>5. /\ live' \in [Params -> Data] /\ heard' \in [Params -> Byte]
      /\ last' \in AnyMessage \union {NoMidi}
  BY <1>3, MessagePlayed
<1> QED
  BY <1>3, <1>4, <1>5 DEF Playing

(* The next byte of the message is taken from what is to come.             *)
LEMMA RestTail ==
    ASSUME OnTheWire, rest # <<>>, rest' = Tail(rest), UNCHANGED <<whole, running>>
    PROVE  OnTheWire'
<1>1. rest' \in Seq(Data)
  BY HeadTailProperties DEF OnTheWire
<1>2. CASE whole.message = NoMidi
  BY <1>1, <1>2 DEF OnTheWire
<1>3. CASE whole.message # NoMidi
  <2>1. whole.message \in MidiMessage /\ Ends(rest, whole.message.data)
    BY <1>3 DEF OnTheWire
  <2>2. whole.message.data \in Seq(Data)
    BY <2>1, MidiParts
  <2>3. Ends(rest', whole.message.data)
    BY <2>1, <2>2, EndsTail DEF OnTheWire
  <2> QED
    BY <1>1, <1>3, <2>3 DEF OnTheWire
<1> QED
  BY <1>2, <1>3

LEMMA BeginsOnTheWire ==
    ASSUME OnTheWire, Counted, NEW message \in Sent, NEW explicit \in BOOLEAN,
           Begins(message, explicit)
    PROVE  /\ OnTheWire' /\ sent' \in 0 .. MaxMessages
           /\ whole'.message = message /\ whole'.explicit = explicit
           /\ message \in MidiMessage
<1>1. message \in MidiMessage
  BY MidiAssumption
<1>2. message.data \in Seq(Data) /\ message.data # <<>> /\ message # NoMidi
  BY <1>1, MidiParts
<1>3. /\ whole' = [message |-> message, explicit |-> explicit]
      /\ running' = StatusOf(message)
      /\ rest' = IF explicit THEN message.data ELSE Tail(message.data)
      /\ sent < MaxMessages /\ sent' = sent + 1
  BY DEF Begins, Begin
<1>4. sent' \in 0 .. MaxMessages
  BY <1>3, MidiAssumption DEF Counted
<1>5. rest' \in Seq(Data) /\ Ends(rest', message.data)
  BY <1>2, <1>3, EndsAll, EndsTail, HeadTailProperties
<1>6. OnTheWire'
  BY <1>1, <1>2, <1>3, <1>5 DEF OnTheWire
<1> QED
  BY <1>1, <1>3, <1>4, <1>6

LEMMA DueType ==
    ASSUME Counted, NEW message \in MidiMessage \union {NoMidi}, NEW explicit \in BOOLEAN,
           Undisturbed(message, explicit)
    PROVE  /\ due' \in MidiMessage \union {NoMidi} /\ intact' \in 0 .. Enough
           /\ upsets' \in 0 .. MaxUpsets
<1>1. due' \in MidiMessage \union {NoMidi}
  BY DEF Undisturbed, ForUs
<1>2. intact' \in {0, intact} \/ (intact # Enough /\ intact' = intact + 1)
  BY DEF Undisturbed
<1>3. intact' \in 0 .. Enough
  BY <1>2 DEF Counted, Enough
<1> QED
  BY <1>1, <1>3 DEF Undisturbed, Counted

LEMMA DisturbedType ==
    ASSUME Counted, Disturbed
    PROVE  /\ due' \in MidiMessage \union {NoMidi} /\ intact' \in 0 .. Enough
           /\ upsets' \in 0 .. MaxUpsets
  BY MidiAssumption DEF Disturbed, Counted, Enough
LEMMA FirstByteTypes ==
    ASSUME TypeInv, NEW message \in Sent, NEW explicit \in BOOLEAN,
           FirstByte(message, explicit)
    PROVE  TypeInv'
<1> USE DEF TypeInv
<1>1. OnTheWire' /\ sent' \in 0 .. MaxMessages /\ message \in MidiMessage
  BY BeginsOnTheWire DEF FirstByte
<1>2. (IF explicit THEN StatusOf(message) ELSE message.data[1]) \in Byte
  <2>1. StatusOf(message) \in Byte
    BY <1>1, StatusFacts
  <2>2. message.data[1] \in Data
    BY <1>1, MidiParts
  <2> QED
    BY <2>1, <2>2 DEF Data, Byte
<1>3. DecoderFit' /\ Playing'
  BY <1>2, DecodePlayed DEF FirstByte
<1>4. Counted'
  BY <1>1, DueType DEF FirstByte, Counted
<1> QED
  BY <1>1, <1>3, <1>4

LEMMA UnknownBytes ==
    ASSUME NEW bytes \in Unknown
    PROVE  /\ bytes[1] \in Byte /\ is_status_byte(bytes[1])
           /\ \A type \in Types : Upper(bytes[1]) # Code[type]
           /\ Tail(bytes) \in Seq(Data)
<1>1. bytes \in Seq(Byte) /\ bytes # <<>>
  BY MidiAssumption
<1>2. Len(bytes) \in Nat \ {0}
  BY <1>1, EmptySeq
<1>3. bytes[1] \in Byte
  BY <1>1, <1>2, ElementOfSeq
<1> QED
  BY <1>3, MidiAssumption

LEMMA FirstUnknownByteTypes ==
    ASSUME TypeInv, NEW bytes \in Unknown, FirstUnknownByte(bytes)
    PROVE  TypeInv'
<1> USE DEF TypeInv
<1>1. /\ whole' = [message |-> NoMidi, explicit |-> TRUE] /\ running' = 0
      /\ rest' = Tail(bytes) /\ sent < MaxMessages /\ sent' = sent + 1
  BY DEF FirstUnknownByte, Begin
<1>2. OnTheWire'
  BY <1>1, UnknownBytes DEF OnTheWire
<1>3. sent' \in 0 .. MaxMessages
  BY <1>1, MidiAssumption DEF Counted
<1>4. DecoderFit' /\ Playing'
  BY UnknownBytes, DecodePlayed DEF FirstUnknownByte
<1>5. Counted'
  BY <1>3, DueType DEF FirstUnknownByte, Counted
<1> QED
  BY <1>2, <1>4, <1>5

LEMMA NextByteTypes ==
    ASSUME TypeInv, NextByte
    PROVE  TypeInv'
<1> USE DEF TypeInv
<1>1. OnTheWire'
  BY RestTail DEF NextByte
<1>2. Head(rest) \in Byte
  <2>1. Head(rest) \in Data
    BY HeadTailProperties DEF NextByte, OnTheWire
  <2> QED
    BY <2>1 DEF Data, Byte
<1>3. DecoderFit' /\ Playing'
  BY <1>2, DecodePlayed DEF NextByte
<1>4. whole.message \in MidiMessage \union {NoMidi} /\ whole.explicit \in BOOLEAN
  BY DEF OnTheWire
<1>5. Counted'
  BY <1>4, DueType DEF NextByte, Counted
<1> QED
  BY <1>1, <1>3, <1>5

LEMMA LostTypes ==
    ASSUME TypeInv, Lost
    PROVE  TypeInv'
<1> USE DEF TypeInv
<1>1. DecoderFit' /\ Playing'
  BY DEF Lost, DecoderFit, Playing
<1>2. OnTheWire' /\ sent' \in 0 .. MaxMessages
  <2>1. CASE \E message \in Sent, explicit \in BOOLEAN : Begins(message, explicit)
    BY <2>1, BeginsOnTheWire
  <2>2. CASE rest # <<>> /\ rest' = Tail(rest) /\ UNCHANGED <<whole, running, sent>>
    BY <2>2, RestTail DEF Counted
  <2> QED
    BY <2>1, <2>2 DEF Lost
<1>3. Counted'
  BY <1>2, DisturbedType DEF Lost, Counted
<1> QED
  BY <1>1, <1>2, <1>3

LEMMA ClockUnknown ==
    /\ Clock \in Byte /\ is_status_byte(Clock)
    /\ \A type \in Types : Upper(Clock) # Code[type]
<1>1. Upper(248) = 240
  BY DEF Upper
<1> QED
  BY <1>1, Codes DEF Clock, Byte, is_status_byte

LEMMA RealTimeTypes ==
    ASSUME TypeInv, RealTime
    PROVE  TypeInv'
<1> USE DEF TypeInv
<1>1. DecoderFit' /\ Playing'
  BY ClockUnknown, DecodePlayed DEF RealTime
<1>2. OnTheWire' /\ sent' \in 0 .. MaxMessages
  BY DEF RealTime, OnTheWire, Counted
<1>3. Counted'
  BY <1>2, DisturbedType DEF RealTime, Counted
<1> QED
  BY <1>1, <1>2, <1>3

LEMMA ConsoleTypes ==
    ASSUME TypeInv, NEW message \in Console, ConsoleMessage(message)
    PROVE  TypeInv'
<1> USE DEF TypeInv
<1>1. message \in AnyMessage
  BY MidiAssumption
<1>2. /\ live' \in [Params -> Data] /\ heard' \in [Params -> Byte]
      /\ last' \in AnyMessage \union {NoMidi}
  BY <1>1, MessagePlayed DEF ConsoleMessage
<1>3. Playing'
  BY <1>2 DEF ConsoleMessage, Playing
<1>4. DecoderFit' /\ OnTheWire' /\ Counted'
  BY DEF ConsoleMessage, wire, DecoderFit, OnTheWire, Counted
<1> QED
  BY <1>3, <1>4

LEMMA ToldTypes ==
    ASSUME TypeInv, Notify \/ NotifyTimer \/ UNCHANGED vars
    PROVE  TypeInv'
<1> USE DEF TypeInv
<1>1. DecoderFit' /\ OnTheWire' /\ Counted'
  BY DEF Notify, NotifyTimer, vars, wire, DecoderFit, OnTheWire, Counted
<1>2. Playing'
  BY DEF Notify, NotifyTimer, vars, Playing
<1> QED
  BY <1>1, <1>2

LEMMA TypeInvNext == TypeInv /\ [Next]_vars => TypeInv'
  BY FirstByteTypes, FirstUnknownByteTypes, NextByteTypes, LostTypes, RealTimeTypes,
     ConsoleTypes, ToldTypes DEF Next

LEMMA TypeInvTypes == TypeInv => TypeOK
<1> SUFFICES ASSUME TypeInv
             PROVE  TypeOK
  OBVIOUS
<1> USE DEF TypeInv
<1>1. /\ DecoderOK
      /\ decoder.current_status \in Byte /\ decoder.received_data \in [1 .. 2 -> Byte]
  BY OrderlyIsOK DEF DecoderFit, Fit
<1>2. due \in AnyMessage \union {NoMidi}
  BY MidiIsAny DEF Counted
<1>3. running \in Byte
  <2>1. CASE whole.message = NoMidi
    BY <2>1 DEF OnTheWire, Byte
  <2>2. CASE whole.message # NoMidi
    <3>1. whole.message \in MidiMessage /\ running = StatusOf(whole.message)
      BY <2>2 DEF OnTheWire
    <3> QED
      BY <3>1, StatusFacts
  <2> QED
    BY <2>1, <2>2
<1> QED
  BY <1>1, <1>2, <1>3 DEF TypeOK, Playing, OnTheWire, Counted

LEMMA AlwaysTypeInv == Spec => []TypeInv
  BY TypeInvInit, TypeInvNext, PTL DEF Spec

(* Whatever comes from the controller, the console and the mappings, and   *)
(* however many mappings there are, parameters never leave their range:    *)
(* AudioParameterFloat::update refuses what the handler lets through.      *)
THEOREM TypeCorrect == Spec => []TypeOK
  BY AlwaysTypeInv, TypeInvTypes, PTL
-----------------------------------------------------------------------------
(* The decoder and the stream                                              *)
(*                                                                         *)
(* Where the decoder is in the message on the wire, and how far it has     *)
(* found back after one, two and Enough complete messages: after the first *)
(* it is between messages or waits for one byte, after the second it is    *)
(* between messages, after the third it knows the status too.              *)

Known == whole.message # NoMidi

Full == Known /\ Counts(whole.message, whole.explicit)

InPlace ==
    /\ decoder.state = "GOT_MESSAGE" /\ decoder.current_status = running
    /\ decoder.data_count = Len(whole.message.data) - Len(rest)
    /\ decoder.data_count = 1 => decoder.received_data[1] = whole.message.data[1]

Awake == ~Known => decoder.current_status = 0

AfterOne ==
    /\ Awake
    /\ rest = <<>> => decoder.state = "IDLE" \/ decoder.data_count = 1
    /\ Full /\ Len(rest) = 2 =>
          \/ InPlace
          \/ /\ decoder.state = "IDLE" /\ decoder.current_status # 0
             /\ Upper(decoder.current_status) # PROGRAM_CHANGE
    /\ Full /\ Len(rest) = 1 => decoder.data_count = 1

AfterTwo ==
    /\ Awake
    /\ rest = <<>> => decoder.state = "IDLE"
    /\ Full /\ rest # <<>> => InPlace

AfterEnough ==
    /\ Awake
    /\ Known /\ rest = <<>> => decoder.state = "IDLE" /\ decoder.current_status = running
    /\ Known /\ rest # <<>> => InPlace
    /\ out = due

InStep ==
    /\ intact = 1 => AfterOne
    /\ intact = 2 => AfterTwo
    /\ intact = Enough => AfterEnough

(* The status byte of a message that the decoder is ready for              *)
LEMMA TakeStatus ==
    ASSUME NEW d, Fit(d), NEW message \in MidiMessage, d.state = "IDLE"
    PROVE  /\ Decoded(d, StatusOf(message)).decoder.state = "GOT_MESSAGE"
           /\ Decoded(d, StatusOf(message)).decoder.current_status = StatusOf(message)
           /\ Decoded(d, StatusOf(message)).decoder.data_count = 0
           /\ Decoded(d, StatusOf(message)).message = NoMidi
<1>1. is_status_byte(StatusOf(message)) /\ \E type \in Types : Upper(StatusOf(message)) = Code[type]
  <2>1. StatusOf(message) \in 128 .. 207
    BY StatusFacts
  <2>2. message.type \in Types /\ Upper(StatusOf(message)) = Code[message.type]
    BY StatusFacts, MidiParts
  <2> QED
    BY <2>1, <2>2 DEF is_status_byte
<1> QED
  BY <1>1, StatusTaken

(* The data bytes of a message that the decoder is in, or has the status of*)
LEMMA TakeLast ==
    ASSUME NEW d, Fit(d), NEW message \in MidiMessage, d.current_status = StatusOf(message),
           d.data_count + 1 = Len(message.data),
           d.data_count = 1 => d.received_data[1] = message.data[1]
    PROVE  LET byte == message.data[d.data_count + 1]
           IN /\ Decoded(d, byte).decoder.state = "IDLE"
              /\ Decoded(d, byte).decoder.current_status = StatusOf(message)
              /\ Decoded(d, byte).message = ForUs(message)
<1> DEFINE byte == message.data[d.data_count + 1]
<1>1. /\ message.channel \in 1 .. 16 /\ message.type \in Types
      /\ message.data \in Seq(Data) /\ Len(message.data) \in {1, 2}
      /\ Len(message.data) = 1 <=> message.type = "program_change"
      /\ \A k \in 1 .. Len(message.data) : message.data[k] \in Data
      /\ message = [channel |-> message.channel, type |-> message.type,
                    data |-> message.data]
      /\ message # NoMidi
  BY MidiParts
<1>2. d.data_count \in 0 .. 1
  BY DEF Fit, Orderly
<1>3. byte \in Data /\ byte \in Byte
  <2>1. d.data_count + 1 \in 1 .. Len(message.data)
    BY <1>1, <1>2
  <2>2. byte \in Data
    BY <1>1, <2>1
  <2> HIDE DEF byte
  <2> QED
    BY <2>2 DEF Data, Byte
<1>4. Decoded(d, byte) = decode_message(d, byte)
  <2>1. d.current_status # 0
    BY StatusFacts
  <2> HIDE DEF byte
  <2> QED
    BY <1>3, <2>1, DataTaken
<1>5. /\ Upper(d.current_status) = Code[message.type]
      /\ (d.current_status % 16) + 1 = message.channel
  BY <1>1, StatusFacts
<1>6. CASE message.type = "program_change"
  <2>1. Upper(d.current_status) = PROGRAM_CHANGE
    BY <1>5, <1>6, Codes DEF PROGRAM_CHANGE
  <2>2. message.data = <<byte>>
    <3>1. Len(message.data) = 1 /\ byte = message.data[1]
      BY <1>1, <1>2, <1>6
    <3>2. DOMAIN message.data = 1 .. 1
      BY <1>1, <3>1, LenProperties
    <3> HIDE DEF byte
    <3> QED
      BY <1>1, <3>1, <3>2
  <2> HIDE DEF byte
  <2>3. /\ decode_message(d, byte).decoder.state = "IDLE"
        /\ decode_message(d, byte).decoder.current_status = d.current_status
        /\ decode_message(d, byte).message =
             [channel |-> (d.current_status % 16) + 1, type |-> "program_change",
              data |-> <<byte>>]
    BY <1>3, <2>1, OnlyByte
  <2>4. decode_message(d, byte).message = message
    BY <1>1, <1>5, <1>6, <2>2, <2>3
  <2>5. ForUs(message) = message
    BY <1>6 DEF ForUs
  <2> QED
    BY <1>4, <2>3, <2>4, <2>5 DEF byte
<1>7. CASE message.type # "program_change"
  <2>1. Len(message.data) = 2 /\ d.data_count = 1
    BY <1>1, <1>2, <1>7
  <2>2. message.data = <<d.received_data[1], byte>>
    <3>1. d.received_data[1] = message.data[1] /\ byte = message.data[2]
      BY <2>1
    <3>2. DOMAIN message.data = 1 .. 2
      BY <1>1, <2>1, LenProperties
    <3> HIDE DEF byte
    <3> QED
      BY <1>1, <3>1, <3>2
  <2>3. d.received_data[1] = message.data[1] /\ message.data[1] \in Data
    BY <1>1, <2>1
  <2> HIDE DEF byte
  <2>4. /\ decode_message(d, byte).decoder.state = "IDLE"
        /\ decode_message(d, byte).decoder.current_status = d.current_status
        /\ decode_message(d, byte).message =
             IF message.type = "control_change" /\ d.received_data[1] \in 120 .. 127 THEN NoMidi
             ELSE [channel |-> (d.current_status % 16) + 1, type |-> message.type,
                   data |-> <<d.received_data[1], byte>>]
    BY <1>1, <1>3, <1>5, <1>7, <2>1, SecondOfTwo
  <2>5. [channel |-> (d.current_status % 16) + 1, type |-> message.type,
         data |-> <<d.received_data[1], byte>>] = message
    BY <1>1, <1>5, <2>2
  <2>6. d.received_data[1] \in 120 .. 127 <=> message.data[1] >= 120
    <3>1. \A v \in Data : v \in 120 .. 127 <=> v >= 120
      BY DEF Data
    <3> QED
      BY <2>3, <3>1
  <2>7. decode_message(d, byte).message = ForUs(message)
    BY <1>1, <2>4, <2>5, <2>6 DEF ForUs
  <2> QED
    BY <1>4, <2>4, <2>7 DEF byte
<1> QED
  BY <1>6, <1>7

LEMMA TakeOneOfTwo ==
    ASSUME NEW d, Fit(d), d.data_count = 0, NEW byte \in Data,
           d.current_status # 0, Upper(d.current_status) # PROGRAM_CHANGE
    PROVE  /\ Decoded(d, byte).decoder.state = "GOT_MESSAGE"
           /\ Decoded(d, byte).decoder.current_status = d.current_status
           /\ Decoded(d, byte).decoder.data_count = 1
           /\ Decoded(d, byte).decoder.received_data[1] = byte
           /\ Decoded(d, byte).message = NoMidi
<1>1. byte \in Byte
  BY DEF Data, Byte
<1> QED
  BY <1>1, DataTaken, FirstOfTwo

(* A decoder that waits for one byte takes any.                            *)
LEMMA TakeSecond ==
    ASSUME NEW d, Fit(d), d.data_count = 1, NEW byte \in Byte
    PROVE  /\ Decoded(d, byte).decoder.state = "IDLE"
           /\ Decoded(d, byte).decoder.current_status = d.current_status
           /\ d.current_status # 0 /\ Upper(d.current_status) # PROGRAM_CHANGE
<1>1. d.state = "GOT_MESSAGE" /\ Upper(d.current_status) # PROGRAM_CHANGE
  BY DEF Fit, Orderly
<1>2. PICK type \in Types : Upper(d.current_status) = Code[type]
  BY <1>1 DEF Fit, Orderly
<1>3. type # "program_change"
  BY <1>1, <1>2, Codes DEF PROGRAM_CHANGE
<1>4. d.current_status # 0
  <2>1. Upper(0) = 0
    BY DEF Upper
  <2> QED
    BY <1>2, <2>1, Codes
<1>5. Decoded(d, byte) = decode_message(d, byte)
  BY <1>1, DataTaken
<1>6. /\ decode_message(d, byte).decoder.state = "IDLE"
      /\ decode_message(d, byte).decoder.current_status = d.current_status
  BY <1>2, <1>3, SecondOfTwo
<1> QED
  BY <1>1, <1>4, <1>5, <1>6

(* After a data byte, whatever came before *)
LEMMA TakeData ==
    ASSUME NEW d, Fit(d), NEW byte \in Data
    PROVE  \/ Decoded(d, byte).decoder.state = "IDLE"
           \/ Decoded(d, byte).decoder.data_count = 1
<1>1. byte \in Byte /\ d.data_count \in {0, 1}
  BY DEF Data, Byte, Fit, Orderly
<1>2. d.state \in {"IDLE", "GOT_MESSAGE"}
  BY DEF Fit, Orderly
<1>3. CASE d.data_count = 1
  BY <1>1, <1>3, TakeSecond
<1>4. CASE d.data_count = 0 /\ d.current_status = 0
  <2>1. d.state = "IDLE"
    <3>1. Upper(0) = 0
      BY DEF Upper
    <3> QED
      BY <1>2, <1>4, <3>1, Codes DEF Fit, Orderly
  <2> QED
    BY <1>4, <2>1, DataIgnored DEF Ignored
<1>5. CASE d.data_count = 0 /\ d.current_status # 0
  <2>1. CASE Upper(d.current_status) = PROGRAM_CHANGE
    <3>1. Decoded(d, byte) = decode_message(d, byte)
      BY <1>1, <1>5, DataTaken
    <3>2. decode_message(d, byte).decoder.state = "IDLE"
      BY <1>1, <2>1, OnlyByte
    <3> QED
      BY <3>1, <3>2
  <2>2. CASE Upper(d.current_status) # PROGRAM_CHANGE
    BY <1>5, <2>2, TakeOneOfTwo
  <2> QED
    BY <2>1, <2>2
<1> QED
  BY <1>1, <1>3, <1>4, <1>5

LEMMA Asleep ==
    ASSUME NEW d, Fit(d), d.current_status = 0
    PROVE  d.state = "IDLE" /\ d.data_count = 0
<1>1. Upper(0) = 0
  BY DEF Upper
<1> QED
  BY <1>1, Codes DEF Fit, Orderly

LEMMA IdleCount ==
    ASSUME NEW d, Fit(d), d.state = "IDLE"
    PROVE  d.data_count = 0
  BY DEF Fit, Orderly
LEMMA DecodeStep ==
    ASSUME NEW byte, Decode(byte)
    PROVE  /\ decoder' = Decoded(decoder, byte).decoder
           /\ out' = Decoded(decoder, byte).message
  BY DEF Decode, decode, Decoded

LEMMA LengthZero ==
    ASSUME NEW S, NEW s \in Seq(S)
    PROVE  Len(s) \in Nat /\ (Len(s) = 0 <=> s = <<>>)
  BY EmptySeq, LenProperties

LEMMA InStepInit == Init => InStep
  BY DEF Init, InStep, AfterEnough, Awake, Known, Decoder, Enough

(* How far the stream may be trusted after a byte of a message             *)
LEMMA IntactSteps ==
    ASSUME Counted, NEW message \in MidiMessage, NEW explicit \in BOOLEAN,
           Undisturbed(message, explicit)
    PROVE  \/ intact' = 0
           \/ intact' = intact /\ intact \in 1 .. Enough
              /\ (rest' = <<>> => intact = Enough)
           \/ intact' = intact + 1 /\ intact \in 0 .. 2 /\ rest' = <<>>
              /\ Counts(message, explicit)
<1>1. message # NoMidi
  BY MidiParts
<1>2. intact' = IF intact = Enough \/ rest' # <<>> THEN intact
                ELSE IF Counts(message, explicit) THEN intact + 1 ELSE 0
  BY <1>1 DEF Undisturbed
<1> QED
  BY <1>2 DEF Counted, Enough

LEMMA DueSteps ==
    ASSUME NEW message, NEW explicit, Undisturbed(message, explicit)
    PROVE  /\ rest' = <<>> => due' = ForUs(message)
           /\ rest' # <<>> => due' = NoMidi
  BY DEF Undisturbed

(* Between messages of a stream that is trusted, the decoder is idle.      *)
LEMMA IdleBetween ==
    ASSUME TypeInv, InStep, rest = <<>>, intact \in {2, Enough}
    PROVE  decoder.state = "IDLE" /\ decoder.data_count = 0
<1>1. decoder.state = "IDLE"
  <2>1. CASE intact = 2
    BY <2>1 DEF InStep, AfterTwo
  <2>2. CASE intact = Enough /\ Known
    BY <2>2 DEF InStep, AfterEnough
  <2>3. CASE intact = Enough /\ ~Known
    <3>1. decoder.current_status = 0
      BY <2>3 DEF InStep, AfterEnough, Awake
    <3> QED
      BY <3>1, Asleep DEF TypeInv, DecoderFit
  <2> QED
    BY <2>1, <2>2, <2>3
<1> QED
  BY <1>1, IdleCount DEF TypeInv, DecoderFit

(* The status byte of a message                                            *)
LEMMA StatusInStep ==
    ASSUME TypeInv, InStep, NEW message \in Sent, FirstByte(message, TRUE)
    PROVE  InStep'
<1>1. /\ rest = <<>> /\ rest' = message.data /\ running' = StatusOf(message)
      /\ whole' = [message |-> message, explicit |-> TRUE]
      /\ Decode(StatusOf(message)) /\ Undisturbed(message, TRUE)
  BY DEF FirstByte, Begins, Begin
<1>2. message \in MidiMessage
  BY MidiAssumption
<1>3. /\ rest' # <<>> /\ Len(rest') \in {1, 2} /\ message # NoMidi /\ rest' \in Seq(Data)
      /\ message.data = rest'
  BY <1>1, <1>2, MidiParts
<1>4. due' = NoMidi
  BY <1>1, <1>3, DueSteps
<1>5. intact' = 0 \/ (intact' = intact /\ intact \in {1, 2, Enough})
  <2>1. Counted
    BY DEF TypeInv
  <2>2. \/ intact' = 0
        \/ intact' = intact /\ intact \in 1 .. Enough
        \/ rest' = <<>>
    BY <1>1, <1>2, <2>1, IntactSteps
  <2> QED
    BY <1>3, <2>2 DEF Enough
<1>6. Known' /\ Awake' /\ whole'.message = message
  BY <1>1, <1>3 DEF Known, Awake
<1>7. /\ decoder' = Decoded(decoder, StatusOf(message)).decoder
      /\ out' = Decoded(decoder, StatusOf(message)).message
  BY <1>1, DecodeStep
<1>8. Fit(decoder)
  BY DEF TypeInv, DecoderFit
<1>9. ASSUME decoder.state = "IDLE"
      PROVE  InPlace' /\ out' = NoMidi
  <2>1. /\ decoder'.state = "GOT_MESSAGE" /\ decoder'.current_status = running'
        /\ decoder'.data_count = 0 /\ out' = NoMidi
    BY <1>1, <1>2, <1>7, <1>8, <1>9, TakeStatus
  <2>2. Len(whole'.message.data) - Len(rest') = 0
    BY <1>3, <1>6
  <2> QED
    BY <2>1, <2>2 DEF InPlace
<1>10. CASE intact' = 0
  BY <1>10 DEF InStep, Enough
<1>11. CASE intact' = intact /\ intact \in {2, Enough}
  <2>1. InPlace' /\ out' = due'
    BY <1>1, <1>4, <1>9, <1>11, IdleBetween
  <2>2. AfterTwo' /\ AfterEnough'
    BY <1>3, <1>6, <2>1 DEF AfterTwo, AfterEnough
  <2> QED
    BY <1>11, <2>2 DEF InStep, Enough
<1>12. CASE intact' = intact /\ intact = 1
  <2>1. decoder.state = "IDLE" \/ decoder.data_count = 1
    BY <1>1, <1>12 DEF InStep, AfterOne
  <2>2. \/ InPlace'
        \/ /\ decoder'.state = "IDLE" /\ decoder'.current_status # 0
           /\ Upper(decoder'.current_status) # PROGRAM_CHANGE
    <3>1. CASE decoder.state = "IDLE"
      BY <1>9, <3>1
    <3>2. CASE decoder.data_count = 1
      <4>1. StatusOf(message) \in Byte
        BY <1>2, StatusFacts
      <4> QED
        BY <1>7, <1>8, <3>2, <4>1, TakeSecond
    <3> QED
      BY <2>1, <3>1, <3>2
  <2>3. Full' => Len(rest') = 2
    BY <1>3, <1>6 DEF Full, Counts
  <2>4. ~(Full' /\ Len(rest') = 1)
    BY <2>3
  <2>5. AfterOne'
    BY <1>3, <1>6, <2>2, <2>4 DEF AfterOne
  <2> QED
    BY <1>12, <2>5 DEF InStep, Enough
<1> QED
  BY <1>5, <1>10, <1>11, <1>12

(* The first data byte of a message with running status                    *)
LEMMA RunningInStep ==
    ASSUME TypeInv, InStep, NEW message \in Sent, FirstByte(message, FALSE)
    PROVE  InStep'
<1>1. /\ rest = <<>> /\ rest' = Tail(message.data)
      /\ running = StatusOf(message) /\ running' = StatusOf(message)
      /\ whole' = [message |-> message, explicit |-> FALSE]
      /\ Decode(message.data[1]) /\ Undisturbed(message, FALSE)
  BY DEF FirstByte, Begins, Begin
<1>2. message \in MidiMessage
  BY MidiAssumption
<1>3. /\ message.data \in Seq(Data) /\ message.data # <<>> /\ Len(message.data) \in {1, 2}
      /\ message # NoMidi /\ message.data[1] \in Data
      /\ Len(message.data) = 1 <=> message.type = "program_change"
  BY <1>2, MidiParts
<1>4. rest' \in Seq(Data) /\ Len(rest') = Len(message.data) - 1
  BY <1>1, <1>3, HeadTailProperties
<1>5. Len(rest') = 0 <=> rest' = <<>>
  BY <1>4, LengthZero
<1>6. Known' /\ Awake' /\ ~Full' /\ whole'.message = message
  BY <1>1, <1>3 DEF Known, Awake, Full, Counts
<1>7. \/ intact' = 0
      \/ intact' = intact /\ (intact = Enough \/ (rest' # <<>> /\ intact \in {1, 2}))
  <2>1. Counted /\ ~Counts(message, FALSE)
    BY DEF TypeInv, Counts
  <2>2. \/ intact' = 0
        \/ intact' = intact /\ intact \in 1 .. Enough /\ (rest' = <<>> => intact = Enough)
    BY <1>1, <1>2, <2>1, IntactSteps
  <2> QED
    BY <2>2 DEF Enough
<1>8. CASE intact' = 0
  BY <1>8 DEF InStep, Enough
<1>9. CASE intact' \in {1, 2} /\ rest' # <<>>
  <2>1. AfterOne' /\ AfterTwo'
    BY <1>6, <1>9 DEF AfterOne, AfterTwo
  <2> QED
    BY <1>9, <2>1 DEF InStep, Enough
<1>10. CASE intact' = intact /\ intact = Enough
  <2>1. decoder.state = "IDLE" /\ decoder.data_count = 0 /\ Fit(decoder)
    BY <1>1, <1>10, IdleBetween DEF TypeInv, DecoderFit
  <2>2. decoder.current_status = StatusOf(message)
    <3>1. running # 0
      BY <1>1, <1>2, StatusFacts
    <3>2. Known
      BY <3>1 DEF TypeInv, OnTheWire, Known
    <3> QED
      BY <1>1, <1>10, <3>2 DEF InStep, AfterEnough
  <2>3. /\ decoder' = Decoded(decoder, message.data[1]).decoder
        /\ out' = Decoded(decoder, message.data[1]).message
    BY <1>1, DecodeStep
  <2>4. CASE Len(message.data) = 1
    <3>1. decoder.data_count + 1 = Len(message.data) /\ decoder.data_count + 1 = 1
      BY <2>1, <2>4
    <3>2. /\ decoder'.state = "IDLE" /\ decoder'.current_status = StatusOf(message)
          /\ out' = ForUs(message)
      <4>1. decoder.data_count # 1
        BY <2>1
      <4>2. /\ Decoded(decoder, message.data[1]).decoder.state = "IDLE"
            /\ Decoded(decoder, message.data[1]).decoder.current_status = StatusOf(message)
            /\ Decoded(decoder, message.data[1]).message = ForUs(message)
        BY <1>2, <2>1, <2>2, <3>1, <4>1, TakeLast
      <4> QED
        BY <2>3, <4>2
    <3>3. rest' = <<>> /\ due' = ForUs(message)
      <4>1. rest' = <<>>
        BY <1>4, <1>5, <2>4
      <4> QED
        BY <1>1, <4>1, DueSteps
    <3>4. AfterEnough'
      BY <1>1, <1>6, <3>2, <3>3 DEF AfterEnough
    <3> QED
      BY <1>10, <3>4 DEF InStep, Enough
  <2>5. CASE Len(message.data) = 2
    <3>1. decoder.current_status # 0 /\ Upper(decoder.current_status) # PROGRAM_CHANGE
      <4>1. message.type \in Types /\ message.type # "program_change"
        BY <1>2, <1>3, <2>5, MidiParts
      <4>2. Upper(StatusOf(message)) = Code[message.type] /\ StatusOf(message) \in 128 .. 207
        BY <1>2, StatusFacts
      <4>3. Code[message.type] # PROGRAM_CHANGE
        BY <4>1, Codes DEF PROGRAM_CHANGE
      <4> QED
        BY <2>2, <4>2, <4>3
    <3>2. /\ decoder'.state = "GOT_MESSAGE" /\ decoder'.current_status = running'
          /\ decoder'.data_count = 1 /\ decoder'.received_data[1] = message.data[1]
          /\ out' = NoMidi
      BY <1>1, <1>3, <2>1, <2>2, <2>3, <3>1, TakeOneOfTwo
    <3>3. rest' # <<>> /\ due' = NoMidi /\ Len(rest') = 1
      <4>1. rest' # <<>> /\ Len(rest') = 1
        BY <1>4, <1>5, <2>5
      <4> QED
        BY <1>1, <4>1, DueSteps
    <3>4. Len(whole'.message.data) - Len(rest') = 1
      BY <1>6, <2>5, <3>3
    <3>5. InPlace'
      BY <1>6, <3>2, <3>4 DEF InPlace
    <3>6. AfterEnough'
      BY <1>6, <3>2, <3>3, <3>5 DEF AfterEnough
    <3> QED
      BY <1>10, <3>6 DEF InStep, Enough
  <2> QED
    BY <1>3, <2>4, <2>5
<1> QED
  BY <1>7, <1>8, <1>9, <1>10
(* A byte of a message that the decoder does not know                      *)
LEMMA UnknownInStep ==
    ASSUME TypeInv, InStep, TypeInv', NEW byte, Decode(byte), Undisturbed(NoMidi, TRUE),
           \/ byte \in Data
           \/ is_status_byte(byte) /\ \A type \in Types : Upper(byte) # Code[type],
           whole'.message = NoMidi
    PROVE  InStep'
<1>1. due' = NoMidi
  BY DEF Undisturbed, ForUs
<1>2. CASE decoder.current_status # 0
  <2>1. intact' = 0
    BY <1>2 DEF Undisturbed
  <2> QED
    BY <2>1 DEF InStep, Enough
<1>3. CASE decoder.current_status = 0
  <2>1. Fit(decoder) /\ decoder.state = "IDLE"
    BY <1>3, Asleep DEF TypeInv, DecoderFit
  <2>2. Ignored(decoder, byte)
    BY <1>3, <2>1, DataIgnored, StatusIgnored
  <2>3. decoder'.state = "IDLE" /\ decoder'.current_status = 0 /\ out' = NoMidi
    BY <1>3, <2>1, <2>2, DecodeStep DEF Ignored
  <2>4. ~Known' /\ ~Full' /\ Awake'
    BY <2>3 DEF Known, Full, Awake
  <2>5. AfterOne' /\ AfterTwo' /\ AfterEnough'
    BY <1>1, <2>3, <2>4 DEF AfterOne, AfterTwo, AfterEnough
  <2> QED
    BY <2>5 DEF InStep
<1> QED
  BY <1>2, <1>3

LEMMA OneOrTwo ==
    \A all \in {1, 2} : \A n \in 1 .. all :
        n \in {1, 2} /\ (n = 2 => all = 2 /\ all - n = 0 /\ n - 1 = 1)
  OBVIOUS

(* The next byte on the wire                                               *)
LEMMA HeadOfRest ==
    ASSUME TypeInv, Known, rest # <<>>
    PROVE  /\ Head(rest) \in Data
           /\ Len(rest) \in 1 .. Len(whole.message.data)
           /\ Head(rest) = whole.message.data[Len(whole.message.data) - Len(rest) + 1]
           /\ Tail(rest) \in Seq(Data) /\ Len(Tail(rest)) = Len(rest) - 1
           /\ Tail(rest) = <<>> <=> Len(rest) = 1
<1>1. whole.message \in MidiMessage /\ rest \in Seq(Data) /\ Ends(rest, whole.message.data)
  BY DEF TypeInv, OnTheWire, Known
<1>2. Len(rest) \in Nat \ {0} /\ Len(whole.message.data) \in {1, 2}
  BY <1>1, EmptySeq, MidiParts
<1>3. 1 \in 1 .. Len(rest) /\ Len(rest) <= Len(whole.message.data)
  BY <1>1, <1>2 DEF Ends
<1>4. rest[1] = whole.message.data[Len(whole.message.data) - Len(rest) + 1]
  BY <1>1, <1>3 DEF Ends
<1>5. Head(rest) \in Data /\ Head(rest) = rest[1]
  BY <1>1, HeadTailProperties
<1>6. Tail(rest) \in Seq(Data) /\ Len(Tail(rest)) = Len(rest) - 1
  BY <1>1, HeadTailProperties
<1>7. Tail(rest) = <<>> <=> Len(rest) = 1
  <2>1. Len(Tail(rest)) = 0 <=> Tail(rest) = <<>>
    BY <1>6, LengthZero
  <2> QED
    BY <1>2, <1>6, <2>1
<1> QED
  BY <1>2, <1>3, <1>4, <1>5, <1>6, <1>7

(* In place, the decoder stays so; with the last byte it has the message.  *)
LEMMA InPlaceNext ==
    ASSUME TypeInv, NextByte, Known, InPlace
    PROVE  /\ rest' # <<>> => InPlace' /\ out' = NoMidi
           /\ rest' = <<>> => /\ decoder'.state = "IDLE"
                              /\ decoder'.current_status = running'
                              /\ out' = ForUs(whole.message)
<1> DEFINE data == whole.message.data
<1>1. /\ rest # <<>> /\ rest' = Tail(rest) /\ Decode(Head(rest))
      /\ whole' = whole /\ running' = running
  BY DEF NextByte
<1>2. /\ Head(rest) \in Data /\ Len(rest) \in 1 .. Len(data)
      /\ Head(rest) = data[Len(data) - Len(rest) + 1]
      /\ Len(rest') = Len(rest) - 1 /\ (rest' = <<>> <=> Len(rest) = 1)
  BY <1>1, HeadOfRest
<1>3. /\ whole.message \in MidiMessage /\ running = StatusOf(whole.message)
      /\ Fit(decoder)
  BY DEF TypeInv, OnTheWire, Known, DecoderFit
<1>4. Len(data) \in {1, 2} /\ (Len(data) = 1 <=> whole.message.type = "program_change")
  BY <1>3, MidiParts
<1>5. /\ decoder.state = "GOT_MESSAGE" /\ decoder.current_status = StatusOf(whole.message)
      /\ decoder.data_count = Len(data) - Len(rest)
      /\ decoder.data_count = 1 => decoder.received_data[1] = data[1]
  BY <1>3 DEF InPlace
<1>6. /\ decoder' = Decoded(decoder, Head(rest)).decoder
      /\ out' = Decoded(decoder, Head(rest)).message
  BY <1>1, DecodeStep
<1>7. Head(rest) = data[decoder.data_count + 1]
  BY <1>2, <1>5
<1>8. CASE Len(rest) = 1
  <2>1. decoder.data_count + 1 = Len(data)
    BY <1>4, <1>5, <1>8
  <2> HIDE DEF data
  <2>2. /\ Decoded(decoder, data[decoder.data_count + 1]).decoder.state = "IDLE"
        /\ Decoded(decoder, data[decoder.data_count + 1]).decoder.current_status
             = StatusOf(whole.message)
        /\ Decoded(decoder, data[decoder.data_count + 1]).message = ForUs(whole.message)
    BY <1>3, <1>5, <2>1, TakeLast DEF data
  <2> QED
    BY <1>1, <1>2, <1>3, <1>6, <1>7, <1>8, <2>2
<1>9. CASE Len(rest) = 2
  <2>1. Len(data) = 2 /\ decoder.data_count = 0 /\ Len(rest') = 1 /\ rest' # <<>>
    <3>1. Len(rest) # 1
      BY <1>9
    <3> HIDE DEF data
    <3>2. Len(data) = 2 /\ Len(data) - Len(rest) = 0 /\ Len(rest) - 1 = 1
      BY <1>2, <1>4, <1>9, OneOrTwo
    <3> QED
      BY <1>2, <1>5, <3>1, <3>2
  <2>2. Head(rest) = data[1]
    BY <1>7, <2>1
  <2>3. decoder.current_status # 0 /\ Upper(decoder.current_status) # PROGRAM_CHANGE
    <3>1. whole.message.type \in Types /\ whole.message.type # "program_change"
      BY <1>3, <1>4, <2>1, MidiParts
    <3>2. /\ Upper(StatusOf(whole.message)) = Code[whole.message.type]
          /\ StatusOf(whole.message) # 0
      BY <1>3, StatusFacts
    <3>3. Code[whole.message.type] # PROGRAM_CHANGE
      BY <3>1, Codes DEF PROGRAM_CHANGE
    <3> QED
      BY <1>5, <3>2, <3>3
  <2>4. /\ decoder'.state = "GOT_MESSAGE"
        /\ decoder'.current_status = decoder.current_status
        /\ decoder'.data_count = 1 /\ decoder'.received_data[1] = data[1]
        /\ out' = NoMidi
    BY <1>2, <1>3, <1>6, <2>1, <2>2, <2>3, TakeOneOfTwo
  <2>5. Len(whole'.message.data) - Len(rest') = 1
    BY <1>1, <2>1
  <2>6. InPlace'
    BY <1>1, <1>3, <1>5, <2>4, <2>5 DEF InPlace
  <2> QED
    BY <2>1, <2>4, <2>6
<1>10. Len(rest) \in {1, 2}
  <2> HIDE DEF data
  <2> QED
    BY <1>2, <1>4, OneOrTwo
<1> QED
  BY <1>8, <1>9, <1>10

LEMMA NextByteInStep ==
    ASSUME TypeInv, TypeInv', InStep, NextByte
    PROVE  InStep'
<1> DEFINE message == whole.message
           explicit == whole.explicit
<1>1. /\ rest # <<>> /\ rest' = Tail(rest) /\ Decode(Head(rest))
      /\ Undisturbed(message, explicit) /\ whole' = whole /\ running' = running
  BY DEF NextByte
<1>2. CASE ~Known
  <2>1. message = NoMidi /\ Head(rest) \in Data
    BY <1>1, <1>2, HeadTailProperties DEF Known, TypeInv, OnTheWire
  <2>2. Undisturbed(NoMidi, TRUE)
    BY <1>1, <2>1 DEF Undisturbed
  <2> QED
    BY <1>1, <2>1, <2>2, UnknownInStep
<1>3. CASE Known
  <2>1. /\ Head(rest) \in Data /\ Len(rest) \in 1 .. Len(message.data)
        /\ rest' \in Seq(Data) /\ Len(rest') = Len(rest) - 1
        /\ (rest' = <<>> <=> Len(rest) = 1)
    BY <1>1, <1>3, HeadOfRest
  <2>2. message \in MidiMessage /\ explicit \in BOOLEAN /\ Fit(decoder) /\ Counted
    BY <1>3 DEF TypeInv, OnTheWire, Known, DecoderFit
  <2>3. Known' /\ Awake' /\ (Full' <=> Full)
    BY <1>1, <1>3 DEF Known, Awake, Full
  <2>4. /\ rest' = <<>> => due' = ForUs(message)
        /\ rest' # <<>> => due' = NoMidi
    BY <1>1, DueSteps
  <2>5. /\ decoder' = Decoded(decoder, Head(rest)).decoder
        /\ out' = Decoded(decoder, Head(rest)).message
    BY <1>1, DecodeStep
  <2>6. Len(message.data) \in {1, 2}
    BY <2>2, MidiParts
  <2>7. \/ intact' = 0
        \/ intact' = intact /\ intact \in 1 .. Enough
           /\ (rest' = <<>> => intact = Enough)
        \/ intact' = intact + 1 /\ intact \in 0 .. 2 /\ rest' = <<>>
           /\ Counts(message, explicit)
    BY <1>1, <2>2, IntactSteps
  <2>8. CASE intact' = 0
    BY <2>8 DEF InStep, Enough
  <2>9. CASE intact' = intact /\ intact = Enough
    <3>1. InPlace
      BY <1>1, <1>3, <2>9 DEF InStep, AfterEnough
    <3>2. AfterEnough'
      BY <1>3, <2>3, <2>4, <3>1, InPlaceNext DEF AfterEnough
    <3> QED
      BY <2>9, <3>2 DEF InStep, Enough
  <2>10. CASE intact' = intact /\ intact = 2 /\ rest' # <<>>
    <3>1. Full => InPlace
      BY <1>1, <2>10 DEF InStep, AfterTwo
    <3>2. AfterTwo'
      BY <1>3, <2>3, <2>10, <3>1, InPlaceNext DEF AfterTwo
    <3> QED
      BY <2>10, <3>2 DEF InStep, Enough
  <2>11. CASE intact' = intact /\ intact = 1 /\ rest' # <<>>
    <3>1. Len(rest) = 2 /\ Len(rest') = 1 /\ Len(message.data) = 2
      <4>1. Len(rest) # 1
        BY <2>1, <2>11
      <4> HIDE DEF message
      <4>2. Len(rest) = 2
        BY <2>1, <2>6, <4>1, OneOrTwo
      <4> QED
        BY <2>1, <2>6, <4>2, OneOrTwo
    <3>2. ASSUME Full
          PROVE  decoder'.data_count = 1
      <4>1. CASE InPlace
        <5>1. InPlace'
          BY <1>3, <2>11, <4>1, InPlaceNext
        <5>2. Len(whole'.message.data) - Len(rest') = 1
          BY <1>1, <3>1
        <5> QED
          BY <5>1, <5>2 DEF InPlace
      <4>2. CASE /\ decoder.state = "IDLE" /\ decoder.current_status # 0
                 /\ Upper(decoder.current_status) # PROGRAM_CHANGE
        <5>1. decoder.data_count = 0
          BY <2>2, <4>2, IdleCount
        <5> QED
          BY <2>1, <2>2, <2>5, <4>2, <5>1, TakeOneOfTwo
      <4> QED
        BY <2>11, <3>1, <3>2, <4>1, <4>2 DEF InStep, AfterOne
    <3>3. Len(rest') # 2
      BY <3>1
    <3>4. AfterOne'
      BY <2>3, <2>11, <3>2, <3>3 DEF AfterOne
    <3> QED
      BY <2>11, <3>4 DEF InStep, Enough
  <2>12. CASE intact' = intact + 1 /\ intact = 2 /\ rest' = <<>> /\ Counts(message, explicit)
    <3>1. InPlace
      BY <1>1, <1>3, <2>12 DEF InStep, AfterTwo, Full
    <3>2. AfterEnough'
      BY <1>3, <2>3, <2>4, <2>12, <3>1, InPlaceNext DEF AfterEnough
    <3> QED
      BY <2>12, <3>2 DEF InStep, Enough
  <2>13. CASE intact' = intact + 1 /\ intact = 1 /\ rest' = <<>> /\ Counts(message, explicit)
    <3>1. Len(rest) = 1 /\ Full
      BY <1>3, <2>1, <2>13 DEF Full
    <3>2. decoder.data_count = 1
      BY <2>13, <3>1 DEF InStep, AfterOne
    <3>3. Head(rest) \in Byte
      BY <2>1 DEF Data, Byte
    <3>4. decoder'.state = "IDLE"
      BY <2>2, <2>5, <3>2, <3>3, TakeSecond
    <3>5. AfterTwo'
      BY <2>3, <2>13, <3>4 DEF AfterTwo
    <3> QED
      BY <2>13, <3>5 DEF InStep, Enough
  <2>14. CASE intact' = intact + 1 /\ intact = 0 /\ rest' = <<>> /\ Counts(message, explicit)
    <3>1. decoder'.state = "IDLE" \/ decoder'.data_count = 1
      BY <2>1, <2>2, <2>5, TakeData
    <3>2. Len(rest') = 0
      BY <2>1, <2>14
    <3>3. AfterOne'
      BY <2>3, <2>14, <3>1, <3>2 DEF AfterOne
    <3> QED
      BY <2>14, <3>3 DEF InStep, Enough
  <2>15. 1 .. Enough = {1, 2, Enough} /\ 0 .. 2 = {0, 1, 2}
    BY DEF Enough
  <2> QED
    BY <2>7, <2>8, <2>9, <2>10, <2>11, <2>12, <2>13, <2>14, <2>15
<1> QED
  BY <1>2, <1>3

LEMMA FirstUnknownByteInStep ==
    ASSUME TypeInv, TypeInv', InStep, NEW bytes \in Unknown, FirstUnknownByte(bytes)
    PROVE  InStep'
<1>1. /\ Decode(bytes[1]) /\ Undisturbed(NoMidi, TRUE)
      /\ whole' = [message |-> NoMidi, explicit |-> TRUE]
  BY DEF FirstUnknownByte, Begin
<1> QED
  BY <1>1, UnknownBytes, UnknownInStep

LEMMA DisturbedInStep ==
    ASSUME Disturbed
    PROVE  InStep'
  BY DEF Disturbed, InStep, Enough

(* A real-time byte is ignored between messages, unless the decoder is     *)
(* still waiting for a byte of a message that was disturbed.               *)
LEMMA RealTimeInStep ==
    ASSUME TypeInv, InStep, RealTime
    PROVE  InStep'
<1>1. Decode(Clock) /\ UNCHANGED <<rest, whole, running, sent>>
  BY DEF RealTime
<1>2. CASE rest # <<>>
  BY <1>2, DisturbedInStep DEF RealTime
<1>3. CASE rest = <<>>
  <2>1. due' = NoMidi /\ intact' = intact
    BY <1>3 DEF RealTime
  <2>2. (Known' <=> Known) /\ (Full' <=> Full) /\ rest' = <<>> /\ Fit(decoder)
    BY <1>1, <1>3 DEF Known, Full, TypeInv, DecoderFit
  <2>3. Len(rest') = 0
    BY <2>2
  <2>4. /\ decoder' = Decoded(decoder, Clock).decoder
        /\ out' = Decoded(decoder, Clock).message
    BY <1>1, DecodeStep
  <2>5. ASSUME decoder.state = "IDLE"
        PROVE  /\ decoder'.state = "IDLE" /\ out' = NoMidi
               /\ decoder'.current_status = decoder.current_status
    BY <2>2, <2>4, <2>5, ClockUnknown, StatusIgnored DEF Ignored
  <2>6. CASE intact = Enough
    <3>1. decoder.state = "IDLE"
      BY <1>3, <2>6, IdleBetween
    <3>2. AfterEnough'
      BY <1>1, <1>3, <2>1, <2>2, <2>5, <2>6, <3>1 DEF InStep, AfterEnough, Awake
    <3> QED
      BY <2>1, <2>6, <3>2 DEF InStep, Enough
  <2>7. CASE intact = 2
    <3>1. decoder.state = "IDLE"
      BY <1>3, <2>7, IdleBetween
    <3>2. AfterTwo'
      BY <1>1, <1>3, <2>1, <2>2, <2>5, <2>7, <3>1 DEF InStep, AfterTwo, Awake
    <3> QED
      BY <2>1, <2>7, <3>2 DEF InStep, Enough
  <2>8. CASE intact = 1
    <3>1. Awake /\ (decoder.state = "IDLE" \/ decoder.data_count = 1)
      BY <1>3, <2>8 DEF InStep, AfterOne
    <3>2. decoder'.state = "IDLE" /\ Awake'
      <4>1. CASE decoder.state = "IDLE"
        BY <2>2, <2>5, <3>1, <4>1 DEF Awake
      <4>2. CASE decoder.data_count = 1
        <5>1. /\ decoder'.state = "IDLE" /\ decoder'.current_status = decoder.current_status
              /\ decoder.current_status # 0
          BY <2>2, <2>4, <4>2, ClockUnknown, TakeSecond
        <5> QED
          BY <2>2, <3>1, <5>1 DEF Awake
      <4> QED
        BY <3>1, <4>1, <4>2
    <3>3. AfterOne'
      BY <2>2, <2>3, <3>2 DEF AfterOne
    <3> QED
      BY <2>1, <2>8, <3>3 DEF InStep, Enough
  <2>9. CASE intact = 0
    BY <2>1, <2>9 DEF InStep, Enough
  <2> QED
    BY <2>6, <2>7, <2>8, <2>9 DEF TypeInv, Counted, Enough
<1> QED
  BY <1>2, <1>3

LEMMA StillInStep ==
    ASSUME InStep, UNCHANGED <<decoder, wire, out, due, intact>>
    PROVE  InStep'
  BY DEF InStep, AfterOne, AfterTwo, AfterEnough, Awake, InPlace, Known, Full, Counts, wire

LEMMA InStepNext == TypeInv /\ TypeInv' /\ InStep /\ [Next]_vars => InStep'
<1> SUFFICES ASSUME TypeInv, TypeInv', InStep, [Next]_vars
             PROVE  InStep'
  OBVIOUS
<1>1. ASSUME NEW message \in Sent, NEW explicit \in BOOLEAN, FirstByte(message, explicit)
      PROVE  InStep'
  BY <1>1, StatusInStep, RunningInStep
<1>2. ASSUME NEW bytes \in Unknown, FirstUnknownByte(bytes)
      PROVE  InStep'
  BY <1>2, FirstUnknownByteInStep
<1>3. CASE NextByte
  BY <1>3, NextByteInStep
<1>4. CASE Lost
  BY <1>4, DisturbedInStep DEF Lost
<1>5. CASE RealTime
  BY <1>5, RealTimeInStep
<1>6. CASE (\E message \in Console : ConsoleMessage(message)) \/ Notify \/ NotifyTimer
           \/ UNCHANGED vars
  BY <1>6, StillInStep DEF ConsoleMessage, Notify, NotifyTimer, vars
<1> QED
  BY <1>1, <1>2, <1>3, <1>4, <1>5, <1>6 DEF Next

LEMMA InStepDecodes == InStep => DecodesInStep
  BY DEF InStep, AfterEnough, DecodesInStep

(* Byte for byte, the decoder answers with the message that this byte ends:*)
(* on any stream of whole messages, with running status, real-time bytes   *)
(* and messages of other kinds between them; and after any disturbance     *)
(* again from the third complete message on.                               *)
THEOREM DecoderInStep == Spec => []DecodesInStep
<1>1. TypeInv /\ InStep /\ [Next]_vars => TypeInv' /\ InStep'
  BY TypeInvNext, InStepNext
<1> QED
  BY <1>1, TypeInvInit, InStepInit, InStepDecodes, PTL DEF Spec

(* As long as the stream is not disturbed and the console keeps to MIDI,   *)
(* what is saved of a parameter is what it has become, however many        *)
(* mappings a control has and whatever they do to the same parameter.      *)
THEOREM SavedAsPlayed ==
    ASSUME Console \subseteq MidiMessage
    PROVE  Spec => SavedIsPlayed
<1> DEFINE Agreed == intact = Enough /\ intact' = Enough =>
                       \A p \in Params :
                          live'[p] # live[p] \/ heard'[p] # heard[p] => heard'[p] = live'[p]
<1>1. ASSUME TypeInv, TypeInv', InStep', [Next]_vars
      PROVE  Agreed
  <2> SUFFICES ASSUME intact' = Enough
               PROVE  \A p \in Params : live'[p] # live[p] \/ heard'[p] # heard[p] =>
                                            heard'[p] = live'[p]
    OBVIOUS
  <2> HIDE DEF Agreed
  <2>1. Playing
    BY <1>1 DEF TypeInv
  <2>2. out' \in MidiMessage \union {NoMidi}
    BY <1>1 DEF InStep, AfterEnough, TypeInv, Counted
  <2>3. ASSUME NEW byte, Decode(byte)
        PROVE  \A p \in Params : live'[p] # live[p] \/ heard'[p] # heard[p] =>
                                     heard'[p] = live'[p]
    <3>1. on_midi_message(out') /\ out' \in AnyMessage \union {NoMidi}
      BY <2>2, <2>3, MidiIsAny DEF Decode
    <3> QED
      BY <2>1, <2>2, <3>1, MessagePlayed
  <2>4. ASSUME NEW message \in Console, ConsoleMessage(message)
        PROVE  \A p \in Params : live'[p] # live[p] \/ heard'[p] # heard[p] =>
                                     heard'[p] = live'[p]
    <3>1. on_midi_message(message) /\ message \in MidiMessage /\ message \in AnyMessage
      BY <2>4, MidiIsAny DEF ConsoleMessage
    <3> QED
      BY <2>1, <3>1, MessagePlayed
  <2>5. CASE UNCHANGED <<live, heard>>
    BY <2>5
  <2> QED
    BY <1>1, <2>3, <2>4, <2>5
       DEF Next, FirstByte, FirstUnknownByte, NextByte, Lost, RealTime, Notify, NotifyTimer, vars
<1>2. Spec => [](TypeInv /\ InStep)
  <2>1. TypeInv /\ InStep /\ [Next]_vars => TypeInv' /\ InStep'
    BY TypeInvNext, InStepNext
  <2> QED
    BY <2>1, TypeInvInit, InStepInit, PTL DEF Spec
<1>3. TypeInv /\ InStep /\ TypeInv' /\ InStep' /\ [Next]_vars => [Agreed]_vars
  BY <1>1
<1> HIDE DEF Agreed
<1>4. Spec => [][Agreed]_vars
  BY <1>2, <1>3, PTL DEF Spec
<1> QED
  BY <1>4 DEF Agreed, SavedIsPlayed
=============================================================================
