---------------------------- MODULE StreamFormat ----------------------------
(***************************************************************************)
(* The bodies of the RTMP packets: as VideoChannel.cpp and                 *)
(* AudioChannel.cpp build them, as VideoCapture.cpp takes them apart again *)
(* (FlvPlayer.cpp does the same with the tags of a recording), and the     *)
(* ADTS header VideoCtrl.cpp puts before the audio it decodes.             *)
(*                                                                         *)
(* Bytes are numbers; shifting and masking is written as division and      *)
(* remainder.  Positions in a body count from 0, as in the code.           *)
(***************************************************************************)
EXTENDS Naturals, Sequences

CONSTANTS
  Units,   \* NAL units without their start code, at least four bytes long
  Samples, \* encoded audio
  Formats  \* pairs of a sample rate index and a number of channels, one or two

VARIABLES
  body,       \* the body on its way, or none
  sent,       \* what the encoder handed over
  received,   \* what the callbacks of VideoCapture got since
  rest,       \* how much of the body they left
  adts_header

vars == <<body, sent, received, rest, adts_header>>

Init ==
  /\ body = << >> /\ sent = << >> /\ received = << >> /\ rest = 0
  /\ adts_header = << >>

Nalu(type, data) == [type |-> type, data |-> data]
Audio(type, channels, data) == [type |-> type, channels |-> channels, data |-> data]

----------------------------------------------------------------------------
(* Numbers of two and four bytes. *)
Byte == 0..255
U16(n) == <<(n \div 256) % 256, n % 256>>
U32(n) == <<(n \div 16777216) % 256, (n \div 65536) % 256>> \o U16(n)
At(b, i) == b[i + 1]
U16At(b, i) == At(b, i) * 256 + At(b, i + 1)
U32At(b, i) == U16At(b, i) * 65536 + U16At(b, i + 2)
Part(b, i, n) == SubSeq(b, i + 1, i + n)

----------------------------------------------------------------------------
(* The sender. *)
Send(type, units, bytes) ==
  /\ body = << >>
  /\ body' = [type |-> type, bytes |-> bytes]
  /\ sent' = units
  /\ received' = << >>
  /\ UNCHANGED <<rest, adts_header>>

sendSpsPpsToRtmpServer(sps, pps) ==
  Send("video", <<Nalu("SPS", sps), Nalu("PPS", pps)>>,
       <<23, 0, 0, 0, 0, 1, sps[2], sps[3], sps[4], 255, 225>> \o U16(Len(sps)) \o sps
         \o <<1>> \o U16(Len(pps)) \o pps)

(* A frame comes with a start code of three or of four bytes, told apart by *)
(* the third one.                                                           *)
WithoutStartCode(b) ==
  LET n == IF At(b, 2) = 0 THEN 4 ELSE 3 IN Part(b, n, Len(b) - n)

FrameBody(idr, length, payload) ==
  <<IF idr THEN 23 ELSE 39, 1, 0, 0, 0>> \o length \o payload

sendFrameToRtmpServer(idr, start, unit) ==
  LET payload == WithoutStartCode(start \o unit)
  IN  Send("video", <<Nalu(IF idr THEN "IDR" ELSE "OTHER", unit)>>,
           FrameBody(idr, U32(Len(payload)), payload))

(* The description of the stream: object type 2 (LC) in five bits, the      *)
(* sample rate in four and the channels in four.                            *)
DecoderSpecificInfo(format) ==
  <<2 * 8 + (format[1] \div 2), (format[1] % 2) * 128 + format[2] * 8>>

AudioType(format) == IF format[2] = 1 THEN 174 ELSE 175

getAudioDecodeInfo(format) ==
  Send("audio", <<Audio("INFO", format[2], DecoderSpecificInfo(format))>>,
       <<AudioType(format), 0>> \o DecoderSpecificInfo(format))

encodeAudioData(format, data) ==
  Send("audio", <<Audio("DATA", format[2], data)>>, <<AudioType(format), 1>> \o data)

----------------------------------------------------------------------------
(* The receiver.  A list of units: their number in five bits, then each     *)
(* with its length.                                                         *)
UnitAfter(b, type, before) ==
  LET len == U16At(b, before.at)
  IN  [at |-> before.at + 2 + len,
       units |-> Append(before.units, Nalu(type, Part(b, before.at + 2, len)))]

UnitsAt(b, type, offset) ==
  LET num == At(b, offset) % 32
      f[i \in 0..num] == IF i = 0 THEN [at |-> offset + 1, units |-> << >>]
                         ELSE UnitAfter(b, type, f[i - 1])
  IN  f[num]

handle_sps_pps_packet(b) ==
  LET sps == UnitsAt(b, "SPS", 10)
      pps == UnitsAt(b, "PPS", sps.at)
  IN  received' = sps.units \o pps.units /\ rest' = Len(b) - pps.at

handle_nalu_frame_packet(b) ==
  LET len == U32At(b, 5)
  IN  /\ received' = <<Nalu(IF At(b, 0) = 23 THEN "IDR" ELSE "OTHER", Part(b, 9, len))>>
      /\ rest' = Len(b) - (9 + len)

(* The two audio handlers differ in the type they pass on. *)
handle_audio_packet(b, type) ==
  /\ received' = <<Audio(type, IF At(b, 0) = 174 THEN 1 ELSE 2, Part(b, 2, Len(b) - 2))>>
  /\ rest' = 0

(* Mutation: the old length stays below the new one. *)
adts_length_NotCleared(len) ==
  LET all_len == 7 + len
  IN  [adts_header EXCEPT ![4] = @ + ((all_len \div 2048) % 4),
                          ![5] = (all_len \div 8) % 256,
                          ![6] = (@ % 32) + (all_len % 8) * 32]

(* The header of VideoCtrl: an announcement makes a new one, each packet    *)
(* replaces the length, 13 bits in bytes 3 to 5.                            *)
adts_length(len) ==
  LET all_len == 7 + len
  IN  [adts_header EXCEPT ![4] = (@ - (@ % 4)) + ((all_len \div 2048) % 4),
                          ![5] = (all_len \div 8) % 256,
                          ![6] = (@ % 32) + (all_len % 8) * 32]

ADTS(sampleIdx, channelsIdx) ==
  <<255, 241, 64 + (sampleIdx % 16) * 4 + ((channelsIdx \div 4) % 2), (channelsIdx % 4) * 64,
    0, 31, 252>>

adts_info(data) ==
  LET sampleIdx == (data[1] % 8) * 2 + (data[2] \div 128)
      channelsIdx == (data[2] \div 8) % 16
  IN  ADTS(sampleIdx, channelsIdx)

audioCallBack(type, data) ==
  adts_header' = IF type = "INFO" THEN adts_info(data) ELSE adts_length(Len(data))

(* handle_packet: the second byte tells the description from the rest.      *)
handle_packet ==
  /\ body # << >>
  /\ LET b == body.bytes
         described == At(b, 1) = 0
     IN  IF body.type = "video"
         THEN /\ IF described THEN handle_sps_pps_packet(b) ELSE handle_nalu_frame_packet(b)
              /\ UNCHANGED adts_header
         ELSE /\ handle_audio_packet(b, IF described THEN "INFO" ELSE "DATA")
              /\ audioCallBack(received'[1].type, received'[1].data)
  /\ body' = << >>
  /\ UNCHANGED sent

----------------------------------------------------------------------------
StartCodes == {<<0, 0, 1>>, <<0, 0, 0, 1>>}

(* The length of a parameter set fits into two bytes: encodeData has room   *)
(* for 100 of its bytes.                                                    *)
ParameterSets == {u \in Units : Len(u) < 65536}

(* Audio is described before it is sent. *)
Next ==
  \/ \E sps, pps \in ParameterSets : sendSpsPpsToRtmpServer(sps, pps)
  \/ \E unit \in Units, idr \in BOOLEAN, start \in StartCodes :
       sendFrameToRtmpServer(idr, start, unit)
  \/ \E f \in Formats : getAudioDecodeInfo(f)
  \/ adts_header # << >> /\ \E f \in Formats, data \in Samples : encodeAudioData(f, data)
  \/ handle_packet

Spec == Init /\ [][Next]_vars

----------------------------------------------------------------------------
AllBytes(b) == \A i \in DOMAIN b : b[i] \in Byte

(* The bytes stay bytes: no field of a header runs over into the next.      *)
TypeOK ==
  /\ body # << >> => body.type \in {"video", "audio"} /\ AllBytes(body.bytes)
  /\ Len(adts_header) \in {0, 7} /\ AllBytes(adts_header)

(* What comes out of VideoCapture is what the encoders put in: the same     *)
(* units in the same order, with their types, however long they are.        *)
DeliversWhatWasSent == body = << >> => received = sent

(* The parser takes a body to its last byte and never reads behind it.      *)
TakesTheWholeBody == rest = 0

(* Fields of an ADTS header. *)
FrameLength(h) == (h[4] % 4) * 2048 + h[5] * 8 + (h[6] \div 32)
FormatOf(h) == <<(h[3] \div 4) % 16, (h[3] % 2) * 4 + (h[4] \div 64)>>

(* The header says how long the packet behind it is, whatever lengths the   *)
(* packets before had; a packet that does not fit into 13 bits says less.   *)
HeaderHasLength ==
  [][handle_packet /\ received'[1].type = "DATA" =>
       FrameLength(adts_header') = (7 + Len(received'[1].data)) % 8192]_vars

(* The header keeps the format that was announced last over all packets.    *)
HeaderHasFormat ==
  [][handle_packet =>
       IF received'[1].type = "INFO"
       THEN \E f \in Formats : DecoderSpecificInfo(f) = received'[1].data /\ FormatOf(adts_header') = f
       ELSE adts_header # << >> => FormatOf(adts_header') = FormatOf(adts_header)]_vars

(* A packet arrives as it was sent, and what VideoCtrl puts before its      *)
(* audio says what is in it.                                                *)
PacketsArrive ==
  /\ [](TypeOK /\ DeliversWhatWasSent /\ TakesTheWholeBody)
  /\ HeaderHasLength /\ HeaderHasFormat
=============================================================================
