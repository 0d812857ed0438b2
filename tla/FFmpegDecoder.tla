---------------------------- MODULE FFmpegDecoder ----------------------------
(***************************************************************************)
(* FFmpeg_Decoder::receiveData (FFmpeg_Decoder.cpp): the loop that feeds   *)
(* bytes to a parser, the packets the parser finds to a codec, and the     *)
(* pictures (or samples) of the codec to handleOneFrame.  VideoCtrl and    *)
(* RecordCtrl each have one decoder for video and one for audio, which     *)
(* they keep over all their streams.                                       *)
(*                                                                         *)
(* Parser and codec are FFmpeg's, by their documented protocol: the parser *)
(* collects bytes until it has a packet; a codec takes a packet only when  *)
(* all its output has been read (EAGAIN otherwise), delivers none, one or  *)
(* more frames for it, or fails.  Results of FFmpeg are kept in a UINT32,  *)
(* so that a test for ret < 0 is never true; a comparison with AVERROR is. *)
(***************************************************************************)
EXTENDS Naturals

CONSTANTS
  MaxLen,    \* bound: bytes (or larger units) of one call
  MaxBytes,  \* bound: bytes of all calls
  MaxOut     \* bound: frames a codec delivers for one packet

ASSUME BoundsAssumption == MaxLen \in Nat /\ MaxBytes \in Nat /\ MaxOut \in Nat

VARIABLES
  parserData, len,  \* of receiveData: the number of the next byte, and how many are left
  bytes,            \* counts the bytes of all calls
  parsed,           \* the last byte the parser has taken
  partial,          \* TRUE: the parser holds the beginning of a packet
  output,           \* of the codec: how many frames and errors are not read yet
  bad,              \* the codec refused a packet as invalid
  exited,           \* exit(1)
  pc

inputVars == <<parserData, len, bytes>>
codecVars == <<output, bad>>
vars == <<inputVars, parsed, partial, codecVars, exited, pc>>

Init ==
  /\ parserData = 1 /\ len = 0 /\ bytes = 0
  /\ parsed = 0 /\ partial = FALSE
  /\ output = 0 /\ bad = FALSE
  /\ exited = FALSE
  /\ pc = "idle"

----------------------------------------------------------------------------
receiveData ==
  /\ pc = "idle"
  /\ \E n \in 1..MaxLen : bytes + n <= MaxBytes /\ bytes' = bytes + n /\ len' = n
  /\ parserData' = bytes + 1
  /\ pc' = "parse"
  /\ UNCHANGED <<parsed, partial, codecVars, exited>>

(* av_parser_parse2: it takes all there is without finding a packet, or     *)
(* some of it (none only when it has a packet from before) and finds one.   *)
Parser(ret, found) ==
  /\ IF found THEN ret > 0 \/ partial ELSE ret = len
  /\ parsed' = parserData + ret - 1
  /\ partial' = ~found

(* Mutation: the data is not moved on behind a packet. *)
parse_SameData ==
  /\ pc = "parse" /\ len > 0
  /\ \E ret \in 0..len, found \in BOOLEAN :
       /\ Parser(ret, found)
       /\ len' = len - ret
       /\ pc' = IF found THEN "send" ELSE "parse"
  /\ UNCHANGED <<parserData, bytes, codecVars, exited>>

parse ==
  /\ pc = "parse" /\ len > 0
  /\ \E ret \in 0..len, found \in BOOLEAN :
       /\ Parser(ret, found)
       /\ parserData' = parserData + ret
       /\ len' = len - ret
       /\ pc' = IF found THEN "send" ELSE "parse"
  /\ UNCHANGED <<bytes, codecVars, exited>>

return ==
  /\ pc = "parse" /\ len = 0
  /\ pc' = "idle"
  /\ UNCHANGED <<inputVars, parsed, partial, codecVars, exited>>

----------------------------------------------------------------------------
(* avcodec_send_packet: the codec takes the packet, or refuses it, because  *)
(* it is invalid or the codec is full.  A refusal ends the program.         *)
send ==
  /\ pc = "send"
  /\ \/ /\ output = 0
        /\ output' \in 0..MaxOut
        /\ pc' = "receive"
        /\ UNCHANGED <<bad, exited>>
     \/ /\ bad' = (output = 0)
        /\ exited' = TRUE /\ pc' = "exited"
        /\ UNCHANGED output
  /\ UNCHANGED <<inputVars, parsed, partial>>

(* Mutation: at most one frame is read for a packet. *)
receiveFrame_Once ==
  /\ pc = "receive" /\ output > 0
  /\ output' = output - 1
  /\ pc' = "parse"
  /\ UNCHANGED <<inputVars, parsed, partial, bad, exited>>

(* avcodec_receive_frame and handleOneFrame.  The test for an error is      *)
(* never true: a frame that FFmpeg has emptied is handed over like any      *)
(* other, and the loop goes on.                                             *)
receiveFrame ==
  /\ pc = "receive" /\ output > 0
  /\ output' = output - 1
  /\ UNCHANGED <<inputVars, parsed, partial, bad, exited, pc>>

(* EAGAIN ends the loop. *)
receiveNothing ==
  /\ pc = "receive" /\ output = 0
  /\ pc' = "parse"
  /\ UNCHANGED <<inputVars, parsed, partial, codecVars, exited>>

Step == parse \/ return \/ send \/ receiveFrame \/ receiveNothing

(* The program has exited, or the streams are over. *)
Over ==
  /\ exited \/ (pc = "idle" /\ bytes = MaxBytes)
  /\ UNCHANGED vars

Next == receiveData \/ Step \/ Over

Spec == Init /\ [][Next]_vars

----------------------------------------------------------------------------
(* Types of the variables. *)
TypeOK ==
  /\ parserData \in Nat /\ len \in Nat /\ bytes \in Nat /\ parsed \in Nat
  /\ partial \in BOOLEAN /\ bad \in BOOLEAN /\ exited \in BOOLEAN
  /\ output \in 0..MaxOut
  /\ pc \in {"idle", "parse", "send", "receive", "exited"}

(* The parser gets every byte once and in order, over all calls and however *)
(* many packets it finds in one.                                            *)
EveryByteOnce ==
  /\ [][parsed' # parsed => parsed' > parsed /\ parserData = parsed + 1]_vars
  /\ [](pc = "idle" => parsed = bytes)

(* The program exits for a packet the codec finds invalid, and never        *)
(* because the codec could not take one while it had frames to give away.   *)
ExitNeedsBadPacket == exited => bad

(* Between two packets and between two calls no frame waits in the codec:   *)
(* a picture is shown when its packet has been decoded, not with the next.  *)
NoFrameWaits == pc \in {"idle", "parse"} => output = 0

(* The codec keeps up with the parser: it is never full when a packet       *)
(* comes, and gives away all it has before the next.                        *)
CodecKeepsUp == ExitNeedsBadPacket /\ NoFrameWaits
=============================================================================
