------------------------------- MODULE MCMedia -------------------------------
(***************************************************************************)
(* What happens to the data of a stream on its way to a window, for model  *)
(* checking: the loop that feeds the codec (FFmpegDecoder), the packets    *)
(* (StreamFormat), the cipher (Crypto) and the decoders that outlive a     *)
(* stream (WindowDecoders).  They share no state, so that one of them runs *)
(* in each behaviour while the others stay as they begin.                  *)
(***************************************************************************)
EXTENDS FFmpegDecoder, Sequences

CONSTANTS
  Bits, MaxKey, MaxBuf,  \* of Crypto
  Sizes, MaxStreams,     \* of WindowDecoders: picture sizes, and the bound of the streams
  Units, Samples, Formats \* of StreamFormat

ASSUME MaxStreamsAssumption == MaxStreams \in Nat

VARIABLES
  part,                                                      \* the one that runs
  body, sent, received, rest, adts_header,                   \* of StreamFormat
  key, key_len, buf, buf_len, plain, crypt_len, crypt_i, crypt_pc,
  kind, size, playing, stream, held, left, frame, own,      \* of WindowDecoders
  misfit, window_header, audio, described

(* Lengths at the boundaries of their bytes, and of the 13 bits of the ADTS *)
(* header.                                                                  *)
Bytes(n, from) == [j \in 1..n |-> (j * 7 + from) % 256]
EdgeUnits == {Bytes(n, 103) : n \in {4, 255, 256, 700}}
EdgeSamples == {Bytes(n, 33) : n \in {1, 249, 2041, 8184, 8185}}
SomeFormats == {3, 4, 11} \X {1, 2}

Format == INSTANCE StreamFormat

(* What the encoders hand over: the length of a unit fits into the four     *)
(* bytes there are for it, the index of a sample rate into four bits, and   *)
(* faac makes one channel or two.                                           *)
ASSUME UnitsAssumption ==
  \A u \in Units : u \in Seq(Format!Byte) /\ Len(u) >= 4 /\ Len(u) \div 65536 < 65536
ASSUME SamplesAssumption == Samples \subseteq Seq(Format!Byte)
ASSUME FormatsAssumption == Formats \subseteq (0..15) \X {1, 2}

Cipher == INSTANCE Crypto WITH len <- crypt_len, i <- crypt_i, pc <- crypt_pc
Decoders == INSTANCE WindowDecoders WITH adts_header <- window_header

formatVars == <<body, sent, received, rest, adts_header>>
cipherVars == <<key, key_len, buf, buf_len, plain, crypt_len, crypt_i, crypt_pc>>
windowVars ==
  <<kind, size, playing, stream, held, left, frame, own, misfit, window_header, audio, described>>
allVars == <<part, vars, formatVars, cipherVars, windowVars>>

MediaInit ==
  /\ part \in {"codec", "format", "cipher", "window"}
  /\ Init /\ Format!Init /\ Cipher!Init /\ Decoders!Init
  /\ part # "cipher" => buf_len = 0 /\ key_len = 1
  /\ part # "window" => kind = "record" /\ \A s, t \in DOMAIN size : size[s] = size[t]

MediaNext ==
  \/ part = "codec" /\ Next /\ UNCHANGED <<part, formatVars, cipherVars, windowVars>>
  \/ part = "format" /\ Format!Next /\ UNCHANGED <<part, vars, cipherVars, windowVars>>
  \/ part = "cipher" /\ Cipher!Next /\ UNCHANGED <<part, vars, formatVars, windowVars>>
  \/ part = "window" /\ Decoders!Next /\ UNCHANGED <<part, vars, formatVars, cipherVars>>

MediaSpec == MediaInit /\ [][MediaNext]_allVars

----------------------------------------------------------------------------
(* A packet arrives at the callbacks of VideoCapture as the encoders made   *)
(* it, and its ADTS header says what is in it (VideoCapture.cpp:117-191,    *)
(* VideoCtrl.cpp:35-65).                                                    *)
PacketsArrive == Format!PacketsArrive

(* The cipher is the key repeated over the frame, and decrypting undoes it  *)
(* (Crypto.hpp:20-32).                                                      *)
CryptIsRight == Cipher!CryptIsRight

(* What a stream leaves in the parser of a window, and nothing else, gives  *)
(* the next a frame of the wrong size, until stop (VideoCtrl.cpp:72-91).    *)
DecodersFitStream == Decoders!DecodersFitStream
=============================================================================
