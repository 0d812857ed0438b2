---------------------------- MODULE MCMedia_proofs ----------------------------
(***************************************************************************)
(* The theorems of FFmpegDecoder, Crypto, WindowDecoders and StreamFormat  *)
(* and of the specification that runs one of them: for calls of any length *)
(* and packets with any number of frames, for keys and frames of every     *)
(* length, for any number of streams, and for units, samples and formats   *)
(* of every length the packets have room for.                              *)
(***************************************************************************)
EXTENDS MCMedia, SequenceTheorems, TLAPS

----------------------------------------------------------------------------
(* FFmpegDecoder. *)

(* parserData, len and parsed move together, and the codec is empty outside *)
(* of the loop that reads it.                                               *)
PositionInv ==
  /\ parserData \in Nat /\ len \in Nat /\ bytes \in Nat /\ parsed \in Nat
  /\ output \in Nat
  /\ pc \in {"idle", "parse", "send", "receive", "exited"}
  /\ parserData = parsed + 1 /\ parsed + len = bytes
  /\ pc = "idle" => len = 0
  /\ pc # "receive" => output = 0

Inv == PositionInv /\ ExitNeedsBadPacket

(* What av_parser_parse2 takes, in terms of the position. *)
LEMMA ParserTakes ==
  ASSUME PositionInv, NEW ret \in 0..len, NEW found \in BOOLEAN, Parser(ret, found)
  PROVE  parsed' = parsed + ret
  BY DEF Parser, PositionInv

LEMMA InitEstablishes == Init => Inv
<1>1. Init => PositionInv
  BY DEF Init, PositionInv
<1>2. Init => ExitNeedsBadPacket
  BY Zenon DEF Init, ExitNeedsBadPacket
<1> QED
  BY <1>1, <1>2 DEF Inv

LEMMA PositionStep == PositionInv /\ [Next]_vars => PositionInv'
<1> SUFFICES ASSUME PositionInv, [Next]_vars PROVE PositionInv'
  OBVIOUS
<1> USE DEF codecVars, inputVars
<1>1. CASE receiveData
  <2>1. PICK n \in 1..MaxLen : bytes' = bytes + n /\ len' = n
    BY <1>1 DEF receiveData
  <2>2. n \in Nat /\ len = 0 /\ bytes = parsed
    BY <1>1, BoundsAssumption DEF receiveData, PositionInv
  <2> QED
    BY <1>1, <2>1, <2>2 DEF receiveData, PositionInv
<1>2. CASE parse
  <2>1. PICK ret \in 0..len, found \in BOOLEAN :
          /\ Parser(ret, found)
          /\ parserData' = parserData + ret /\ len' = len - ret
          /\ pc' = IF found THEN "send" ELSE "parse"
    BY <1>2 DEF parse
  <2>2. parsed' = parsed + ret
    BY <2>1, ParserTakes
  <2> QED
    BY <1>2, <2>1, <2>2 DEF parse, PositionInv
<1>3. CASE return
  BY <1>3 DEF return, PositionInv
<1>4. CASE send
  BY <1>4, BoundsAssumption DEF send, PositionInv
<1>5. CASE receiveFrame
  BY <1>5 DEF receiveFrame, PositionInv
<1>6. CASE receiveNothing
  BY <1>6 DEF receiveNothing, PositionInv
<1>7. CASE UNCHANGED vars
  BY <1>7 DEF vars, PositionInv
<1> QED
  BY <1>1, <1>2, <1>3, <1>4, <1>5, <1>6, <1>7 DEF Next, Step, Over

LEMMA ExitStep == Inv /\ [Next]_vars => ExitNeedsBadPacket'
<1> SUFFICES ASSUME Inv, [Next]_vars PROVE ExitNeedsBadPacket'
  OBVIOUS
<1>1. CASE send
  <2>1. output = 0
    BY <1>1 DEF send, Inv, PositionInv
  <2> QED
    BY <1>1, <2>1, Zenon DEF send, Inv, ExitNeedsBadPacket
<1>2. CASE UNCHANGED <<bad, exited>>
  BY <1>2, Zenon DEF Inv, ExitNeedsBadPacket
<1> QED
  BY <1>1, <1>2
     DEF Next, Step, Over, receiveData, parse, return, receiveFrame, receiveNothing, vars, codecVars

(* What PositionInv leaves open: the flags, and the bound of the output.    *)
FlagsOK ==
  /\ partial \in BOOLEAN /\ bad \in BOOLEAN /\ exited \in BOOLEAN
  /\ output \in 0..MaxOut

LEMMA FlagsStep == FlagsOK /\ [Next]_vars => FlagsOK'
<1> SUFFICES ASSUME FlagsOK, [Next]_vars PROVE FlagsOK'
  OBVIOUS
<1>1. (partial \in BOOLEAN)'
  BY Zenon DEF FlagsOK, Next, Step, Over, receiveData, parse, Parser, return, send,
     receiveFrame, receiveNothing, vars
<1>2. (bad \in BOOLEAN /\ exited \in BOOLEAN)'
  BY Zenon DEF FlagsOK, Next, Step, Over, receiveData, parse, return, send,
     receiveFrame, receiveNothing, vars, codecVars
<1>3. (output \in 0..MaxOut)'
  BY BoundsAssumption DEF FlagsOK, Next, Step, Over, receiveData, parse, return, send,
     receiveFrame, receiveNothing, vars, codecVars
<1> QED
  BY <1>1, <1>2, <1>3 DEF FlagsOK

(* The inductive invariant of receiveData. *)
THEOREM DecoderInvariant == Spec => []Inv
<1>1. Inv /\ [Next]_vars => Inv'
  BY PositionStep, ExitStep DEF Inv
<1> QED
  BY InitEstablishes, <1>1, PTL DEF Spec

(* Types of the variables. *)
THEOREM TypeCorrect == Spec => []TypeOK
<1>1. Init => FlagsOK
  <2> SUFFICES ASSUME Init PROVE FlagsOK
    OBVIOUS
  <2>1. partial \in BOOLEAN /\ bad \in BOOLEAN /\ exited \in BOOLEAN
    BY Zenon DEF Init
  <2>2. output \in 0..MaxOut
    BY BoundsAssumption DEF Init
  <2> QED
    BY <2>1, <2>2 DEF FlagsOK
<1>2. Inv /\ FlagsOK => TypeOK
  BY Zenon DEF Inv, PositionInv, FlagsOK, TypeOK
<1> QED
  BY DecoderInvariant, FlagsStep, <1>1, <1>2, PTL DEF Spec

(* The program exits for an invalid packet only: the codec is never full    *)
(* when a packet is sent.                                                   *)
THEOREM NeverFull == Spec => []ExitNeedsBadPacket
<1>1. Inv => ExitNeedsBadPacket
  BY DEF Inv
<1> QED
  BY DecoderInvariant, <1>1, PTL

(* No frame stays in the codec between two packets or two calls. *)
THEOREM CodecIsDrained == Spec => []NoFrameWaits
<1>1. Inv => NoFrameWaits
  BY DEF Inv, PositionInv, NoFrameWaits
<1> QED
  BY DecoderInvariant, <1>1, PTL

(* Both at once: the codec keeps up. *)
THEOREM CodecKept == Spec => []CodecKeepsUp
  BY NeverFull, CodecIsDrained, PTL DEF CodecKeepsUp

(* The parser gets every byte once and in order. *)
THEOREM BytesInOrder == Spec => EveryByteOnce
<1> DEFINE Taken == parsed' # parsed => parsed' > parsed /\ parserData = parsed + 1
           AllTaken == pc = "idle" => parsed = bytes
<1>1. Inv /\ [Next]_vars => [Taken]_vars
  <2> SUFFICES ASSUME Inv, Next, parsed' # parsed PROVE parsed' > parsed /\ parserData = parsed + 1
    OBVIOUS
  <2>1. parse
    BY DEF Next, Step, Over, receiveData, return, send, receiveFrame, receiveNothing, vars
  <2>2. PICK ret \in 0..len, found \in BOOLEAN : Parser(ret, found)
    BY <2>1 DEF parse
  <2>3. parsed' = parsed + ret
    BY <2>2, ParserTakes DEF Inv
  <2> QED
    BY <2>2, <2>3 DEF Inv, PositionInv
<1>2. Inv => AllTaken
  BY DEF Inv, PositionInv
<1> QED
  BY DecoderInvariant, <1>1, <1>2, PTL DEF Spec, EveryByteOnce

----------------------------------------------------------------------------
(* Crypto. *)

(* Xor makes a byte of two, and twice the same undoes it. *)
LEMMA XorOfBytes ==
  \A a, b \in Cipher!Byte :
    Cipher!Xor(a, b) \in Cipher!Byte /\ Cipher!Xor(Cipher!Xor(a, b), b) = a
  BY DEF Cipher!Byte, Cipher!Xor

(* The remainders the loops run through. *)
LEMMA ModRange ==
  ASSUME NEW a \in Nat, NEW b \in Nat \ {0}
  PROVE  a % b \in 0..(b - 1)
  BY SMT

LEMMA DivMod ==
  ASSUME NEW a \in Nat, NEW b \in Nat \ {0}
  PROVE  a \div b \in Nat /\ a = b * (a \div b) + (a % b)
  BY SMT

LEMMA UniqueRemainder ==
  ASSUME NEW b \in Nat \ {0}, NEW q \in Nat, NEW p \in Nat,
         NEW r \in 0..(b - 1), NEW s \in 0..(b - 1), b * q + r = b * p + s
  PROVE  r = s
  BY SMT

(* Within a piece the key is used from its beginning. *)
LEMMA IndexInPiece ==
  ASSUME NEW a \in Nat, NEW b \in Nat \ {0}, a % b = 0, NEW n \in 0..(b - 1)
  PROVE  (a + n) % b = n
  BY SMT

(* Behind a whole piece another one begins. *)
LEMMA NextPiece ==
  ASSUME NEW a \in Nat, NEW b \in Nat \ {0}, a % b = 0
  PROVE  (a + b) % b = 0
<1> DEFINE q == a \div b
           p == (a + b) \div b
           r == (a + b) % b
<1>1. q \in Nat /\ a = b * q
  BY DivMod
<1>2. p \in Nat /\ a + b = b * p + r
  BY DivMod, a + b \in Nat
<1>3. r \in 0..(b - 1)
  BY ModRange, a + b \in Nat
<1>4. b * (q + 1) + 0 = b * p + r
  <2>1. b * (q + 1) = b * q + b
    BY <1>1, SMT
  <2>2. b * (q + 1) + 0 = a + b
    BY <1>1, <2>1
  <2> QED
    BY <1>2, <2>2
<1> HIDE DEF q, p, r
<1>5. q + 1 \in Nat /\ 0 \in 0..(b - 1)
  BY <1>1
<1>6. 0 = r
  BY <1>2, <1>3, <1>4, <1>5, UniqueRemainder
<1> QED
  BY <1>6 DEF r

----------------------------------------------------------------------------
Pad(j) == Cipher!Xor(plain[j], key[j % key_len])

(* What the buffer holds at j: what the loop has left behind is changed,    *)
(* what lies ahead is not.                                                  *)
Expected(j) ==
  IF \/ crypt_pc = "encrypt" /\ j < crypt_len + crypt_i
     \/ crypt_pc = "sent"
     \/ crypt_pc = "decrypt" /\ ~(j < crypt_len + crypt_i)
  THEN Pad(j) ELSE plain[j]

(* A piece begins at a multiple of the key, and the loop inside stays in    *)
(* it.                                                                      *)
InPiece ==
  IF crypt_len < buf_len THEN crypt_len % key_len = 0 /\ crypt_i <= Cipher!Piece ELSE crypt_i = 0

BufferAsExpected == \A j \in 0..(buf_len - 1) : buf[j] = Expected(j)

CryptInv == Cipher!TypeOK /\ InPiece /\ BufferAsExpected

(* The pad of a byte is a byte, and applying it twice gives the byte back.  *)
LEMMA PadIsByte ==
  ASSUME Cipher!TypeOK, NEW j \in 0..(buf_len - 1)
  PROVE  /\ plain[j] \in Cipher!Byte /\ key[j % key_len] \in Cipher!Byte /\ Pad(j) \in Cipher!Byte
         /\ Cipher!Xor(Pad(j), key[j % key_len]) = plain[j]
<1>1. j \in Nat /\ key_len \in Nat \ {0} /\ plain[j] \in Cipher!Byte
  BY DEF Cipher!TypeOK
<1>2. j % key_len \in 0..(key_len - 1)
  BY <1>1, ModRange
<1>3. key[j % key_len] \in Cipher!Byte
  BY <1>2 DEF Cipher!TypeOK
<1> QED
  BY <1>1, <1>3, XorOfBytes DEF Pad

LEMMA CipherInit == Cipher!Init => CryptInv
<1> SUFFICES ASSUME Cipher!Init PROVE CryptInv
  OBVIOUS
<1>1. Cipher!TypeOK
  BY DEF Cipher!Init, Cipher!TypeOK
<1>2. InPiece
  BY <1>1 DEF Cipher!Init, InPiece, Cipher!TypeOK, Cipher!Piece
<1>3. BufferAsExpected
  BY <1>1 DEF Cipher!Init, BufferAsExpected, Expected, Cipher!TypeOK
<1> QED
  BY <1>1, <1>2, <1>3 DEF CryptInv

LEMMA XorUnitPreserves == CryptInv /\ Cipher!xor_unit => CryptInv'
<1> SUFFICES ASSUME CryptInv, Cipher!xor_unit PROVE CryptInv'
  OBVIOUS
<1> USE DEF CryptInv
<1> DEFINE at == crypt_len + crypt_i
<1>1. /\ key_len \in Nat \ {0} /\ buf_len \in Nat /\ crypt_len \in Nat /\ crypt_i \in Nat
      /\ crypt_len < buf_len /\ crypt_i < key_len /\ at < buf_len /\ at \in 0..(buf_len - 1)
      /\ crypt_len % key_len = 0 /\ crypt_i < Cipher!Piece
  BY DEF Cipher!TypeOK, Cipher!xor_unit, Cipher!Piece, InPiece
<1>2. at % key_len = crypt_i
  BY <1>1, IndexInPiece
<1>3. buf[at] \in Cipher!Byte /\ key[crypt_i] \in Cipher!Byte
  BY <1>1 DEF Cipher!TypeOK
<1>4. Cipher!TypeOK'
  <2>1. Cipher!Xor(buf[at], key[crypt_i]) \in Cipher!Byte
    BY <1>3, XorOfBytes
  <2>2. buf' \in [0..(buf_len - 1) -> Cipher!Byte]
    BY <2>1 DEF Cipher!TypeOK, Cipher!xor_unit
  <2> QED
    BY <1>1, <2>2 DEF Cipher!TypeOK, Cipher!xor_unit, Cipher!constVars
<1>5. InPiece'
  BY <1>1 DEF InPiece, Cipher!xor_unit, Cipher!Piece, Cipher!constVars
<1>6. BufferAsExpected'
  <2> SUFFICES ASSUME NEW j \in 0..(buf_len - 1) PROVE buf'[j] = Expected(j)'
    BY DEF BufferAsExpected, Cipher!xor_unit, Cipher!constVars
  <2>1. /\ crypt_pc \in {"encrypt", "decrypt"} /\ crypt_pc' = crypt_pc /\ crypt_len' = crypt_len
        /\ crypt_i' = crypt_i + 1 /\ Pad(j)' = Pad(j)
    BY DEF Cipher!xor_unit, Cipher!Crypting, Cipher!constVars, Pad
  <2>2. buf[j] = Expected(j)
    BY DEF BufferAsExpected
  <2>3. CASE j = at
    <3>1. buf'[j] = Cipher!Xor(buf[j], key[j % key_len])
      BY <1>1, <1>2, <2>3 DEF Cipher!xor_unit, Cipher!TypeOK
    <3>2. Cipher!Xor(plain[j], key[j % key_len]) = Pad(j) /\ Cipher!Xor(Pad(j), key[j % key_len]) = plain[j]
      BY PadIsByte DEF Pad
    <3>3. j < crypt_len' + crypt_i' /\ ~(j < crypt_len + crypt_i)
      BY <1>1, <2>1, <2>3
    <3>4. plain' = plain
      BY DEF Cipher!xor_unit, Cipher!constVars
    <3> QED
      BY <2>1, <2>2, <3>1, <3>2, <3>3, <3>4 DEF Expected
  <2>4. CASE j # at
    <3>1. buf'[j] = buf[j]
      BY <2>4 DEF Cipher!xor_unit, Cipher!TypeOK
    <3>2. (j < crypt_len' + crypt_i') <=> (j < crypt_len + crypt_i)
      BY <1>1, <2>1, <2>4
    <3>3. plain' = plain
      BY DEF Cipher!xor_unit, Cipher!constVars
    <3> QED
      BY <2>1, <2>2, <3>1, <3>2, <3>3 DEF Expected
  <2> QED
    BY <2>3, <2>4
<1> QED
  BY <1>4, <1>5, <1>6

LEMMA NextUnitPreserves == CryptInv /\ Cipher!nextUnit => CryptInv'
<1> SUFFICES ASSUME CryptInv, Cipher!nextUnit PROVE CryptInv'
  OBVIOUS
<1> USE DEF CryptInv
<1>1. /\ key_len \in Nat \ {0} /\ buf_len \in Nat /\ crypt_len \in Nat
      /\ crypt_len < buf_len /\ crypt_len % key_len = 0
      /\ crypt_len' = crypt_len + Cipher!Piece /\ crypt_i = Cipher!Piece /\ crypt_i' = 0
      /\ crypt_len' + crypt_i' = crypt_len + crypt_i
      /\ key_len' = key_len /\ buf_len' = buf_len /\ crypt_pc' = crypt_pc /\ plain' = plain
      /\ key' = key /\ buf' = buf
  BY DEF Cipher!TypeOK, Cipher!nextUnit, Cipher!Piece, InPiece, Cipher!constVars
<1>2. Cipher!TypeOK'
  BY <1>1 DEF Cipher!TypeOK, Cipher!Piece
<1>3. InPiece'
  <2>1. CASE crypt_len' < buf_len
    <3>1. crypt_len' = crypt_len + key_len
      BY <1>1, <2>1 DEF Cipher!Piece
    <3>2. (crypt_len + key_len) % key_len = 0
      BY <1>1, NextPiece
    <3>3. 0 <= Cipher!Piece'
      BY <1>1, <2>1, <1>2 DEF Cipher!Piece, Cipher!TypeOK
    <3> QED
      BY <1>1, <3>1, <3>2, <3>3 DEF InPiece
  <2>2. CASE ~(crypt_len' < buf_len)
    BY <1>1, <2>2 DEF InPiece
  <2> QED
    BY <2>1, <2>2
<1>4. BufferAsExpected'
  <2>1. \A j \in 0..(buf_len - 1) : Expected(j)' = Expected(j)
    BY <1>1 DEF Expected, Pad
  <2> QED
    BY <1>1, <2>1 DEF BufferAsExpected
<1> QED
  BY <1>2, <1>3, <1>4

LEMMA ReturnPreserves == CryptInv /\ Cipher!return => CryptInv'
<1> SUFFICES ASSUME CryptInv, Cipher!return PROVE CryptInv'
  OBVIOUS
<1> USE DEF CryptInv
<1>1. /\ crypt_pc \in {"encrypt", "decrypt"} /\ crypt_len = buf_len /\ crypt_i = 0
      /\ crypt_pc' = IF crypt_pc = "encrypt" THEN "sent" ELSE "received"
      /\ UNCHANGED <<Cipher!constVars, buf, crypt_len, crypt_i>>
  BY DEF Cipher!return, Cipher!Crypting, Cipher!TypeOK, InPiece
<1>2. Cipher!TypeOK'
  BY <1>1 DEF Cipher!TypeOK, Cipher!constVars
<1>3. InPiece'
  BY <1>1 DEF InPiece, Cipher!Piece, Cipher!constVars, Cipher!TypeOK
<1>4. BufferAsExpected'
  <2> SUFFICES ASSUME NEW j \in 0..(buf_len - 1) PROVE buf[j] = Expected(j)'
    BY <1>1 DEF BufferAsExpected, Cipher!constVars
  <2>1. buf[j] = Expected(j) /\ j < crypt_len + crypt_i
    BY <1>1 DEF BufferAsExpected, Cipher!TypeOK
  <2>2. Pad(j)' = Pad(j) /\ plain' = plain
    BY <1>1 DEF Pad, Cipher!constVars
  <2> QED
    BY <1>1, <2>1, <2>2 DEF Expected
<1> QED
  BY <1>2, <1>3, <1>4

LEMMA DecryptPreserves == CryptInv /\ Cipher!decrypt => CryptInv'
<1> SUFFICES ASSUME CryptInv, Cipher!decrypt PROVE CryptInv'
  OBVIOUS
<1> USE DEF CryptInv
<1>1. /\ crypt_pc = "sent" /\ crypt_pc' = "decrypt" /\ crypt_len' = 0 /\ crypt_i' = 0
      /\ UNCHANGED <<Cipher!constVars, buf>>
  BY DEF Cipher!decrypt
<1>2. Cipher!TypeOK'
  BY <1>1 DEF Cipher!TypeOK, Cipher!constVars
<1>3. InPiece'
  <2>1. key_len \in Nat \ {0} /\ buf_len \in Nat /\ 0 % key_len = 0
    BY SMT DEF Cipher!TypeOK
  <2> QED
    BY <1>1, <2>1 DEF InPiece, Cipher!Piece, Cipher!constVars
<1>4. BufferAsExpected'
  <2> SUFFICES ASSUME NEW j \in 0..(buf_len - 1) PROVE buf[j] = Expected(j)'
    BY <1>1 DEF BufferAsExpected, Cipher!constVars
  <2>1. buf[j] = Pad(j) /\ ~(j < crypt_len' + crypt_i')
    BY <1>1 DEF BufferAsExpected, Expected
  <2>2. Pad(j)' = Pad(j)
    BY <1>1 DEF Pad, Cipher!constVars
  <2> QED
    BY <1>1, <2>1, <2>2 DEF Expected
<1> QED
  BY <1>2, <1>3, <1>4

(* The loop invariant of crypt, over both of its runs. *)
THEOREM CryptInvariant == Cipher!Spec => []CryptInv
<1>1. CryptInv /\ [Cipher!Next]_(Cipher!vars) => CryptInv'
  <2> SUFFICES ASSUME CryptInv, [Cipher!Next]_(Cipher!vars) PROVE CryptInv'
    OBVIOUS
  <2>1. CASE Cipher!xor_unit
    BY <2>1, XorUnitPreserves
  <2>2. CASE Cipher!nextUnit
    BY <2>2, NextUnitPreserves
  <2>3. CASE Cipher!return
    BY <2>3, ReturnPreserves
  <2>4. CASE Cipher!decrypt
    BY <2>4, DecryptPreserves
  <2>5. CASE UNCHANGED Cipher!vars
    BY <2>5 DEF CryptInv, Cipher!TypeOK, InPiece, Cipher!Piece, BufferAsExpected, Expected, Pad,
       Cipher!vars, Cipher!constVars
  <2> QED
    BY <2>1, <2>2, <2>3, <2>4, <2>5 DEF Cipher!Next, Cipher!Step, Cipher!Over
<1> QED
  BY CipherInit, <1>1, PTL DEF Cipher!Spec

(* Types are kept, and neither loop passes its end. *)
THEOREM CipherTypes == Cipher!Spec => []Cipher!TypeOK
<1>1. CryptInv => Cipher!TypeOK
  BY DEF CryptInv
<1> QED
  BY CryptInvariant, <1>1, PTL

(* What is sent is the frame under the key repeated over its length. *)
THEOREM SentCipher == Cipher!Spec => []Cipher!SentUnderRepeatedKey
<1>1. CryptInv => Cipher!SentUnderRepeatedKey
  BY DEF CryptInv, BufferAsExpected, Expected, Pad, Cipher!SentUnderRepeatedKey
<1> QED
  BY CryptInvariant, <1>1, PTL

(* Decrypting gives back the frame. *)
THEOREM DecryptInvertsEncrypt == Cipher!Spec => []Cipher!ReceivedIsPlain
<1>1. CryptInv => Cipher!ReceivedIsPlain
  <2> SUFFICES ASSUME CryptInv, crypt_pc = "received" PROVE buf = plain
    BY DEF Cipher!ReceivedIsPlain
  <2>1. \A j \in 0..(buf_len - 1) : buf[j] = plain[j]
    BY DEF CryptInv, BufferAsExpected, Expected
  <2> QED
    BY <2>1 DEF CryptInv, Cipher!TypeOK
<1> QED
  BY CryptInvariant, <1>1, PTL

(* The cipher is right on both sides. *)
THEOREM CipherCorrect == Cipher!Spec => []Cipher!CryptIsRight
  BY CipherTypes, SentCipher, DecryptInvertsEncrypt, PTL DEF Cipher!CryptIsRight

----------------------------------------------------------------------------
(* WindowDecoders. *)

(* Streams are numbered from one, and the parser holds nothing, what was    *)
(* left or a picture of the stream.  A monitor has no frame before the      *)
(* first picture is out; then it has the one that was made for the picture  *)
(* left, or for the stream when none was.                                   *)
FirstPicture == IF left # 0 THEN left ELSE stream

FrameInv ==
  /\ playing => stream # 0 /\ left < stream /\ held \in {0, left, stream}
  /\ playing /\ frame = 0 => ~own /\ ~misfit /\ (left # 0 => held = left)
  /\ kind = "monitor" =>
       IF playing THEN frame # 0 => frame = FirstPicture /\ held \in {0, stream} ELSE frame = 0

WindowInv == Decoders!DecodersFitStream /\ FrameInv

LEMMA WindowInit == Decoders!Init => WindowInv
<1> SUFFICES ASSUME Decoders!Init PROVE WindowInv
  OBVIOUS
<1> USE DEF Decoders!Init
<1>1. Decoders!TypeOK
  <2>1. /\ stream \in 0..MaxStreams /\ held \in 0..stream /\ frame \in 0..stream
        /\ left \in 0..stream /\ window_header \in 0..stream
    BY MaxStreamsAssumption
  <2> QED
    BY <2>1, Zenon DEF Decoders!TypeOK
<1>2. Decoders!MisfitComesFromLeftPicture /\ Decoders!SoundHasItsFormat
  BY DEF Decoders!MisfitComesFromLeftPicture, Decoders!SoundHasItsFormat
<1>3. FrameInv
  BY DEF FrameInv
<1> QED
  BY <1>1, <1>2, <1>3 DEF WindowInv, Decoders!DecodersFitStream

(* What a picture that comes out of the decoder leaves of the frame. *)
LEMMA PictureStep ==
  ASSUME WindowInv, Decoders!receiveNalu, held # 0
  PROVE  /\ frame' = (IF frame = 0 THEN held ELSE frame) /\ frame' \in 1..stream
         /\ own' = (own \/ held = stream) /\ own' \in BOOLEAN
         /\ misfit' \in BOOLEAN
         /\ misfit' => \E s \in {left, stream} \ {0} : size[s] # size[frame']
         /\ kind = "monitor" =>
              /\ frame' = FirstPicture
              /\ misfit' <=> own' /\ left # 0 /\ size[left] # size[stream]
<1>1. /\ playing = TRUE /\ Decoders!TypeOK /\ own \in BOOLEAN /\ misfit \in BOOLEAN
      /\ stream \in Nat /\ held \in 0..stream /\ frame \in 0..stream /\ left \in 0..stream
  BY MaxStreamsAssumption DEF Decoders!receiveNalu, WindowInv, Decoders!DecodersFitStream, Decoders!TypeOK
<1>2. /\ left < stream /\ held \in {left, stream} \ {0}
      /\ frame = 0 => ~own /\ ~misfit /\ (left # 0 => held = left)
      /\ kind = "monitor" /\ frame # 0 => frame = FirstPicture /\ held = stream
  BY <1>1 DEF WindowInv, FrameInv
<1>3. /\ misfit => \E s \in {left, stream} \ {0} : size[s] # size[frame]
      /\ kind = "monitor" => (misfit <=> own /\ left # 0 /\ size[left] # size[stream])
  BY <1>1 DEF WindowInv, Decoders!DecodersFitStream, Decoders!MisfitComesFromLeftPicture
<1>4. /\ frame' = (IF frame = 0 THEN held ELSE frame)
      /\ own' = (own \/ held = stream)
      /\ misfit' = (misfit \/ size[frame'] # size[held])
  BY DEF Decoders!receiveNalu, Decoders!showFrame
<1>5. frame' \in 1..stream
  BY <1>1, <1>2, <1>4
<1>6. own' \in BOOLEAN /\ misfit' \in BOOLEAN
  BY <1>1, <1>4, Zenon
<1>7. CASE frame = 0
  <2>1. frame' = held /\ ~misfit' /\ (own' <=> held = stream)
    BY <1>2, <1>4, <1>7
  <2>2. left # 0 => held = left /\ ~own'
    BY <1>1, <1>2, <1>7, <2>1
  <2>3. left = 0 => held = stream
    BY <1>2
  <2>4. frame' = FirstPicture
    BY <2>1, <2>2, <2>3 DEF FirstPicture
  <2> QED
    BY <1>4, <1>5, <1>6, <2>1, <2>2, <2>4
<1>8. CASE frame # 0
  <2>1. frame' = frame /\ (misfit' <=> misfit \/ size[frame] # size[held])
    BY <1>4, <1>8
  <2>2. misfit' => \E s \in {left, stream} \ {0} : size[s] # size[frame']
    BY <1>2, <1>3, <2>1
  <2>3. ASSUME kind = "monitor"
        PROVE  frame' = FirstPicture /\ (misfit' <=> own' /\ left # 0 /\ size[left] # size[stream])
    <3>1. frame = FirstPicture /\ held = stream /\ own'
      BY <1>2, <1>4, <1>8, <2>3
    <3>2. size[frame] # size[held] <=> left # 0 /\ size[left] # size[stream]
      BY <3>1 DEF FirstPicture
    <3> QED
      BY <1>3, <2>1, <2>3, <3>1, <3>2
  <2> QED
    BY <1>4, <1>5, <1>6, <2>2, <2>3
<1> QED
  BY <1>7, <1>8

(* A picture or a description begins. *)
LEMMA NaluStep == WindowInv /\ Decoders!receiveNalu => WindowInv'
<1> SUFFICES ASSUME WindowInv, Decoders!receiveNalu PROVE WindowInv'
  OBVIOUS
<1>1. /\ playing = TRUE /\ held' \in {stream, 0}
      /\ UNCHANGED <<kind, size, playing, stream, left, window_header, audio, described>>
      /\ Decoders!TypeOK /\ FrameInv /\ Decoders!MisfitComesFromLeftPicture
      /\ stream \in Nat /\ left \in 0..stream
  BY MaxStreamsAssumption DEF Decoders!receiveNalu, Decoders!streamVars, Decoders!soundVars, WindowInv,
     Decoders!DecodersFitStream, Decoders!TypeOK
<1>2. Decoders!SoundHasItsFormat'
  BY <1>1 DEF Decoders!SoundHasItsFormat, WindowInv, Decoders!DecodersFitStream
<1>3. CASE held = 0
  <2>1. UNCHANGED <<frame, own, misfit>>
    BY <1>3 DEF Decoders!receiveNalu, Decoders!showFrame
  <2>2. Decoders!TypeOK'
    BY <1>1, <2>1 DEF Decoders!TypeOK
  <2>3. Decoders!MisfitComesFromLeftPicture'
    BY <1>1, <2>1 DEF Decoders!MisfitComesFromLeftPicture
  <2>4. FrameInv'
    BY <1>1, <1>3, <2>1 DEF FrameInv, FirstPicture
  <2> QED
    BY <1>2, <2>2, <2>3, <2>4 DEF WindowInv, Decoders!DecodersFitStream
<1>4. CASE held # 0
  <2>1. /\ frame' \in 1..stream /\ own' \in BOOLEAN /\ misfit' \in BOOLEAN
        /\ misfit' => \E s \in {left, stream} \ {0} : size[s] # size[frame']
        /\ kind = "monitor" =>
             /\ frame' = FirstPicture
             /\ misfit' <=> own' /\ left # 0 /\ size[left] # size[stream]
    BY <1>4, PictureStep
  <2>2. Decoders!TypeOK'
    BY <1>1, <2>1 DEF Decoders!TypeOK
  <2>3. Decoders!MisfitComesFromLeftPicture'
    BY <1>1, <2>1 DEF Decoders!MisfitComesFromLeftPicture
  <2>4. FrameInv'
    BY <1>1, <2>1 DEF FrameInv, FirstPicture
  <2> QED
    BY <1>2, <2>2, <2>3, <2>4 DEF WindowInv, Decoders!DecodersFitStream
<1> QED
  BY <1>3, <1>4

(* play, stop and a description of the sound. *)
LEMMA WindowOtherStep ==
  WindowInv /\ (Decoders!play \/ Decoders!stop \/ Decoders!receiveAudioInfo) => WindowInv'
<1> SUFFICES ASSUME WindowInv, Decoders!play \/ Decoders!stop \/ Decoders!receiveAudioInfo
             PROVE  WindowInv'
  OBVIOUS
<1> USE DEF WindowInv, Decoders!DecodersFitStream
<1>1. CASE Decoders!play
  <2>1. /\ playing = FALSE /\ stream < MaxStreams /\ playing' = TRUE /\ stream' = stream + 1
        /\ left' = held /\ own' = FALSE /\ misfit' = FALSE /\ described' = FALSE
        /\ UNCHANGED <<kind, size, held, frame, window_header, audio>>
    BY <1>1 DEF Decoders!play, Decoders!streamVars, Decoders!TypeOK
  <2>2. /\ stream' \in 0..MaxStreams /\ held' \in 0..stream' /\ left' \in 0..stream'
        /\ frame' \in 0..stream' /\ window_header' \in 0..stream'
    BY <2>1, MaxStreamsAssumption DEF Decoders!TypeOK
  <2>3. Decoders!TypeOK'
    BY <2>1, <2>2 DEF Decoders!TypeOK
  <2>4. Decoders!MisfitComesFromLeftPicture' /\ Decoders!SoundHasItsFormat'
    BY <2>1 DEF Decoders!MisfitComesFromLeftPicture, Decoders!SoundHasItsFormat
  <2>5. stream \in Nat /\ held \in 0..stream
    BY MaxStreamsAssumption DEF Decoders!TypeOK
  <2>6. FrameInv'
    BY <2>1, <2>5 DEF FrameInv, FirstPicture
  <2> QED
    BY <2>3, <2>4, <2>6
<1>2. CASE Decoders!stop
  <2>1. /\ playing' = FALSE
        /\ UNCHANGED <<kind, size, stream, held, left, own, misfit, window_header, described>>
        /\ IF kind = "monitor" THEN audio' = FALSE /\ frame' = 0 ELSE UNCHANGED <<audio, frame>>
    BY <1>2 DEF Decoders!stop, Decoders!stopMonitor, Decoders!stopRecord, Decoders!streamVars
  <2>2. frame' \in 0..stream'
    <3>1. frame \in 0..stream /\ stream \in 0..MaxStreams
      BY DEF Decoders!TypeOK
    <3>2. stream' = stream /\ (frame' = 0 \/ frame' = frame)
      BY <2>1
    <3> QED
      BY <3>1, <3>2, MaxStreamsAssumption
  <2>7. audio' \in BOOLEAN /\ (audio' => window_header' # 0)
    <3>1. audio \in BOOLEAN /\ (audio => window_header # 0)
      BY DEF Decoders!TypeOK
    <3>2. window_header' = window_header /\ (audio' = FALSE \/ audio' = audio)
      BY <2>1
    <3>3. CASE audio' = FALSE
      BY <3>3, Zenon
    <3>4. CASE audio' = audio
      BY <3>1, <3>2, <3>4, Zenon
    <3> QED
      BY <3>2, <3>3, <3>4
  <2>3. Decoders!TypeOK'
    BY <2>1, <2>2, <2>7 DEF Decoders!TypeOK
  <2>4. Decoders!MisfitComesFromLeftPicture' /\ Decoders!SoundHasItsFormat'
    BY <2>1 DEF Decoders!MisfitComesFromLeftPicture, Decoders!SoundHasItsFormat
  <2>5. held \in Nat
    BY MaxStreamsAssumption DEF Decoders!TypeOK
  <2>6. FrameInv'
    BY <2>1, <2>5 DEF FrameInv, FirstPicture
  <2> QED
    BY <2>3, <2>4, <2>6
<1>3. CASE Decoders!receiveAudioInfo
  <2>1. /\ playing = TRUE /\ described' = TRUE
        /\ UNCHANGED <<kind, size, playing, stream, held, left, frame, own, misfit>>
        /\ \/ window_header' = stream /\ audio' = TRUE
           \/ kind # "monitor" /\ UNCHANGED <<window_header, audio>>
    BY <1>3 DEF Decoders!receiveAudioInfo, Decoders!describeMonitor, Decoders!describeRecord,
       Decoders!streamVars, Decoders!pictureVars, Decoders!TypeOK
  <2>2. stream # 0 /\ stream \in Nat
    BY <2>1, MaxStreamsAssumption DEF FrameInv, Decoders!TypeOK
  <2>3. window_header' \in 0..stream /\ audio' \in BOOLEAN /\ (audio' => window_header' # 0)
    <3>1. CASE window_header' = stream /\ audio' = TRUE
      BY <2>2, <3>1
    <3>2. CASE UNCHANGED <<window_header, audio>>
      <4>1. window_header \in 0..stream /\ audio \in BOOLEAN /\ (audio => window_header # 0)
        BY DEF Decoders!TypeOK
      <4> QED
        BY <3>2, <4>1, Zenon
    <3> QED
      BY <2>1, <3>1, <3>2
  <2>4. Decoders!TypeOK'
    BY <2>1, <2>3 DEF Decoders!TypeOK
  <2>5. Decoders!MisfitComesFromLeftPicture' /\ Decoders!SoundHasItsFormat'
    BY <2>1 DEF Decoders!MisfitComesFromLeftPicture, Decoders!SoundHasItsFormat
  <2>6. FrameInv'
    BY <2>1 DEF FrameInv, FirstPicture
  <2> QED
    BY <2>4, <2>5, <2>6
<1> QED
  BY <1>1, <1>2, <1>3

LEMMA WindowStep == WindowInv /\ [Decoders!Next]_(Decoders!vars) => WindowInv'
<1> SUFFICES ASSUME WindowInv, [Decoders!Next]_(Decoders!vars) PROVE WindowInv'
  OBVIOUS
<1>1. CASE UNCHANGED Decoders!vars
  BY <1>1 DEF WindowInv, FrameInv, FirstPicture, Decoders!DecodersFitStream, Decoders!TypeOK,
     Decoders!MisfitComesFromLeftPicture, Decoders!SoundHasItsFormat, Decoders!vars, Decoders!streamVars,
     Decoders!pictureVars, Decoders!soundVars
<1> QED
  BY <1>1, NaluStep, WindowOtherStep DEF Decoders!Next, Decoders!Over

(* The inductive invariant of a window over its streams. *)
THEOREM WindowInvariant == Decoders!Spec => []WindowInv
BY WindowInit, WindowStep, PTL DEF Decoders!Spec

----------------------------------------------------------------------------
(* StreamFormat. *)

(* r is s followed by t. *)
Joins(r, s, t) ==
  /\ r \in Seq(Format!Byte) /\ Len(r) = Len(s) + Len(t)
  /\ \A i \in 1..Len(s) : r[i] = s[i]
  /\ \A i \in 1..Len(t) : r[Len(s) + i] = t[i]

LEMMA Joined == \A s, t \in Seq(Format!Byte) : Joins(s \o t, s, t) /\ s \o t \in Seq(Format!Byte)
<1> SUFFICES ASSUME NEW s \in Seq(Format!Byte), NEW t \in Seq(Format!Byte)
             PROVE  Joins(s \o t, s, t) /\ s \o t \in Seq(Format!Byte)
  BY Zenon
<1> DEFINE r == s \o t
<1>1. /\ r \in Seq(Format!Byte) /\ Len(r) = Len(s) + Len(t)
      /\ \A i \in 1..Len(s) + Len(t) : r[i] = IF i <= Len(s) THEN s[i] ELSE t[i - Len(s)]
  BY ConcatProperties, Zenon
<1>2. Len(s) \in Nat /\ Len(t) \in Nat
  OBVIOUS
<1> HIDE DEF r
<1>3. ASSUME NEW i \in 1..Len(t) PROVE r[Len(s) + i] = t[i]
  <2>1. Len(s) + i \in 1..Len(s) + Len(t) /\ ~(Len(s) + i <= Len(s)) /\ (Len(s) + i) - Len(s) = i
    BY <1>2
  <2> QED
    BY <1>1, <2>1, Zenon
<1>4. \A i \in 1..Len(s) : r[i] = s[i]
  BY <1>1, <1>2
<1>5. Joins(r, s, t)
  BY <1>1, <1>3, <1>4, Zenon DEF Joins
<1> QED
  BY <1>1, <1>5 DEF r

(* A length that fits into two bytes. *)
FitsTwoBytes(s) == Len(s) < 65536

(* Numbers of two and of four bytes keep what they hold. *)
LEMMA U16RoundTrip ==
  ASSUME NEW n \in Nat, n < 65536
  PROVE  /\ Format!U16(n) \in Seq(Format!Byte) /\ Len(Format!U16(n)) = 2
         /\ Format!U16(n)[1] * 256 + Format!U16(n)[2] = n
<1>1. (n \div 256) % 256 = n \div 256 /\ n \div 256 \in Format!Byte /\ n % 256 \in Format!Byte
  BY DEF Format!Byte
<1>2. (n \div 256) * 256 + (n % 256) = n
  OBVIOUS
<1> QED
  BY <1>1, <1>2 DEF Format!U16

LEMMA U32RoundTrip ==
  ASSUME NEW n \in Nat, n \div 65536 < 65536
  PROVE  LET u == Format!U32(n)
         IN  /\ u \in Seq(Format!Byte) /\ Len(u) = 4
             /\ (u[1] * 256 + u[2]) * 65536 + (u[3] * 256 + u[4]) = n
<1> DEFINE a == (n \div 16777216) % 256
           b == (n \div 65536) % 256
           c == (n \div 256) % 256
           d == n % 256
<1>1. a \in Format!Byte /\ b \in Format!Byte /\ c \in Format!Byte /\ d \in Format!Byte
  BY DEF Format!Byte
<1>2. (a * 256 + b) * 65536 + (c * 256 + d) = n
  <2>1. a * 256 + b = n \div 65536
    OBVIOUS
  <2>2. c * 256 + d = n % 65536
    OBVIOUS
  <2> QED
    BY <1>1, <2>1, <2>2 DEF Format!Byte
<1> DEFINE high == <<a, b>>
           low == <<c, d>>
<1>3. Format!U32(n) = high \o low
  BY DEF Format!U32, Format!U16
<1> HIDE DEF a, b, c, d
<1>4. /\ high \in Seq(Format!Byte) /\ Len(high) = 2 /\ high[1] = a /\ high[2] = b
      /\ low \in Seq(Format!Byte) /\ Len(low) = 2 /\ low[1] = c /\ low[2] = d
  BY <1>1
<1> HIDE DEF high, low
<1> DEFINE u == high \o low
<1>5. Joins(u, high, low)
  BY <1>4, Joined, SMT
<1> HIDE DEF u
<1>6. /\ u \in Seq(Format!Byte) /\ Len(u) = 4
      /\ u[1] = a /\ u[2] = b /\ u[3] = c /\ u[4] = d
  BY <1>4, <1>5 DEF Joins
<1> QED
  BY <1>2, <1>3, <1>6 DEF u

(* A body is not the empty one. *)
LEMMA RecordIsNotEmpty ==
  ASSUME NEW t, NEW b PROVE [type |-> t, bytes |-> b] # << >>
OBVIOUS

(* A list that says it has one unit, as the sender makes it: the recursion  *)
(* of UnitsAt has a value, as its one step does not depend on another.      *)
LEMMA OneUnit ==
  ASSUME NEW b, NEW type, NEW offset \in Nat, Format!At(b, offset) % 32 = 1
  PROVE  Format!UnitsAt(b, type, offset) =
           Format!UnitAfter(b, type, [at |-> offset + 1, units |-> << >>])
<1> DEFINE first == [at |-> offset + 1, units |-> << >>]
           F(f) == [i \in 0..1 |-> IF i = 0 THEN first ELSE Format!UnitAfter(b, type, f[i - 1])]
           f == CHOOSE h : h = F(h)
           g == [i \in 0..1 |-> IF i = 0 THEN first ELSE Format!UnitAfter(b, type, first)]
<1>1. g = F(g)
  OBVIOUS
<1>2. f = F(f)
  BY <1>1, Zenon
<1>3. Format!UnitsAt(b, type, offset) = f[1]
  BY DEF Format!UnitsAt
<1> HIDE DEF f
<1>4. f[0] = first
  BY <1>2
<1> QED
  BY <1>2, <1>3, <1>4

(* A part of a sequence is what stands there. *)
LEMMA PartIs ==
  ASSUME NEW b \in Seq(Format!Byte), NEW p \in Seq(Format!Byte), NEW n \in Nat,
         n + Len(p) <= Len(b), \A i \in 1..Len(p) : b[n + i] = p[i]
  PROVE  Format!Part(b, n, Len(p)) = p
BY DEF Format!Part

(* Where the parts of the body with the parameter sets are. *)
SetsParts(b, h, m, sps, n, pps) ==
  LET k == Len(sps)
  IN  /\ b \in Seq(Format!Byte) /\ Len(b) = 16 + k + Len(pps)
      /\ b[1] = h[1] /\ b[2] = h[2] /\ b[11] = h[11] /\ b[12] = m[1] /\ b[13] = m[2]
      /\ \A i \in 1..k : b[13 + i] = sps[i]
      /\ b[14 + k] = 1 /\ b[15 + k] = n[1] /\ b[16 + k] = n[2]
      /\ \A i \in 1..Len(pps) : b[16 + k + i] = pps[i]

LEMMA FiveParts ==
  ASSUME NEW h \in Seq(Format!Byte), NEW m \in Seq(Format!Byte), NEW sps \in Seq(Format!Byte),
         NEW n \in Seq(Format!Byte), NEW pps \in Seq(Format!Byte), Len(h) = 11, Len(m) = 2, Len(n) = 2
  PROVE  SetsParts(h \o m \o sps \o <<1>> \o n \o pps, h, m, sps, n, pps)
<1> DEFINE s1 == h \o m
           s2 == s1 \o sps
           one == <<1>>
           s3 == s2 \o one
           s4 == s3 \o n
           b == s4 \o pps
           k == Len(sps)
           q == Len(pps)
<1>1. k \in Nat /\ q \in Nat
  OBVIOUS
<1>2. one \in Seq(Format!Byte) /\ Len(one) = 1 /\ one[1] = 1
  BY DEF Format!Byte
<1> HIDE DEF one
<1>3. Joins(s1, h, m) /\ s1 \in Seq(Format!Byte)
  BY Joined, SMT
<1> HIDE DEF s1
<1>4. Joins(s2, s1, sps) /\ s2 \in Seq(Format!Byte)
  BY <1>3, Joined, SMT
<1> HIDE DEF s2
<1>5. Joins(s3, s2, one) /\ s3 \in Seq(Format!Byte)
  BY <1>2, <1>4, Joined, SMT
<1> HIDE DEF s3
<1>6. Joins(s4, s3, n) /\ s4 \in Seq(Format!Byte)
  BY <1>5, Joined, SMT
<1> HIDE DEF s4
<1>7. Joins(b, s4, pps) /\ b \in Seq(Format!Byte)
  BY <1>6, Joined, SMT
<1> HIDE DEF b, k, q
<1>8. /\ Len(s1) = 13 /\ Len(s2) = 13 + k /\ Len(s3) = 14 + k /\ Len(s4) = 16 + k
      /\ Len(b) = 16 + k + q
  BY <1>1, <1>2, <1>3, <1>4, <1>5, <1>6, <1>7 DEF Joins, k, q
<1>9. \A i \in 1..11 : s1[i] = h[i]
  BY <1>3 DEF Joins
<1>10. s1[12] = m[1] /\ s1[13] = m[2]
  <2>1. s1[11 + 1] = m[1] /\ s1[11 + 2] = m[2]
    BY <1>3 DEF Joins
  <2> QED
    BY <2>1
<1>11. \A i \in 1..13 + k : s3[i] = s2[i]
  BY <1>5, <1>8 DEF Joins
<1>12. \A i \in 1..14 + k : s4[i] = s3[i]
  BY <1>6, <1>8 DEF Joins
<1>13. \A i \in 1..16 + k : b[i] = s4[i]
  BY <1>7, <1>8 DEF Joins
<1>14. \A i \in 1..13 + k : b[i] = s2[i]
  BY <1>1, <1>11, <1>12, <1>13
<1>15. \A i \in 1..13 : b[i] = s1[i]
  <2>1. \A i \in 1..13 : s2[i] = s1[i]
    BY <1>4, <1>8 DEF Joins
  <2> QED
    BY <1>1, <1>14, <2>1, SMTT(20)
<1>16. b[1] = h[1] /\ b[2] = h[2] /\ b[11] = h[11] /\ b[12] = m[1] /\ b[13] = m[2]
  BY <1>9, <1>10, <1>15
<1>17. ASSUME NEW i \in 1..k PROVE b[13 + i] = sps[i]
  <2>1. s2[13 + i] = sps[i]
    BY <1>1, <1>4, <1>8 DEF Joins, k
  <2>2. 13 + i \in 1..13 + k
    BY <1>1
  <2> QED
    BY <1>14, <2>1, <2>2, Zenon
<1>18. b[14 + k] = 1
  <2>1. s3[13 + k + 1] = one[1]
    BY <1>1, <1>2, <1>5, <1>8 DEF Joins
  <2> QED
    BY <1>1, <1>2, <1>12, <1>13, <2>1
<1>19. b[15 + k] = n[1] /\ b[16 + k] = n[2]
  <2>1. s4[14 + k + 1] = n[1] /\ s4[14 + k + 2] = n[2]
    BY <1>1, <1>6, <1>8 DEF Joins
  <2>2. b[15 + k] = s4[15 + k] /\ b[16 + k] = s4[16 + k]
    <3>1. 15 + k \in 1..16 + k /\ 16 + k \in 1..16 + k
      BY <1>1
    <3> QED
      BY <1>13, <3>1, Zenon
  <2>3. 14 + k + 1 = 15 + k /\ 14 + k + 2 = 16 + k
    BY <1>1
  <2> QED
    BY <2>1, <2>2, <2>3, Zenon
<1>20. \A i \in 1..q : b[16 + k + i] = pps[i]
  BY <1>1, <1>7, <1>8 DEF Joins, q
<1> QED
  BY <1>7, <1>8, <1>16, <1>17, <1>18, <1>19, <1>20
     DEF SetsParts, b, s4, s3, s2, s1, one, k, q

(* The body with the parameter sets. *)
SetsBody(sps, pps) ==
  <<23, 0, 0, 0, 0, 1, sps[2], sps[3], sps[4], 255, 225>> \o Format!U16(Len(sps)) \o sps
    \o <<1>> \o Format!U16(Len(pps)) \o pps

(* The fixed part of it. *)
LEMMA ElevenBytes ==
  \A x, y, z \in Format!Byte :
    LET h == <<23, 0, 0, 0, 0, 1, x, y, z, 255, 225>>
    IN  h \in Seq(Format!Byte) /\ Len(h) = 11 /\ h[1] = 23 /\ h[2] = 0 /\ h[11] = 225
BY DEF Format!Byte

(* Where handle_sps_pps_packet finds the parameter sets in it. *)
SetsLayout(b, sps, pps) ==
  LET k == Len(sps)
  IN  /\ b \in Seq(Format!Byte) /\ Len(b) = 16 + k + Len(pps)
      /\ b[1] = 23 /\ b[2] = 0 /\ b[11] = 225
      /\ b[12] * 256 + b[13] = k /\ Format!Part(b, 13, k) = sps
      /\ b[14 + k] = 1 /\ b[15 + k] * 256 + b[16 + k] = Len(pps)
      /\ Format!Part(b, 16 + k, Len(pps)) = pps

LEMMA SetsBytes ==
  ASSUME NEW sps \in Seq(Format!Byte), NEW pps \in Seq(Format!Byte),
         Len(sps) >= 4, FitsTwoBytes(sps), FitsTwoBytes(pps)
  PROVE  SetsLayout(SetsBody(sps, pps), sps, pps)
<1> DEFINE b == SetsBody(sps, pps)
           k == Len(sps)
           h == <<23, 0, 0, 0, 0, 1, sps[2], sps[3], sps[4], 255, 225>>
           m == Format!U16(Len(sps))
           n == Format!U16(Len(pps))
<1>1. k \in Nat /\ Len(pps) \in Nat
  OBVIOUS
<1>2. /\ h \in Seq(Format!Byte) /\ Len(h) = 11 /\ h[1] = 23 /\ h[2] = 0 /\ h[11] = 225
  <2>1. 2 \in 1..k /\ 3 \in 1..k /\ 4 \in 1..k
    BY <1>1
  <2>2. sps[2] \in Format!Byte /\ sps[3] \in Format!Byte /\ sps[4] \in Format!Byte
    BY <2>1, ElementOfSeq, Zenon
  <2> QED
    BY <2>2, ElevenBytes
<1>3. /\ m \in Seq(Format!Byte) /\ Len(m) = 2 /\ m[1] * 256 + m[2] = k
      /\ n \in Seq(Format!Byte) /\ Len(n) = 2 /\ n[1] * 256 + n[2] = Len(pps)
  BY <1>1, U16RoundTrip DEF FitsTwoBytes
<1>4. b = h \o m \o sps \o <<1>> \o n \o pps
  BY DEF SetsBody
<1> HIDE DEF h, m, n, b
<1>5. /\ b \in Seq(Format!Byte) /\ Len(b) = 16 + k + Len(pps)
      /\ b[1] = h[1] /\ b[2] = h[2] /\ b[11] = h[11] /\ b[12] = m[1] /\ b[13] = m[2]
      /\ \A i \in 1..k : b[13 + i] = sps[i]
      /\ b[14 + k] = 1 /\ b[15 + k] = n[1] /\ b[16 + k] = n[2]
      /\ \A i \in 1..Len(pps) : b[16 + k + i] = pps[i]
  <2>1. SetsParts(h \o m \o sps \o <<1>> \o n \o pps, h, m, sps, n, pps)
    BY <1>2, <1>3, FiveParts
  <2>2. SetsParts(b, h, m, sps, n, pps)
    BY <1>4, <2>1
  <2> QED
    BY <2>2, Zenon DEF SetsParts
<1>6. Format!Part(b, 13, k) = sps
  <2>1. 13 \in Nat /\ 13 + k <= Len(b)
    BY <1>1, <1>5
  <2> QED
    BY <1>5, <2>1, PartIs
<1>7. Format!Part(b, 16 + k, Len(pps)) = pps
  <2>1. 16 + k \in Nat
    BY <1>1
  <2> QED
    BY <1>1, <1>5, <2>1, PartIs, SMTT(20)
<1> QED
  BY <1>2, <1>3, <1>5, <1>6, <1>7 DEF SetsLayout, b

(* handle_sps_pps_packet. *)
LEMMA SetsRead ==
  ASSUME NEW sps \in Seq(Format!Byte), NEW pps \in Seq(Format!Byte),
         Len(sps) >= 4, FitsTwoBytes(sps), FitsTwoBytes(pps)
  PROVE  LET b == SetsBody(sps, pps)
             s == Format!UnitsAt(b, "SPS", 10)
             p == Format!UnitsAt(b, "PPS", s.at)
         IN  /\ s.units = <<Format!Nalu("SPS", sps)>> /\ p.units = <<Format!Nalu("PPS", pps)>>
             /\ p.at = Len(b) /\ Len(b) \in Nat
<1> DEFINE b == SetsBody(sps, pps)
           k == Len(sps)
           s == Format!UnitsAt(b, "SPS", 10)
           p == Format!UnitsAt(b, "PPS", 13 + k)
<1>1. k \in Nat /\ Len(pps) \in Nat
  OBVIOUS
<1>2. /\ b \in Seq(Format!Byte) /\ Len(b) = 16 + k + Len(pps)
      /\ b[1] = 23 /\ b[2] = 0 /\ b[11] = 225
      /\ b[12] * 256 + b[13] = k /\ Format!Part(b, 13, k) = sps
      /\ b[14 + k] = 1 /\ b[15 + k] * 256 + b[16 + k] = Len(pps)
      /\ Format!Part(b, 16 + k, Len(pps)) = pps
  <2>1. SetsLayout(b, sps, pps)
    BY SetsBytes
  <2> QED
    BY <2>1, Zenon DEF SetsLayout
<1> HIDE DEF b
<1>3. s = Format!UnitAfter(b, "SPS", [at |-> 11, units |-> << >>])
  <2>1. Format!At(b, 10) % 32 = 1
    BY <1>2 DEF Format!At
  <2> QED
    BY <2>1, OneUnit
<1>4. s = [at |-> 13 + k, units |-> <<Format!Nalu("SPS", sps)>>]
  <2>1. Format!U16At(b, 11) = k
    BY <1>2 DEF Format!U16At, Format!At
  <2> QED
    BY <1>1, <1>2, <1>3, <2>1 DEF Format!UnitAfter
<1>5. p = Format!UnitAfter(b, "PPS", [at |-> 14 + k, units |-> << >>])
  <2>1. Format!At(b, 13 + k) % 32 = 1
    <3>1. (13 + k) + 1 = 14 + k
      BY <1>1
    <3> QED
      BY <1>2, <3>1 DEF Format!At
  <2>2. (13 + k) + 1 = 14 + k /\ 13 + k \in Nat
    BY <1>1
  <2> QED
    BY <2>1, <2>2, OneUnit
<1>6. p = [at |-> 16 + k + Len(pps), units |-> <<Format!Nalu("PPS", pps)>>]
  <2>1. Format!U16At(b, 14 + k) = Len(pps)
    <3>1. (14 + k) + 1 = 15 + k /\ ((14 + k) + 1) + 1 = 16 + k
      BY <1>1
    <3> QED
      BY <1>2, <3>1 DEF Format!U16At, Format!At
  <2> QED
    <3>1. (14 + k) + 2 = 16 + k
      BY <1>1
    <3> QED
      BY <1>2, <1>5, <2>1, <3>1, SMTT(20) DEF Format!UnitAfter
<1> QED
  BY <1>1, <1>2, <1>4, <1>6, SMTT(20) DEF b

(* A start code is three or four bytes long, and the third one tells which. *)
LEMMA StartCodeGoes ==
  ASSUME NEW start \in Format!StartCodes, NEW unit \in Seq(Format!Byte)
  PROVE  Format!WithoutStartCode(start \o unit) = unit
<1> DEFINE b == start \o unit
           n == Len(start)
<1>1. /\ start \in Seq(Format!Byte)
      /\ (start[3] = 1 /\ n = 3) \/ (start[3] = 0 /\ n = 4)
  <2>1. CASE start = <<0, 0, 1>>
    <3>1. 0 \in Format!Byte /\ 1 \in Format!Byte
      BY DEF Format!Byte
    <3>2. Len(start) = 3 /\ start[3] = 1
      BY <2>1
    <3>3. start \in Seq(Format!Byte)
      BY <2>1, <3>1
    <3> QED
      BY <3>2, <3>3, Zenon
  <2>2. CASE start = <<0, 0, 0, 1>>
    BY <2>2 DEF Format!Byte
  <2> QED
    BY <2>1, <2>2 DEF Format!StartCodes
<1>2. Joins(b, start, unit)
  BY <1>1, Joined
<1> HIDE DEF b, n
<1>3. Len(unit) \in Nat /\ n \in 3..4 /\ n = Len(start)
  BY <1>1 DEF n
<1>4. b \in Seq(Format!Byte) /\ Len(b) = n + Len(unit) /\ b[3] = start[3]
  BY <1>2, <1>3 DEF Joins
<1>5. \A i \in 1..Len(unit) : b[n + i] = unit[i]
  BY <1>2, <1>3 DEF Joins
<1>6. Format!Part(b, n, Len(unit)) = unit
  <2>1. n \in Nat /\ n + Len(unit) <= Len(b)
    BY <1>3, <1>4
  <2> QED
    BY <1>4, <1>5, <2>1, PartIs
<1>7. Format!WithoutStartCode(b) = Format!Part(b, n, Len(b) - n)
  <2>1. Format!At(b, 2) = start[3]
    BY <1>4 DEF Format!At
  <2> QED
    BY <1>1, <2>1 DEF Format!WithoutStartCode
<1>8. Len(b) - n = Len(unit)
  BY <1>3, <1>4
<1> QED
  BY <1>6, <1>7, <1>8 DEF b

(* handle_nalu_frame_packet. *)
LEMMA FrameRead ==
  ASSUME NEW idr \in BOOLEAN, NEW unit \in Seq(Format!Byte), Len(unit) \div 65536 < 65536
  PROVE  LET b == Format!FrameBody(idr, Format!U32(Len(unit)), unit)
         IN  /\ b \in Seq(Format!Byte)
             /\ (b[1] = 23) = idr /\ b[2] = 1
             /\ Format!U32At(b, 5) = Len(unit) /\ Format!Part(b, 9, Len(unit)) = unit
             /\ Len(b) = 9 + Len(unit)
<1> DEFINE h == <<IF idr THEN 23 ELSE 39, 1, 0, 0, 0>>
           m == Format!U32(Len(unit))
           s == h \o m
           b == s \o unit
           k == Len(unit)
<1>1. h \in Seq(Format!Byte) /\ Len(h) = 5 /\ (h[1] = 23) = idr /\ h[2] = 1
  BY DEF Format!Byte
<1>2. k \in Nat
  OBVIOUS
<1>3. /\ m \in Seq(Format!Byte) /\ Len(m) = 4
      /\ (m[1] * 256 + m[2]) * 65536 + (m[3] * 256 + m[4]) = k
  BY <1>2, U32RoundTrip
<1>4. Format!FrameBody(idr, m, unit) = b
  BY DEF Format!FrameBody
<1> HIDE DEF h, m
<1>5. Joins(s, h, m) /\ s \in Seq(Format!Byte)
  BY <1>1, <1>3, Joined
<1> HIDE DEF s
<1>6. Joins(b, s, unit) /\ b \in Seq(Format!Byte)
  BY <1>5, Joined
<1> HIDE DEF b
<1>7. Len(s) = 9 /\ Len(b) = 9 + k
  BY <1>1, <1>3, <1>5, <1>6 DEF Joins
<1>8. \A i \in 1..9 : b[i] = s[i]
  BY <1>6, <1>7 DEF Joins
<1>9. b[1] = h[1] /\ b[2] = h[2]
  BY <1>1, <1>5, <1>8 DEF Joins
<1>10. b[6] = m[1] /\ b[7] = m[2] /\ b[8] = m[3] /\ b[9] = m[4]
  <2>1. s[5 + 1] = m[1] /\ s[5 + 2] = m[2] /\ s[5 + 3] = m[3] /\ s[5 + 4] = m[4]
    BY <1>1, <1>3, <1>5 DEF Joins
  <2> QED
    BY <1>8, <2>1
<1>11. Format!U32At(b, 5) = k
  BY <1>3, <1>10 DEF Format!U32At, Format!U16At, Format!At
<1>12. Format!Part(b, 9, k) = unit
  <2>1. \A i \in 1..k : b[9 + i] = unit[i]
    BY <1>6, <1>7 DEF Joins
  <2>2. 9 \in Nat /\ 9 + k <= Len(b)
    BY <1>2, <1>7
  <2> QED
    BY <1>6, <2>1, <2>2, PartIs
<1> QED
  BY <1>1, <1>4, <1>6, <1>7, <1>9, <1>11, <1>12 DEF m, k

(* The two bytes before the data of an audio packet. *)
Headed(x, y, data) == <<x, y>> \o data

(* handle_audio_packet. *)
LEMMA AudioRead ==
  ASSUME NEW x \in Format!Byte, NEW y \in Format!Byte, NEW data \in Seq(Format!Byte)
  PROVE  LET b == Headed(x, y, data)
         IN  /\ b \in Seq(Format!Byte) /\ b[1] = x /\ b[2] = y
             /\ Format!Part(b, 2, Len(b) - 2) = data
<1> DEFINE h == <<x, y>>
           b == h \o data
<1>1. h \in Seq(Format!Byte) /\ Len(h) = 2 /\ h[1] = x /\ h[2] = y
  OBVIOUS
<1>2. Len(data) \in Nat
  OBVIOUS
<1> HIDE DEF h
<1>3. Joins(b, h, data) /\ b \in Seq(Format!Byte)
  BY <1>1, Joined
<1> HIDE DEF b
<1>4. Len(b) = 2 + Len(data) /\ b[1] = x /\ b[2] = y
  BY <1>1, <1>2, <1>3 DEF Joins
<1>5. \A i \in 1..Len(data) : b[2 + i] = data[i]
  BY <1>1, <1>2, <1>3 DEF Joins
<1>6. Format!Part(b, 2, Len(data)) = data
  <2>1. 2 \in Nat /\ 2 + Len(data) <= Len(b)
    BY <1>2, <1>4
  <2> QED
    BY <1>3, <1>5, <2>1, PartIs
<1>7. Len(b) - 2 = Len(data)
  BY <1>2, <1>4
<1> QED
  BY <1>3, <1>4, <1>6, <1>7 DEF Headed, b, h

(* The header of the audio. *)
LEMMA InfoRoundTrip ==
  ASSUME NEW f \in (0..15) \X {1, 2}
  PROVE  LET d == Format!DecoderSpecificInfo(f)
             h == Format!adts_info(d)
         IN  /\ d \in Seq(Format!Byte)
             /\ h \in Seq(Format!Byte) /\ Len(h) = 7 /\ Format!FormatOf(h) = f
<1>1. PICK s \in 0..15, c \in {1, 2} : f = <<s, c>>
  OBVIOUS
<1> DEFINE x == 2 * 8 + (s \div 2)
           y == (s % 2) * 128 + c * 8
           d == <<x, y>>
<1>2. Format!DecoderSpecificInfo(f) = d
  BY <1>1 DEF Format!DecoderSpecificInfo
<1>3. x \in Format!Byte /\ y \in Format!Byte
  BY DEF Format!Byte
<1>4. (x % 8) * 2 + (y \div 128) = s /\ (y \div 8) % 16 = c
  OBVIOUS
<1>5. d \in Seq(Format!Byte) /\ d[1] = x /\ d[2] = y
  BY <1>3
<1>6. Format!adts_info(d) = Format!ADTS(s, c)
  BY <1>4, <1>5, Zenon DEF Format!adts_info
<1> DEFINE p == 64 + (s % 16) * 4 + ((c \div 4) % 2)
           q == (c % 4) * 64
           h == <<255, 241, p, q, 0, 31, 252>>
<1>7. Format!ADTS(s, c) = h
  BY DEF Format!ADTS
<1>8. p \in Format!Byte /\ q \in Format!Byte
  BY DEF Format!Byte
<1>9. (p \div 4) % 16 = s /\ (p % 2) * 4 + (q \div 64) = c
  OBVIOUS
<1> HIDE DEF p, q
<1>10. h \in Seq(Format!Byte) /\ Len(h) = 7 /\ h[3] = p /\ h[4] = q
  BY <1>8 DEF Format!Byte
<1>11. Format!FormatOf(h) = f
  BY <1>1, <1>9, <1>10 DEF Format!FormatOf
<1> HIDE DEF x, y, d, h
<1> QED
  BY <1>2, <1>5, <1>6, <1>7, <1>10, <1>11

(* A header has seven bytes. *)
LEMMA SevenBytes ==
  ASSUME NEW h \in [1..7 -> Format!Byte]
  PROVE  h \in Seq(Format!Byte) /\ Len(h) = 7
<1>1. h \in Seq(Format!Byte)
  <2>1. 7 \in Nat
    OBVIOUS
  <2> QED
    BY <2>1, SeqDef, Zenon
<1>2. 1..Len(h) = 1..7 /\ Len(h) \in Nat
  BY <1>1, LenProperties, Zenon
<1>3. \A m \in Nat : 1..m = 1..7 => m = 7
  <2> SUFFICES ASSUME NEW m \in Nat, 1..m = 1..7 PROVE m = 7
    OBVIOUS
  <2>1. 7 \in 1..m /\ ~(8 \in 1..m)
    OBVIOUS
  <2> QED
    BY <2>1
<1> QED
  BY <1>1, <1>2, <1>3

(* The length of a packet, in the 13 bits of the header before it. *)
LEMMA LengthInHeader ==
  ASSUME adts_header \in Seq(Format!Byte), Len(adts_header) = 7, NEW n \in Nat
  PROVE  LET h == Format!adts_length(n)
         IN  /\ h \in Seq(Format!Byte) /\ Len(h) = 7
             /\ Format!FrameLength(h) = (7 + n) % 8192
             /\ Format!FormatOf(h) = Format!FormatOf(adts_header)
<1> DEFINE h == Format!adts_length(n)
           a == 7 + n
           x == (adts_header[4] - (adts_header[4] % 4)) + ((a \div 2048) % 4)
           y == (a \div 8) % 256
           z == (adts_header[6] % 32) + (a % 8) * 32
<1>1. a \in Nat
  OBVIOUS
<1>2. \A i \in 1..7 : adts_header[i] \in Format!Byte
  BY ElementOfSeq
<1>3. adts_header[4] \in 0..255 /\ adts_header[6] \in 0..255
  BY <1>2 DEF Format!Byte
<1>4. x \in 0..255 /\ x % 4 = (a \div 2048) % 4 /\ x \div 64 = adts_header[4] \div 64
  <2> DEFINE o == adts_header[4]
             t == (a \div 2048) % 4
  <2>1. o \in 0..255 /\ t \in 0..3 /\ x = (o - (o % 4)) + t
    BY <1>1, <1>3
  <2> HIDE DEF o, t, x
  <2>2. x \in 0..255 /\ x % 4 = t /\ x \div 64 = o \div 64
    BY <2>1
  <2> QED
    BY <2>2 DEF o, t
<1>5. z \in 0..255 /\ z \div 32 = a % 8
  <2> DEFINE o == adts_header[6]
             t == a % 8
  <2>1. o \in 0..255 /\ t \in 0..7 /\ z = (o % 32) + t * 32
    BY <1>1, <1>3
  <2> HIDE DEF o, t, z
  <2>2. z \in 0..255 /\ z \div 32 = t
    BY <2>1
  <2> QED
    BY <2>2 DEF t
<1>6. y \in 0..255
  BY <1>1
<1>7. ((a \div 2048) % 4) * 2048 + ((a \div 8) % 256) * 8 + (a % 8) = a % 8192
  BY <1>1
<1>8. h = [adts_header EXCEPT ![4] = x, ![5] = y, ![6] = z]
  BY DEF Format!adts_length
<1> HIDE DEF h, x, y, z, a
<1>9. h \in Seq(Format!Byte) /\ Len(h) = 7
  <2>1. x \in Format!Byte /\ y \in Format!Byte /\ z \in Format!Byte
    BY <1>4, <1>5, <1>6 DEF Format!Byte
  <2>2. adts_header \in [1..7 -> Format!Byte]
    BY LenProperties
  <2>3. h \in [1..7 -> Format!Byte]
    BY <1>8, <2>1, <2>2
  <2> QED
    BY <2>3, SevenBytes
<1>10. h[3] = adts_header[3] /\ h[4] = x /\ h[5] = y /\ h[6] = z
  BY <1>8
<1>11. Format!FrameLength(h) = a % 8192
  BY <1>4, <1>5, <1>7, <1>10 DEF Format!FrameLength, y
<1>12. Format!FormatOf(h) = Format!FormatOf(adts_header)
  BY <1>4, <1>10 DEF Format!FormatOf
<1> QED
  BY <1>9, <1>11, <1>12 DEF h, a

(* What is on its way: nothing, or the body of a packet and what it is made *)
(* of.                                                                      *)
Quiet == body = << >> /\ received = sent

SetsSent ==
  \E sps, pps \in Format!ParameterSets :
    /\ body = [type |-> "video", bytes |-> SetsBody(sps, pps)]
    /\ sent = <<Format!Nalu("SPS", sps), Format!Nalu("PPS", pps)>>

FrameSent ==
  \E unit \in Units, idr \in BOOLEAN :
    /\ body = [type |-> "video", bytes |-> Format!FrameBody(idr, Format!U32(Len(unit)), unit)]
    /\ sent = <<Format!Nalu(IF idr THEN "IDR" ELSE "OTHER", unit)>>

AudioBody(f, mark, data) ==
  [type |-> "audio", bytes |-> Headed(Format!AudioType(f), mark, data)]

InfoSent ==
  \E f \in Formats :
    /\ body = AudioBody(f, 0, Format!DecoderSpecificInfo(f))
    /\ sent = <<Format!Audio("INFO", f[2], Format!DecoderSpecificInfo(f))>>

DataSent ==
  /\ adts_header # << >>
  /\ \E f \in Formats, data \in Samples :
       body = AudioBody(f, 1, data) /\ sent = <<Format!Audio("DATA", f[2], data)>>

HeaderOK == adts_header = << >> \/ (adts_header \in Seq(Format!Byte) /\ Len(adts_header) = 7)

PacketInv ==
  /\ rest = 0 /\ HeaderOK
  /\ Quiet \/ SetsSent \/ FrameSent \/ InfoSent \/ DataSent

(* A packet has been taken as it was sent. *)
Taken == body' = << >> /\ received' = sent /\ sent' = sent /\ rest' = 0

(* The units of two lists of one. *)
LEMMA PairOfUnits == \A x, y : <<x>> \o <<y>> = <<x, y>>
<1> SUFFICES ASSUME NEW x, NEW y PROVE <<x>> \o <<y>> = <<x, y>>
  OBVIOUS
<1> DEFINE S == {x, y}
           one == <<x>>
           two == <<y>>
           both == one \o two
           pair == <<x, y>>
<1>1. /\ one \in Seq(S) /\ Len(one) = 1 /\ one[1] = x
      /\ two \in Seq(S) /\ Len(two) = 1 /\ two[1] = y
      /\ pair \in Seq(S) /\ Len(pair) = 2 /\ pair[1] = x /\ pair[2] = y
  OBVIOUS
<1> HIDE DEF S, one, two, pair
<1>2. /\ both \in Seq(S) /\ Len(both) = Len(one) + Len(two)
      /\ \A i \in 1..Len(one) + Len(two) :
           both[i] = IF i <= Len(one) THEN one[i] ELSE two[i - Len(one)]
  BY <1>1, ConcatProperties, Zenon
<1> HIDE DEF both
<1>3. Len(both) = 2 /\ both[1] = x /\ both[2] = y
  BY <1>1, <1>2
<1>4. both = pair
  BY <1>1, <1>2, <1>3, SeqEqual
<1> QED
  BY <1>4 DEF both, one, two, pair

(* What the handlers of the four kinds of packet make of them. *)
LEMMA HandleSets ==
  ASSUME SetsSent, Format!handle_packet
  PROVE  Taken /\ adts_header' = adts_header /\ received'[1].type = "SPS"
<1>1. PICK sps \in Format!ParameterSets, pps \in Format!ParameterSets :
        /\ body = [type |-> "video", bytes |-> SetsBody(sps, pps)]
        /\ sent = <<Format!Nalu("SPS", sps), Format!Nalu("PPS", pps)>>
  BY DEF SetsSent
<1> DEFINE b == SetsBody(sps, pps)
           s == Format!UnitsAt(b, "SPS", 10)
           p == Format!UnitsAt(b, "PPS", s.at)
<1>2. /\ sps \in Seq(Format!Byte) /\ Len(sps) >= 4 /\ FitsTwoBytes(sps)
      /\ pps \in Seq(Format!Byte) /\ FitsTwoBytes(pps)
  BY UnitsAssumption DEF Format!ParameterSets, FitsTwoBytes
<1>3. b[2] = 0
  BY <1>2, SetsBytes DEF SetsLayout
<1>4. /\ s.units = <<Format!Nalu("SPS", sps)>> /\ p.units = <<Format!Nalu("PPS", pps)>>
      /\ p.at = Len(b) /\ Len(b) \in Nat
  BY <1>2, SetsRead
<1> HIDE DEF b, s, p
<1>5. body.type = "video" /\ body.bytes = b
  BY <1>1 DEF b
<1>6. /\ Format!handle_sps_pps_packet(b) /\ adts_header' = adts_header
      /\ body' = << >> /\ sent' = sent
  BY <1>3, <1>5 DEF Format!handle_packet, Format!At
<1>7. received' = s.units \o p.units /\ rest' = Len(b) - p.at
  BY <1>6 DEF Format!handle_sps_pps_packet, s, p
<1>8. received' = sent
  <2>1. received' = <<Format!Nalu("SPS", sps)>> \o <<Format!Nalu("PPS", pps)>>
    BY <1>4, <1>7, Zenon
  <2> QED
    BY <1>1, <2>1, PairOfUnits, Zenon
<1>9. rest' = 0
  BY <1>4, <1>7
<1>10. received'[1].type = "SPS"
  BY <1>1, <1>8 DEF Format!Nalu
<1> QED
  BY <1>6, <1>8, <1>9, <1>10 DEF Taken

LEMMA HandleFrame ==
  ASSUME FrameSent, Format!handle_packet
  PROVE  Taken /\ adts_header' = adts_header /\ received'[1].type \in {"IDR", "OTHER"}
<1>1. PICK unit \in Units, idr \in BOOLEAN :
        /\ body = [type |-> "video", bytes |-> Format!FrameBody(idr, Format!U32(Len(unit)), unit)]
        /\ sent = <<Format!Nalu(IF idr THEN "IDR" ELSE "OTHER", unit)>>
  BY DEF FrameSent
<1> DEFINE b == Format!FrameBody(idr, Format!U32(Len(unit)), unit)
<1>2. unit \in Seq(Format!Byte) /\ Len(unit) \div 65536 < 65536
  BY UnitsAssumption
<1>3. /\ (b[1] = 23) = idr /\ b[2] = 1
      /\ Format!U32At(b, 5) = Len(unit) /\ Format!Part(b, 9, Len(unit)) = unit
      /\ Len(b) = 9 + Len(unit)
  BY <1>2, FrameRead
<1> HIDE DEF b
<1>4. body.type = "video" /\ body.bytes = b
  BY <1>1 DEF b
<1>5. /\ Format!handle_nalu_frame_packet(b) /\ adts_header' = adts_header
      /\ body' = << >> /\ sent' = sent
  BY <1>3, <1>4 DEF Format!handle_packet, Format!At
<1>6. received' = <<Format!Nalu(IF idr THEN "IDR" ELSE "OTHER", unit)>>
  BY <1>3, <1>5 DEF Format!handle_nalu_frame_packet, Format!At
<1>7. rest' = 0
  BY <1>2, <1>3, <1>5 DEF Format!handle_nalu_frame_packet
<1>8. received'[1].type \in {"IDR", "OTHER"}
  BY <1>6 DEF Format!Nalu
<1> QED
  BY <1>1, <1>5, <1>6, <1>7, <1>8 DEF Taken

(* What both audio handlers do. *)
LEMMA HandleAudio ==
  ASSUME NEW f \in Formats, NEW d \in {0, 1}, NEW data \in Seq(Format!Byte),
         body = AudioBody(f, d, data), Format!handle_packet
  PROVE  LET type == IF d = 0 THEN "INFO" ELSE "DATA"
         IN  /\ received' = <<Format!Audio(type, f[2], data)>> /\ rest' = 0
             /\ body' = << >> /\ sent' = sent
             /\ received'[1].type = type /\ received'[1].data = data
             /\ Format!audioCallBack(type, data)
<1> DEFINE x == Format!AudioType(f)
           b == Headed(x, d, data)
           type == IF d = 0 THEN "INFO" ELSE "DATA"
<1>1. f[2] \in {1, 2}
  BY FormatsAssumption
<1>2. x \in Format!Byte /\ d \in Format!Byte /\ f[2] = IF x = 174 THEN 1 ELSE 2
  BY <1>1 DEF Format!AudioType, Format!Byte
<1>3. body.type = "audio" /\ body.bytes = b
  BY DEF AudioBody
<1> HIDE DEF x
<1>4. b[1] = x /\ b[2] = d /\ Format!Part(b, 2, Len(b) - 2) = data
  <2>1. x \in Format!Byte /\ d \in Format!Byte
    BY <1>2
  <2> QED
    BY <2>1, AudioRead
<1> HIDE DEF b
<1>5. /\ Format!handle_audio_packet(b, type)
      /\ Format!audioCallBack(received'[1].type, received'[1].data)
      /\ body' = << >> /\ sent' = sent
  BY <1>3, <1>4 DEF Format!handle_packet, Format!At
<1>6. received' = <<Format!Audio(type, f[2], data)>> /\ rest' = 0
  BY <1>2, <1>4, <1>5 DEF Format!handle_audio_packet, Format!At
<1>7. received'[1].type = type /\ received'[1].data = data
  BY <1>6 DEF Format!Audio
<1>8. Format!audioCallBack(type, data)
  BY <1>5, <1>7
<1> QED
  BY <1>5, <1>6, <1>7, <1>8

(* What the header says of the packet behind it, and of its format. *)
LengthIn(h, n) == Format!FrameLength(h) = (7 + n) % 8192

LengthSaid == received'[1].type = "DATA" => LengthIn(adts_header', Len(received'[1].data))

AnnouncedHeader ==
  \E f \in Formats :
    Format!DecoderSpecificInfo(f) = received'[1].data /\ Format!FormatOf(adts_header') = f

FormatSaid ==
  IF received'[1].type = "INFO" THEN AnnouncedHeader
  ELSE adts_header # << >> => Format!FormatOf(adts_header') = Format!FormatOf(adts_header)

LEMMA HandleInfo ==
  ASSUME InfoSent, Format!handle_packet
  PROVE  Taken /\ HeaderOK' /\ LengthSaid /\ FormatSaid
<1>1. PICK f \in Formats :
        /\ body = AudioBody(f, 0, Format!DecoderSpecificInfo(f))
        /\ sent = <<Format!Audio("INFO", f[2], Format!DecoderSpecificInfo(f))>>
  BY DEF InfoSent
<1> DEFINE d == Format!DecoderSpecificInfo(f)
           h == Format!adts_info(d)
<1>2. /\ d \in Seq(Format!Byte)
      /\ h \in Seq(Format!Byte) /\ Len(h) = 7 /\ Format!FormatOf(h) = f
  BY FormatsAssumption, InfoRoundTrip
<1> HIDE DEF d, h
<1>3. /\ received' = <<Format!Audio("INFO", f[2], d)>> /\ rest' = 0
      /\ body' = << >> /\ sent' = sent
      /\ received'[1].type = "INFO" /\ received'[1].data = d
      /\ Format!audioCallBack("INFO", d)
  BY <1>1, <1>2, HandleAudio DEF d
<1>4. adts_header' = h
  BY <1>3 DEF Format!audioCallBack, h
<1>5. Taken
  BY <1>1, <1>3 DEF Taken, d
<1>6. HeaderOK'
  BY <1>2, <1>4, Zenon DEF HeaderOK
<1>7. AnnouncedHeader
  BY <1>2, <1>3, <1>4, Zenon DEF AnnouncedHeader, d
<1> QED
  BY <1>3, <1>5, <1>6, <1>7 DEF LengthSaid, FormatSaid

LEMMA HandleData ==
  ASSUME DataSent, HeaderOK, Format!handle_packet
  PROVE  Taken /\ HeaderOK' /\ LengthSaid /\ FormatSaid
<1>1. PICK f \in Formats, data \in Samples :
        body = AudioBody(f, 1, data) /\ sent = <<Format!Audio("DATA", f[2], data)>>
  BY DEF DataSent
<1>2. data \in Seq(Format!Byte) /\ Len(data) \in Nat
  BY SamplesAssumption
<1>3. /\ received' = <<Format!Audio("DATA", f[2], data)>> /\ rest' = 0
      /\ body' = << >> /\ sent' = sent
      /\ received'[1].type = "DATA" /\ received'[1].data = data
      /\ Format!audioCallBack("DATA", data)
  BY <1>1, <1>2, HandleAudio
<1> DEFINE h == Format!adts_length(Len(data))
<1>4. adts_header' = h
  BY <1>3 DEF Format!audioCallBack
<1>5. adts_header \in Seq(Format!Byte) /\ Len(adts_header) = 7
  BY DEF DataSent, HeaderOK
<1>6. /\ h \in Seq(Format!Byte) /\ Len(h) = 7
      /\ LengthIn(h, Len(data)) /\ Format!FormatOf(h) = Format!FormatOf(adts_header)
  BY <1>2, <1>5, LengthInHeader DEF LengthIn
<1> HIDE DEF h
<1>7. Taken
  BY <1>1, <1>3 DEF Taken
<1>8. HeaderOK'
  BY <1>4, <1>6, Zenon DEF HeaderOK
<1>9. LengthSaid
  <2>1. LengthIn(adts_header', Len(received'[1].data))
    BY <1>3, <1>4, <1>6, Zenon
  <2> QED
    BY <2>1 DEF LengthSaid
<1>10. FormatSaid
  <2>1. Format!FormatOf(adts_header') = Format!FormatOf(adts_header)
    BY <1>4, <1>6, Zenon
  <2> QED
    BY <1>3, <2>1 DEF FormatSaid
<1> QED
  BY <1>7, <1>8, <1>9, <1>10

(* A packet is taken from its body: with what the header says then. *)
LEMMA HandlePacket ==
  ASSUME PacketInv, Format!handle_packet
  PROVE  Taken /\ HeaderOK' /\ LengthSaid /\ FormatSaid
<1>1. HeaderOK
  BY DEF PacketInv
<1>2. ASSUME adts_header' = adts_header, received'[1].type \in {"SPS", "IDR", "OTHER"}
      PROVE  HeaderOK' /\ LengthSaid /\ FormatSaid
  <2>1. HeaderOK'
    BY <1>1, <1>2, Zenon DEF HeaderOK
  <2>2. LengthSaid /\ FormatSaid
    BY <1>2 DEF LengthSaid, FormatSaid
  <2> QED
    BY <2>1, <2>2
<1>3. CASE SetsSent
  <2>1. Taken /\ adts_header' = adts_header /\ received'[1].type \in {"SPS", "IDR", "OTHER"}
    BY <1>3, HandleSets
  <2> QED
    BY <1>2, <2>1, Zenon
<1>4. CASE FrameSent
  <2>1. Taken /\ adts_header' = adts_header /\ received'[1].type \in {"SPS", "IDR", "OTHER"}
    BY <1>4, HandleFrame
  <2> QED
    BY <1>2, <2>1, Zenon
<1>5. CASE InfoSent
  BY <1>5, HandleInfo, Zenon
<1>6. CASE DataSent
  BY <1>1, <1>6, HandleData, Zenon
<1>7. ~Quiet
  BY DEF Format!handle_packet, Quiet
<1> QED
  BY <1>3, <1>4, <1>5, <1>6, <1>7, Zenon DEF PacketInv

(* The packets keep what is true of them. *)
LEMMA PacketStep == PacketInv /\ [Format!Next]_(Format!vars) => PacketInv'
<1> SUFFICES ASSUME PacketInv, [Format!Next]_(Format!vars) PROVE PacketInv'
  OBVIOUS
<1>1. ASSUME NEW sps \in Format!ParameterSets, NEW pps \in Format!ParameterSets,
             Format!sendSpsPpsToRtmpServer(sps, pps)
      PROVE  PacketInv'
  <2>1. SetsSent'
    BY <1>1, Zenon DEF SetsSent, SetsBody, Format!sendSpsPpsToRtmpServer, Format!Send
  <2>2. UNCHANGED <<rest, adts_header>>
    BY <1>1 DEF Format!sendSpsPpsToRtmpServer, Format!Send
  <2> QED
    BY <2>1, <2>2 DEF PacketInv, HeaderOK
<1>2. ASSUME NEW unit \in Units, NEW idr \in BOOLEAN, NEW start \in Format!StartCodes,
             Format!sendFrameToRtmpServer(idr, start, unit)
      PROVE  PacketInv'
  <2>1. Format!WithoutStartCode(start \o unit) = unit
    BY UnitsAssumption, StartCodeGoes
  <2>2. FrameSent'
    BY <1>2, <2>1, Zenon DEF FrameSent, Format!sendFrameToRtmpServer, Format!Send
  <2>3. UNCHANGED <<rest, adts_header>>
    BY <1>2 DEF Format!sendFrameToRtmpServer, Format!Send
  <2> QED
    BY <2>2, <2>3 DEF PacketInv, HeaderOK
<1>3. ASSUME NEW f \in Formats, Format!getAudioDecodeInfo(f) PROVE PacketInv'
  <2>1. InfoSent'
    BY <1>3, Zenon DEF InfoSent, AudioBody, Headed, Format!getAudioDecodeInfo, Format!Send
  <2>2. UNCHANGED <<rest, adts_header>>
    BY <1>3 DEF Format!getAudioDecodeInfo, Format!Send
  <2> QED
    BY <2>1, <2>2 DEF PacketInv, HeaderOK
<1>4. ASSUME NEW f \in Formats, NEW data \in Samples, adts_header # << >>,
             Format!encodeAudioData(f, data)
      PROVE  PacketInv'
  <2>1. UNCHANGED <<rest, adts_header>>
    BY <1>4 DEF Format!encodeAudioData, Format!Send
  <2>2. DataSent'
    BY <1>4, <2>1, Zenon DEF DataSent, AudioBody, Headed, Format!encodeAudioData, Format!Send
  <2> QED
    BY <2>1, <2>2 DEF PacketInv, HeaderOK
<1>5. CASE Format!handle_packet
  <2>1. Taken /\ HeaderOK'
    BY <1>5, HandlePacket
  <2>2. Quiet' /\ rest' = 0
    BY <2>1 DEF Taken, Quiet
  <2> QED
    BY <2>1, <2>2 DEF PacketInv
<1>6. CASE UNCHANGED Format!vars
  BY <1>6, Zenon DEF Format!vars, PacketInv, HeaderOK, Quiet, SetsSent, FrameSent, InfoSent, DataSent
<1> QED
  BY <1>1, <1>2, <1>3, <1>4, <1>5, <1>6 DEF Format!Next

(* The inductive invariant of the packets: the body on its way is one that  *)
(* an encoder made of what was sent, and the header has its seven bytes.    *)
THEOREM PacketInvariant == Format!Spec => []PacketInv
<1>1. Format!Init => PacketInv
  BY DEF Format!Init, PacketInv, HeaderOK, Quiet
<1> QED
  BY <1>1, PacketStep, PTL DEF Format!Spec

(* A body on its way is one of bytes. *)
LEMMA BodyHasBytes ==
  ASSUME PacketInv, ~Quiet
  PROVE  body # << >> /\ body.type \in {"video", "audio"} /\ body.bytes \in Seq(Format!Byte)
<1>1. CASE SetsSent
  <2>1. PICK sps \in Format!ParameterSets, pps \in Format!ParameterSets :
          body = [type |-> "video", bytes |-> SetsBody(sps, pps)]
    BY <1>1 DEF SetsSent
  <2>2. SetsBody(sps, pps) \in Seq(Format!Byte)
    BY UnitsAssumption, SetsBytes DEF SetsLayout, Format!ParameterSets, FitsTwoBytes
  <2> QED
    BY <2>1, <2>2, RecordIsNotEmpty
<1>2. CASE FrameSent
  <2>1. PICK unit \in Units, idr \in BOOLEAN :
          body = [type |-> "video", bytes |-> Format!FrameBody(idr, Format!U32(Len(unit)), unit)]
    BY <1>2 DEF FrameSent
  <2>2. Format!FrameBody(idr, Format!U32(Len(unit)), unit) \in Seq(Format!Byte)
    BY UnitsAssumption, FrameRead
  <2> QED
    BY <2>1, <2>2, RecordIsNotEmpty
<1>3. ASSUME NEW f \in Formats, NEW d \in {0, 1}, NEW data \in Seq(Format!Byte),
             body = AudioBody(f, d, data)
      PROVE  body # << >> /\ body.type \in {"video", "audio"} /\ body.bytes \in Seq(Format!Byte)
  <2>1. Format!AudioType(f) \in Format!Byte /\ d \in Format!Byte
    BY DEF Format!AudioType, Format!Byte
  <2>2. Headed(Format!AudioType(f), d, data) \in Seq(Format!Byte)
    BY <2>1, AudioRead
  <2> QED
    BY <1>3, <2>2, RecordIsNotEmpty DEF AudioBody
<1>4. CASE InfoSent
  <2>1. PICK f \in Formats : body = AudioBody(f, 0, Format!DecoderSpecificInfo(f))
    BY <1>4 DEF InfoSent
  <2>2. Format!DecoderSpecificInfo(f) \in Seq(Format!Byte)
    BY FormatsAssumption, InfoRoundTrip
  <2> QED
    BY <1>3, <2>1, <2>2
<1>5. CASE DataSent
  BY <1>3, <1>5, SamplesAssumption DEF DataSent
<1> QED
  BY <1>1, <1>2, <1>4, <1>5 DEF PacketInv

(* Packets arrive as they were sent: at every length of their data, and     *)
(* with every format the header of the audio can carry.                     *)
THEOREM PacketsAreRight == Format!Spec => Format!PacketsArrive
<1>1. PacketInv => Format!TypeOK /\ Format!DeliversWhatWasSent /\ Format!TakesTheWholeBody
  <2> SUFFICES ASSUME PacketInv
               PROVE  Format!TypeOK /\ Format!DeliversWhatWasSent /\ Format!TakesTheWholeBody
    OBVIOUS
  <2>1. body # << >> => body.type \in {"video", "audio"} /\ Format!AllBytes(body.bytes)
    BY BodyHasBytes DEF Quiet, Format!AllBytes
  <2>2. Len(adts_header) \in {0, 7} /\ Format!AllBytes(adts_header)
    BY DEF PacketInv, HeaderOK, Format!AllBytes
  <2>3. Format!DeliversWhatWasSent
    BY BodyHasBytes DEF Quiet, Format!DeliversWhatWasSent
  <2>4. Format!TakesTheWholeBody
    BY DEF PacketInv, Format!TakesTheWholeBody
  <2> QED
    BY <2>1, <2>2, <2>3, <2>4 DEF Format!TypeOK
<1>2. PacketInv /\ [Format!Next]_(Format!vars) =>
        [Format!handle_packet /\ received'[1].type = "DATA" =>
           LengthIn(adts_header', Len(received'[1].data))]_(Format!vars)
  BY HandlePacket, Zenon DEF LengthSaid
<1>3. PacketInv /\ [Format!Next]_(Format!vars) =>
        [Format!handle_packet =>
           IF received'[1].type = "INFO"
           THEN \E f \in Formats :
                  Format!DecoderSpecificInfo(f) = received'[1].data /\ Format!FormatOf(adts_header') = f
           ELSE adts_header # << >> =>
                  Format!FormatOf(adts_header') = Format!FormatOf(adts_header)]_(Format!vars)
  BY HandlePacket, Zenon DEF FormatSaid, AnnouncedHeader
<1>4. Format!Spec => Format!HeaderHasLength
  BY <1>2, PacketInvariant, PTL DEF Format!Spec, Format!HeaderHasLength, LengthIn
<1>5. Format!Spec => Format!HeaderHasFormat
  BY <1>3, PacketInvariant, PTL DEF Format!Spec, Format!HeaderHasFormat
<1>6. Format!Spec =>
        [](Format!TypeOK /\ Format!DeliversWhatWasSent /\ Format!TakesTheWholeBody)
  BY <1>1, PacketInvariant, PTL
<1> QED
  BY <1>4, <1>5, <1>6 DEF Format!PacketsArrive

----------------------------------------------------------------------------
(* MediaSpec runs one of them. *)

LEMMA StepOfOne ==
  [MediaNext]_allVars =>
    /\ [Next]_vars /\ [Format!Next]_(Format!vars)
    /\ [Cipher!Next]_(Cipher!vars) /\ [Decoders!Next]_(Decoders!vars)
BY DEF MediaNext, allVars, formatVars, cipherVars, windowVars, vars, inputVars, codecVars,
       Format!vars, Cipher!vars, Cipher!constVars, Decoders!vars, Decoders!streamVars,
       Decoders!pictureVars, Decoders!soundVars

(* A behaviour of MediaSpec is one of each component. *)
LEMMA RunsEach == MediaSpec => Spec /\ Format!Spec /\ Cipher!Spec /\ Decoders!Spec
<1>1. MediaInit => Init /\ Format!Init /\ Cipher!Init /\ Decoders!Init
  BY DEF MediaInit
<1> QED
  BY <1>1, StepOfOne, PTL
     DEF MediaSpec, Spec, Format!Spec, Cipher!Spec, Decoders!Spec

(* A packet arrives as it was sent, and the header before its audio says    *)
(* how long it is and in which format (VideoCapture.cpp:117-191,            *)
(* VideoCtrl.cpp:35-65).                                                    *)
THEOREM PacketsCome == MediaSpec => PacketsArrive
BY RunsEach, PacketsAreRight DEF PacketsArrive

(* What is sent is the frame under the repeated key, and decrypting gives   *)
(* it back, in every behaviour of the run.                                  *)
THEOREM CipherIsRight == MediaSpec => []CryptIsRight
<1>1. Cipher!CryptIsRight => CryptIsRight
  BY DEF CryptIsRight
<1> QED
  BY RunsEach, CipherCorrect, <1>1, PTL

(* What a stream leaves in the parser, and nothing else, puts the pictures  *)
(* of the next into a frame of the wrong size, all of them until stop       *)
(* (VideoCtrl.cpp:72-91); the sound of a monitor is that of its stream.     *)
THEOREM DecodersFit == MediaSpec => []DecodersFitStream
<1>1. WindowInv => DecodersFitStream
  BY DEF WindowInv, DecodersFitStream
<1> QED
  BY RunsEach, WindowInvariant, <1>1, PTL
=============================================================================
