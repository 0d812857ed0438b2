------------------------------- MODULE Crypto -------------------------------
(***************************************************************************)
(* Crypto.hpp: a key frame that is encrypted in place, by encrypt, and     *)
(* decrypted in place, by decrypt, which VideoCtrl and RecordCtrl call     *)
(* with the key of the device.  Both run crypt, one loop over pieces as    *)
(* long as the key and one inside over the bytes of a piece.               *)
(***************************************************************************)
EXTENDS Integers

CONSTANTS
  Bits,    \* the bits of a byte
  MaxKey,  \* bound: length of a key
  MaxBuf   \* bound: length of a frame

(* A byte, and the operator ^ of two. *)
Byte == [Bits -> BOOLEAN]
Xor(a, b) == [bit \in Bits |-> a[bit] # b[bit]]

VARIABLES
  key, key_len,  \* never empty: the callers ask for encryption.length()
  buf, buf_len,
  plain,         \* the frame before it was encrypted
  len, i,        \* of the two loops
  pc             \* "encrypt", "sent", "decrypt", "received"

constVars == <<key, key_len, buf_len, plain>>
vars == <<constVars, buf, len, i, pc>>

Init ==
  /\ key_len \in 1..MaxKey /\ buf_len \in 0..MaxBuf
  /\ key \in [0..(key_len - 1) -> Byte]
  /\ plain \in [0..(buf_len - 1) -> Byte]
  /\ buf = plain
  /\ len = 0 /\ i = 0
  /\ pc = "encrypt"

----------------------------------------------------------------------------
Crypting == pc \in {"encrypt", "decrypt"}

(* The length of the piece at len: the key, or what is left. *)
Piece == IF key_len < buf_len - len THEN key_len ELSE buf_len - len

(* One turn of the inner loop. *)
xor_unit ==
  /\ Crypting /\ len < buf_len /\ i < Piece
  /\ buf' = [buf EXCEPT ![len + i] = Xor(@, key[i])]
  /\ i' = i + 1
  /\ UNCHANGED <<constVars, len, pc>>

(* The outer loop goes on behind the piece. *)
nextUnit ==
  /\ Crypting /\ len < buf_len /\ i = Piece
  /\ len' = len + Piece
  /\ i' = 0
  /\ UNCHANGED <<constVars, buf, pc>>

(* crypt returns. *)
return ==
  /\ Crypting /\ len >= buf_len
  /\ pc' = IF pc = "encrypt" THEN "sent" ELSE "received"
  /\ UNCHANGED <<constVars, buf, len, i>>

(* Mutation: the position of the run before is kept. *)
decrypt_GoesOn ==
  /\ pc = "sent"
  /\ pc' = "decrypt"
  /\ UNCHANGED <<constVars, buf, len, i>>

decrypt ==
  /\ pc = "sent"
  /\ len' = 0 /\ i' = 0
  /\ pc' = "decrypt"
  /\ UNCHANGED <<constVars, buf>>

Over == pc = "received" /\ UNCHANGED vars

Step == xor_unit \/ nextUnit \/ return \/ decrypt

Next == Step \/ Over

Spec == Init /\ [][Next]_vars

----------------------------------------------------------------------------
(* Types, and len never beyond the buffer. *)
TypeOK ==
  /\ key_len \in Nat \ {0} /\ buf_len \in Nat
  /\ key \in [0..(key_len - 1) -> Byte]
  /\ plain \in [0..(buf_len - 1) -> Byte]
  /\ buf \in [0..(buf_len - 1) -> Byte]
  /\ len \in 0..buf_len /\ i \in 0..key_len
  /\ pc \in {"encrypt", "sent", "decrypt", "received"}

(* What is sent is the frame under the key repeated over its whole length,  *)
(* the last piece cut: any other implementation of the cipher can read it.  *)
SentUnderRepeatedKey ==
  pc = "sent" => \A j \in 0..(buf_len - 1) : buf[j] = Xor(plain[j], key[j % key_len])

(* Decrypting with the same key gives back the frame, for lengths that are  *)
(* no multiple of the key, shorter than it, and zero.                       *)
ReceivedIsPlain == pc = "received" => buf = plain

(* Both sides of the cipher are right.                                      *)
CryptIsRight == TypeOK /\ SentUnderRepeatedKey /\ ReceivedIsPlain
=============================================================================
