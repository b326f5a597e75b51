------------------------------ MODULE Encoding ------------------------------
(***************************************************************************)
(* How keys, signatures and addresses become bytes and come back: wallet.go,*)
(* transaction.go and utils.go of src/src.  big.Int.Bytes writes a number  *)
(* without leading zero bytes, and nobody writes down how many there were. *)
(***************************************************************************)
EXTENDS Integers, SequencesExt

CONSTANTS
  ByteBase,   \* 256 in the code
  TextBase,   \* 58, the number of characters in b58Alphabet
  MaxNumber,  \* bound: the coordinates of keys and the halves of signatures
  MaxBytes    \* bound: the length of what is encoded in Base58

ASSUME EncodingAssumption ==
  /\ ByteBase \in Nat \ {0, 1} /\ TextBase \in Nat \ {0, 1}
  /\ MaxNumber \in Nat /\ MaxBytes \in Nat

Byte == 0 .. ByteBase - 1

\* The digits of n, most significant first; none for 0.
Digits(n, base) ==
  LET digits[m \in 0 .. n] == IF m = 0 THEN <<>> ELSE Append(digits[m \div base], m % base)
  IN  digits[n]

\* The number that has these digits.
Number(digits, base) == FoldLeft(LAMBDA n, d : n * base + d, 0, digits)

Bytes(n)    == Digits(n, ByteBase)     \* big.Int.Bytes
SetBytes(b) == Number(b, ByteBase)     \* big.Int.SetBytes

-----------------------------------------------------------------------------
(* A public key is X and Y, a signature r and s: two numbers, the bytes of *)
(* one after those of the other (NewKeyPair, Sign), which Verify separates *)
(* in the middle.                                                          *)

Join(x, y) == Bytes(x) \o Bytes(y)

\* Mutant: of an odd number of bytes, the first half gets one more.
HalvesRoundUp(b) ==
  LET half == (Len(b) + 1) \div 2
  IN  <<SubSeq(b, 1, half), SubSeq(b, half + 1, Len(b))>>

Halves(b) ==
  LET half == Len(b) \div 2
  IN  <<SubSeq(b, 1, half), SubSeq(b, half + 1, Len(b))>>

Split(b) == <<SetBytes(Halves(b)[1]), SetBytes(Halves(b)[2])>>

-----------------------------------------------------------------------------
(* Base58Encode and Base58Decode.  A character stands for its place in     *)
(* b58Alphabet, so "1" is 0.                                               *)

LeadingZero(s) == IF Head(s) = 0 THEN <<0>> ELSE <<>>

Base58Encode(input) == LeadingZero(input) \o Digits(SetBytes(input), TextBase)

\* Mutant: the leading zero byte is not restored.
Base58DecodeNumber(text) == Bytes(Number(text, TextBase))

Base58Decode(text) == LeadingZero(text) \o Bytes(Number(text, TextBase))

-----------------------------------------------------------------------------
VARIABLES
  numbers,  \* history: the two numbers of the key or signature; <<>> at first
  joined,   \* its bytes, in the wallet or in an input of a transaction
  payload,  \* history: the bytes of the address; <<>> at first
  text      \* the address

encVars == <<numbers, joined, payload, text>>

EncInit == numbers = <<>> /\ joined = <<>> /\ payload = <<>> /\ text = <<>>

\* NewKeyPair with the point (x, y), or Sign with the signature (x, y).
WriteNumbers(x, y) ==
  /\ numbers' = <<x, y>>
  /\ joined' = Join(x, y)
  /\ UNCHANGED <<payload, text>>

\* GetAddress encodes the version, the hash and its checksum.
WriteAddress(bytes) ==
  /\ payload' = bytes
  /\ text' = Base58Encode(bytes)
  /\ UNCHANGED <<numbers, joined>>

\* Bound: one value is written, since nothing depends on those before it.
EncNext ==
  /\ numbers = <<>> /\ payload = <<>>
  /\ \/ \E x \in 0 .. MaxNumber, y \in 0 .. MaxNumber : WriteNumbers(x, y)
     \/ \E bytes \in BoundedSeq(Byte, MaxBytes) \ {<<>>} : WriteAddress(bytes)

EncSpec == EncInit /\ [][EncNext]_encVars

-----------------------------------------------------------------------------
(* What survives the encodings, and what does not. *)

(* A key or signature comes back if and only if its second number has as   *)
(* many bytes as the first or one more: one zero byte at the front of X is *)
(* harmless, one at the front of Y moves a byte from X to Y, and Verify    *)
(* refuses what was signed well.                                           *)
SplitExact ==
  numbers # <<>> =>
    (Split(joined) = numbers <=> Len(Bytes(numbers[2])) - Len(Bytes(numbers[1])) \in {0, 1})

(* Base58 decodes what it encoded unless that starts with two zero bytes.  *)
(* GetAddress encodes a zero version byte and a hash, so the addresses of  *)
(* hashes that start with a zero byte are read back too short.             *)
Base58Exact ==
  LET twoZeros == Len(payload) > 1 /\ payload[1] = 0 /\ payload[2] = 0
  IN  payload # <<>> => (Base58Decode(text) = payload <=> ~twoZeros)

=============================================================================
