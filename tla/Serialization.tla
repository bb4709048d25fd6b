--------------------------- MODULE Serialization ---------------------------
(***************************************************************************)
(* What a hash is computed of: hashPart and hashVarInt of                  *)
(* packages/sdk/src/modules/blockchain/common/Hash.ts, byte by byte. The   *)
(* digest itself is taken to tell different inputs apart.                  *)
(***************************************************************************)
EXTENDS Integers, Sequences

CONSTANTS
    Byte,       \* how many values a byte has (256)
    Wide,       \* bytes of a number or bigint (8)
    MaxBytes,   \* bound: bytes of a BigNumber
    Utf8,       \* the bytes of each text: a function on the texts
    OtherIds,   \* what a product id may be instead of a text
    Raw         \* the bytes hashPart writes of these

Texts == DOMAIN Utf8

(* UTF-8 tells all texts apart that are well-formed Unicode (a surrogate   *)
(* without its partner would be encoded like U+FFFD). hashPart throws at   *)
(* another product id that Raw has no bytes of (-1, 1.5), and writes       *)
(* nothing of some (null, true).                                           *)
ASSUME SerializationAssumption ==
    /\ Byte \in Nat /\ Byte > 4
    /\ Wide \in Nat /\ Wide >= 4 /\ MaxBytes \in Nat /\ MaxBytes > 1
    /\ \A text \in Texts : Utf8[text] \in Seq(0 .. Byte - 1)
    /\ \A t, u \in Texts : Utf8[t] = Utf8[u] => t = u
    /\ DOMAIN Raw \subseteq OtherIds /\ OtherIds \cap Texts = {}
    /\ \A id \in DOMAIN Raw : Raw[id] \in Seq(0 .. Byte - 1)

(* How many values n bytes have.                                           *)
Span[n \in Nat] == IF n = 0 THEN 1 ELSE Byte * Span[n - 1]

LittleEndian(value, n) == [i \in 1 .. n |-> (value \div Span[i - 1]) % Byte]

BigEndian(value, n) == [i \in 1 .. n |-> (value \div Span[n - i]) % Byte]

(* 0xfc, 0xffff and 0xffffffff are the bounds, the last one exclusive.     *)
hashVarInt(value) ==
    IF value <= Byte - 4 THEN LittleEndian(value, 1)
    ELSE IF value < Span[2] THEN <<Byte - 3>> \o LittleEndian(value, 2)
    ELSE IF value < Span[4] - 1 THEN <<Byte - 2>> \o LittleEndian(value, 4)
    ELSE <<Byte - 1>> \o LittleEndian(value, Wide)

hashText(text) == hashVarInt(Len(Utf8[text])) \o Utf8[text]

(* writeBigUInt64LE throws at a negative number and above 64 bits.         *)
Writes(value) == value \in 0 .. Span[Wide] - 1

hashNumber(value) == LittleEndian(value, Wide)

(* toHexString without its "0x" and without a length in front. A negative  *)
(* one starts with "-0x", where the decoder of hex digits stops at once.   *)
hashBigNumber(value) ==
    IF value < 0 THEN <<>>
    ELSE LET n == CHOOSE n \in 1 .. MaxBytes :
                      value < Span[n] /\ (n = 1 \/ value >= Span[n - 1])
         IN BigEndian(value, n)
============================================================================
