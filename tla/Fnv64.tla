-------------------------------- MODULE Fnv64 --------------------------------
(***************************************************************************)
(* fnv64_hex of src/src/types.rs, for two inputs read side by side.  Both  *)
(* the exclusive or with a byte and the product modulo 2^64 carry the low  *)
(* bits of the hash to its low bits alone, so with a smaller power of two  *)
(* as Word the model computes the low bits of the code's hash.             *)
(***************************************************************************)
EXTENDS Integers

CONSTANTS
    Word,    \* the hash is a number below Word: 2^64, or a smaller power of two
    Offset,  \* 0xcbf29ce484222325 % Word
    Prime,   \* 0x100000001b3 % Word
    Bytes    \* the bytes of the inputs

VARIABLES
    left, right,  \* the hash of either input so far
    differs       \* history: whether the inputs differ, in one byte

vars == <<left, right, differs>>

\* The bit of n that stands for the power of two p.
Bit(n, p) == (n \div p) % 2

\* The bit of a ^ b, and of a | b, that stands for p, in its place.
XorBit(a, b, p) == IF Bit(a, p) # Bit(b, p) THEN p ELSE 0
OrBit(a, b, p) == IF Bit(a, p) + Bit(b, p) > 0 THEN p ELSE 0

XorByte(a, b) ==
    XorBit(a, b, 1) + XorBit(a, b, 2) + XorBit(a, b, 4) + XorBit(a, b, 8)
    + XorBit(a, b, 16) + XorBit(a, b, 32) + XorBit(a, b, 64) + XorBit(a, b, 128)

OrByte(a, b) ==
    OrBit(a, b, 1) + OrBit(a, b, 2) + OrBit(a, b, 4) + OrBit(a, b, 8)
    + OrBit(a, b, 16) + OrBit(a, b, 32) + OrBit(a, b, 64) + OrBit(a, b, 128)

\* Variant: the byte is or-ed in.
RoundOr(hash, byte) == ((hash - (hash % 256) + OrByte(hash % 256, byte)) * Prime) % Word

\* hash ^ byte: the low eight bits of the hash change and no others.
Xor(hash, byte) == hash - (hash % 256) + XorByte(hash % 256, byte)

\* One turn of the loop.
Round(hash, byte) == (Xor(hash, byte) * Prime) % Word

Init == left = Offset /\ right = Offset /\ differs = FALSE

Same(byte) == left' = Round(left, byte) /\ right' = Round(right, byte) /\ UNCHANGED differs

Differ(a, b) ==
    /\ ~differs /\ a # b
    /\ left' = Round(left, a)
    /\ right' = Round(right, b)
    /\ differs' = TRUE

Next == (\E byte \in Bytes : Same(byte)) \/ (\E a, b \in Bytes : Differ(a, b))

Spec == Init /\ [][Next]_vars

\* Two inputs of one length that differ in one byte never have one hash, wherever the
\* byte is: of two grants that differ in one digit of the seed, or of the step, the
\* token ids are different.
OneByteNeverCollides == differs => left # right
==============================================================================
