------------------------------ MODULE HexCodec ------------------------------
(***************************************************************************)
(* hex_encode and hex_decode of src/src/types.rs.  Bytes are encoded one   *)
(* by one; on its way to the decoder the text may change.                  *)
(***************************************************************************)
EXTENDS Integers, Sequences

CONSTANTS
    Bytes,     \* the bytes encoded
    Others,    \* characters a change may put into the text
    MaxBytes   \* bound: bytes encoded

VARIABLES
    bytes,  \* what was encoded
    text    \* the text as it arrives

vars == <<bytes, text>>

Lower == <<"0", "1", "2", "3", "4", "5", "6", "7", "8", "9", "a", "b", "c", "d", "e", "f">>
Upper == <<"0", "1", "2", "3", "4", "5", "6", "7", "8", "9", "A", "B", "C", "D", "E", "F">>

\* char::to_digit(16): the set of the digit, empty for a character that is none.
to_digit(c) == {d \in 0 .. 15 : c \in {Lower[d + 1], Upper[d + 1]}}

\* Variant: the low digit comes first.
EncodedSwapped(b) == <<Lower[(b % 16) + 1], Lower[b \div 16 + 1]>>

\* format!("{byte:02x}").
Encoded(b) == <<Lower[b \div 16 + 1], Lower[(b % 16) + 1]>>

\* Variant: a character that is no digit counts as zero.
DigitOrZero(c) == IF to_digit(c) = {} THEN {0} ELSE to_digit(c)
ByteOfLoose(hi, lo) == {16 * h + l : h \in DigitOrZero(hi), l \in DigitOrZero(lo)}

\* One pair of characters; a character that is no digit ends the decoding.
ByteOf(hi, lo) == {16 * h + l : h \in to_digit(hi), l \in to_digit(lo)}

\* hex_decode: the set of its result, empty for None.
hex_decode(t) ==
    IF \/ Len(t) % 2 # 0
       \/ \E i \in 1 .. (Len(t) \div 2) : ByteOf(t[2 * i - 1], t[2 * i]) = {}
    THEN {}
    ELSE {[i \in 1 .. (Len(t) \div 2) |-> CHOOSE b \in ByteOf(t[2 * i - 1], t[2 * i]) : TRUE]}

\* hex_encode, as a function of all the bytes.
hex_encode(bs) ==
    [i \in 1 .. (2 * Len(bs)) |-> Encoded(bs[(i + 1) \div 2])[IF i % 2 = 1 THEN 1 ELSE 2]]

Init == bytes = <<>> /\ text = <<>>

\* One turn of the loop of hex_encode.
EncodeByte(b) ==
    /\ Len(bytes) < MaxBytes
    /\ bytes' = Append(bytes, b)
    /\ text' = text \o Encoded(b)

\* The way changes or loses a character.
Change(i, c) == text' = [text EXCEPT ![i] = c] /\ UNCHANGED bytes
Lose == text # <<>> /\ text' = SubSeq(text, 1, Len(text) - 1) /\ UNCHANGED bytes

Next ==
    \/ \E b \in Bytes : EncodeByte(b)
    \/ \E i \in 1 .. Len(text), c \in Others : Change(i, c)
    \/ Lose

Spec == Init /\ [][Next]_vars

SameUpToCase(t, u) ==
    Len(t) = Len(u) /\ \A i \in 1 .. Len(t) : to_digit(t[i]) = to_digit(u[i])

\* A text that is the encoding of the bytes up to case decodes to the bytes.
ArrivedDecodes == SameUpToCase(text, hex_encode(bytes)) => hex_decode(text) = {bytes}

\* Whatever the way did, a text that decodes is the encoding, up to case, of what it
\* decodes to: no damaged digit and no lost one is read as some byte.
DecodedIsEncoding == \A bs \in hex_decode(text) : SameUpToCase(text, hex_encode(bs))
=============================================================================
