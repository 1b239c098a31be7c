------------------------------ MODULE ByteRange ------------------------------
(***************************************************************************)
(* parseByteRange() of src/src/http/byte_range.hpp: one range of a file,   *)
(* asked for by "bytes=first-last", "bytes=first-" or "bytes=-count".  A   *)
(* header is its unit, the two texts around the first dash, and whether it *)
(* has a dash and a comma; a text is the number it stands for, when all of *)
(* it is digits and the number fits.                                       *)
(***************************************************************************)
EXTENDS Integers

Digits(n) == [kind |-> "digits", n |-> n]
NotDigits == [kind |-> "other", n |-> 0]
Empty == [kind |-> "empty", n |-> 0]
RangeTexts == [kind : {"digits", "other", "empty"}, n : Nat]
RangeHeaders(numbers) ==
    LET texts == {Digits(n) : n \in numbers} \cup {NotDigits, Empty}
    IN  [unit : {"bytes", "items"}, first : texts, last : texts,
         dash : BOOLEAN, comma : BOOLEAN]

Least(a, b) == IF a <= b THEN a ELSE b

\* What the header asks of a file of this size, as offset and length.
FirstToLast(header, size) ==
    LET last == IF header.last.kind = "empty" THEN size - 1
                ELSE Least(header.last.n, size - 1)
    IN  IF \/ header.first.kind # "digits" \/ header.first.n >= size
           \/ header.last.kind = "other" \/ last < header.first.n
        THEN {}
        ELSE {[offset |-> header.first.n, length |-> last - header.first.n + 1]}
Suffix(header, size) ==
    LET length == Least(header.last.n, size)
    IN  IF header.last.kind # "digits" \/ header.last.n = 0 THEN {}
        ELSE {[offset |-> size - length, length |-> length]}

\* The empty set is the 416 of the caller.
ParseByteRange(header, size) ==
    IF header.unit # "bytes" \/ size = 0 \/ ~header.dash \/ header.comma THEN {}
    ELSE IF header.first.kind = "empty" THEN Suffix(header, size)
    ELSE FirstToLast(header, size)

-----------------------------------------------------------------------------
\* The positions a range names, told without arithmetic on its ends: the
\* definition of RFC 9110 that parseByteRange() is held against.
Positions(header, size) ==
    {i \in 0 .. size - 1 :
        IF header.first.kind = "empty"
        THEN header.last.kind = "digits" /\ size - i <= header.last.n
        ELSE /\ header.first.kind = "digits" /\ i >= header.first.n
             /\ \/ header.last.kind = "empty"
                \/ header.last.kind = "digits" /\ i <= header.last.n}
Single(header) == header.unit = "bytes" /\ header.dash /\ ~header.comma
=============================================================================
