-------------------------------- MODULE Codecs --------------------------------
(***************************************************************************)
(* Bfdp::Unicode: conversion of code points to and from the bytes of a     *)
(* coding (AsciiConverter, Ms1252Converter, Utf8Converter) and the map     *)
(* from the names of codings to their converters (CodingMap).              *)
(***************************************************************************)
EXTENDS Integers, Sequences, FiniteSets

CONSTANT TheoreticalMaxUnicodePoint    \* 0x7FFFFFFF in the code

ASSUME CodecsAssumption ==
    /\ TheoreticalMaxUnicodePoint \in Nat
    /\ 127 <= TheoreticalMaxUnicodePoint /\ TheoreticalMaxUnicodePoint <= 2147483647

IsValidCodePoint(cp) == cp <= TheoreticalMaxUnicodePoint

\* Neither one of the noncharacters of the BMP nor one of the last two of the planes 0 to 16.
IsCharacter(cp) ==
    /\ IsValidCodePoint(cp)
    /\ cp \notin 64976 .. 65007
    /\ cp % 65536 < 65534 \/ cp \div 65536 > 16

-----------------------------------------------------------------------------
(* Codings by table: blocks of codes that map to code points in order *)

AsciiTable == << [other |-> 0, unicode |-> 0, blockLen |-> 128] >>

Block(other, unicode, blockLen) ==
    [other |-> other, unicode |-> unicode, blockLen |-> blockLen]

Ms1252Table ==
    << Block(0, 0, 127), Block(128, 8364, 1), Block(129, 129, 1), Block(130, 8218, 1),
       Block(131, 402, 1), Block(132, 8222, 1), Block(133, 8230, 1), Block(134, 8224, 2),
       Block(136, 710, 1), Block(137, 8240, 1), Block(138, 352, 1), Block(139, 8249, 1),
       Block(140, 338, 1), Block(142, 381, 1), Block(145, 8216, 2), Block(147, 8220, 2),
       Block(149, 8226, 1), Block(150, 8211, 2), Block(152, 732, 1), Block(153, 8482, 1),
       Block(154, 353, 1), Block(155, 8250, 1), Block(156, 339, 1), Block(158, 382, 1),
       Block(159, 376, 1), Block(160, 160, 96) >>

\* No code, or no bytes.
Undefined == -1

\* The blocks that have a code on one side, "other" or "unicode".
BlocksWith(table, side, code) ==
    {i \in DOMAIN table : code \in table[i][side] .. table[i][side] + table[i].blockLen - 1}

\* Transcode: the first block that has the code decides.
Transcode(table, from, to, code) ==
    LET blocks == BlocksWith(table, from, code)
        entry == table[CHOOSE i \in blocks : \A j \in blocks : i <= j]
    IN  IF blocks = {} THEN Undefined ELSE entry[to] + code - entry[from]

ToUnicode(table, code) == Transcode(table, "other", "unicode", code)
FromUnicode(table, cp) == Transcode(table, "unicode", "other", cp)

-----------------------------------------------------------------------------
(* UTF-8, of up to six bytes *)

\* The ones that a byte begins with.
CountHeaderBits(byte) == Cardinality({n \in 1 .. 8 : byte >= 256 - 2^(8 - n)})

Utf8Failure == [size |-> 0, symbol |-> Undefined]

\* The first byte is good and so are the ones it announces.
IsUtf8(bytes) ==
    LET header == CountHeaderBits(bytes[1])
    IN  /\ header # 1 /\ header <= 6 /\ header <= Len(bytes)
        /\ \A i \in 2 .. header : CountHeaderBits(bytes[i]) = 1

\* Mutant: the mask of the first byte is a bit too short.
Utf8ConvertBytesShort(bytes) ==
    LET header == CountHeaderBits(bytes[1])
        size == IF header = 0 THEN 1 ELSE header
        symbol[i \in 1 .. size] ==
            IF i = 1 THEN bytes[1] % 2^(6 - header) ELSE symbol[i - 1] * 64 + (bytes[i] % 64)
    IN  IF IsUtf8(bytes) THEN [size |-> size, symbol |-> symbol[size]] ELSE Utf8Failure

\* ConvertBytes: the code point that the bytes begin with, and how many of them it takes.
Utf8ConvertBytes(bytes) ==
    LET header == CountHeaderBits(bytes[1])
        size == IF header = 0 THEN 1 ELSE header
        symbol[i \in 1 .. size] ==
            IF i = 1 THEN bytes[1] % 2^(7 - header) ELSE symbol[i - 1] * 64 + (bytes[i] % 64)
    IN  IF IsUtf8(bytes) THEN [size |-> size, symbol |-> symbol[size]] ELSE Utf8Failure

\* The bits of code points that so many bytes hold; six hold all there are.
Utf8Bits(size) == IF size = 1 THEN 7 ELSE 5 * size + 1

Utf8Size(cp) == 1 + Cardinality({n \in 1 .. 5 : cp >= 2^Utf8Bits(n)})

\* ConvertSymbol: the bytes of a code point, or none.
Utf8ConvertSymbol(cp) ==
    LET size == Utf8Size(cp)
        Byte(i) == CASE i = 1 /\ size = 1 -> cp
                     [] i = 1 /\ size > 1 -> 256 - 2^(8 - size) + cp \div 64^(size - 1)
                     [] OTHER -> 128 + ((cp \div 64^(size - i)) % 64)
    IN IF IsValidCodePoint(cp) THEN [i \in 1 .. size |-> Byte(i)] ELSE <<>>
=============================================================================
