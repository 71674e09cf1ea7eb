------------------------------ MODULE MCFieldTexts ------------------------------
(* Names of codings of each kind; texts of one to three code points from both sides of every limit *)
(* of the codings, and short texts of bytes that begin, continue and break UTF-8 sequences. *)
EXTENDS FieldTexts

Name(family, dashed, page) == [family |-> family, dashed |-> dashed, page |-> page]
MCCodingNames ==
    {Name("ASCII", FALSE, 0), Name("UTF8", TRUE, 16), Name("MS", TRUE, 1252), Name("MS", FALSE, 1252)}

CodePoints == {0, 65, 127, 128, 255, 339, 2047, 2048, 8364, 65535, 65536, 1114111}
MCTexts ==
    [1 .. 1 -> CodePoints] \cup [1 .. 2 -> {65, 255, 8364, 65536}] \cup [1 .. 3 -> {65, 8364}]

MCBytes ==
    UNION {[1 .. n -> {65, 128, 157, 192, 226}] : n \in 1 .. 3}
    \cup {<<255>>, <<240, 159, 152, 128>>, <<252, 129, 129, 129, 129, 129>>}
=============================================================================
